------------------------------ MODULE ReplayLog ------------------------------
(***************************************************************************)
(* What the task store promises about a Thread, whatever its tables look   *)
(* like: once claimed it has one owner; its events form one append-only    *)
(* log, of which readers can see everything from position first on; only   *)
(* the oldest events become unreadable, never one in the middle and never  *)
(* one that comes back; an approval is spent once and stays spent; and all *)
(* this ends together, when the Thread is forgotten.                       *)
(***************************************************************************)
EXTENDS Naturals, Sequences

CONSTANTS Threads, Owners, ApprovalIds, Events, None

VARIABLES
  owner,    \* the owner of each thread, or None
  log,      \* all its events
  first,    \* how many of them can no longer be read
  spent     \* the approvals that were accepted

vars == <<owner, log, first, spent>>

Init ==
  /\ owner = [t \in Threads |-> None]
  /\ log = [t \in Threads |-> <<>>]
  /\ first = [t \in Threads |-> 0]
  /\ spent = [t \in Threads |-> {}]

Claim(t, o) ==
  /\ owner[t] = None
  /\ owner' = [owner EXCEPT ![t] = o]
  /\ UNCHANGED <<log, first, spent>>

Record(t, e, n) ==
  /\ owner[t] # None
  /\ first[t] <= n /\ n <= Len(log[t]) + 1
  /\ log' = [log EXCEPT ![t] = Append(@, e)]
  /\ first' = [first EXCEPT ![t] = n]
  /\ UNCHANGED <<owner, spent>>

Spend(t, a) ==
  /\ owner[t] # None
  /\ a \notin spent[t]
  /\ spent' = [spent EXCEPT ![t] = @ \cup {a}]
  /\ UNCHANGED <<owner, log, first>>

Forget(T) ==
  /\ owner' = [t \in Threads |-> IF t \in T THEN None ELSE owner[t]]
  /\ log' = [t \in Threads |-> IF t \in T THEN <<>> ELSE log[t]]
  /\ first' = [t \in Threads |-> IF t \in T THEN 0 ELSE first[t]]
  /\ spent' = [t \in Threads |-> IF t \in T THEN {} ELSE spent[t]]

Next ==
  \/ \E T \in SUBSET Threads : Forget(T)
  \/ \E t \in Threads :
       \/ \E o \in Owners : Claim(t, o)
       \/ \E e \in Events, n \in 0 .. Len(log[t]) + 1 : Record(t, e, n)
       \/ \E a \in ApprovalIds : Spend(t, a)

Spec == Init /\ [][Next]_vars
=============================================================================
