------------------------------ MODULE FifoLocks ------------------------------
(***************************************************************************)
(* What TaskService.locked promises: one first-come first-served lock per  *)
(* Thread, as if every lock existed for ever.  No table, no entries and no *)
(* reference counts.                                                       *)
(***************************************************************************)
EXTENDS Naturals, SequencesExt

CONSTANTS Procs, Threads, None

VARIABLES
  owner,     \* who is inside the lock of a thread, or None
  queue      \* who waits for it, in order of arrival

Init ==
  /\ owner = [t \in Threads |-> None]
  /\ queue = [t \in Threads |-> <<>>]

Away(p) == \A t \in Threads :
  owner[t] # p /\ \A i \in DOMAIN queue[t] : queue[t][i] # p

Take(p, t) ==
  /\ Away(p)
  /\ owner[t] = None /\ queue[t] = <<>>
  /\ owner' = [owner EXCEPT ![t] = p]
  /\ UNCHANGED queue

Wait(p, t) ==
  /\ Away(p)
  /\ owner[t] # None \/ queue[t] # <<>>
  /\ queue' = [queue EXCEPT ![t] = Append(@, p)]
  /\ UNCHANGED owner

Grant(t) ==
  /\ owner[t] = None /\ queue[t] # <<>>
  /\ owner' = [owner EXCEPT ![t] = Head(queue[t])]
  /\ queue' = [queue EXCEPT ![t] = Tail(@)]

Leave(t) ==
  /\ owner[t] # None
  /\ owner' = [owner EXCEPT ![t] = None]
  /\ UNCHANGED queue

GiveUp(p, t) ==
  /\ \E i \in DOMAIN queue[t] :
       /\ queue[t][i] = p
       /\ queue' = [queue EXCEPT ![t] = RemoveAt(@, i)]
  /\ UNCHANGED owner

Next == \E t \in Threads :
  \/ Grant(t) \/ Leave(t)
  \/ \E p \in Procs : Take(p, t) \/ Wait(p, t) \/ GiveUp(p, t)

Safety == Init /\ [][Next]_<<owner, queue>>

Spec == /\ Safety
        /\ \A t \in Threads : WF_<<owner, queue>>(Grant(t))
=============================================================================
