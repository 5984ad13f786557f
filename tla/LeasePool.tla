------------------------------ MODULE LeasePool ------------------------------
(***************************************************************************)
(* What admission control promises to the rest of the server: a pool of    *)
(* task slots.  The slots somebody really holds are the whole state; there *)
(* are no counters, no tokens and no clock.  A slot may be granted only    *)
(* when its thread is free and both limits leave room for it.  Refusing a  *)
(* request changes nothing.                                                *)
(***************************************************************************)
EXTENDS Naturals, FiniteSets

CONSTANTS Users, Threads, MaxActivePerUser, MaxActiveProcess

VARIABLE held      \* the slots in use: a set of [user, thread] records

Slot == [user : Users, thread : Threads]

HeldBy(u) == {s \in held : s.user = u}

Init == held = {}

Grant(u, t) ==
  /\ \A s \in held : s.thread # t
  /\ Cardinality(HeldBy(u)) < MaxActivePerUser
  /\ Cardinality(held) < MaxActiveProcess
  /\ held' = held \cup {[user |-> u, thread |-> t]}

Return(u, t) ==
  /\ [user |-> u, thread |-> t] \in held
  /\ held' = held \ {[user |-> u, thread |-> t]}

Next == \E u \in Users, t \in Threads : Grant(u, t) \/ Return(u, t)

Spec == Init /\ [][Next]_held
=============================================================================
