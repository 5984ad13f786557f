--------------------------- MODULE MCEventDelivery ---------------------------
(* Small instances of EventDelivery for TLC.                                *)
EXTENDS EventDelivery, TLC

CONSTANTS s1, s2, w1, p1

TwoSockets == {s1, s2}
OneSocket == {s1}
OneTool == {w1}
OnePublisher == {p1}
NoPublisher == {}

\* The sockets are interchangeable.
Interchangeable == Permutations(TwoSockets)
=============================================================================
