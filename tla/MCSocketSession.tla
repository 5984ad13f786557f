--------------------------- MODULE MCSocketSession ---------------------------
(* A small instance of SocketSession for TLC.                               *)
EXTENDS SocketSession

CONSTANTS s1, w1

OneSocket == {s1}
OneTool == {w1}
NoPublisher == {}
=============================================================================
