----------------------------- MODULE MCThreadLock -----------------------------
(* A small instance of ThreadLock for TLC.                                   *)
EXTENDS ThreadLock

CONSTANTS p1, p2, p3, t1, t2, e1, e2, e3

MCProcs == {p1, p2, p3}
MCThreads == {t1, t2}
MCEntries == {e1, e2, e3}
=============================================================================
