----------------------------- MODULE MCTaskStore -----------------------------
(* A small instance of TaskStore for TLC.                                   *)
EXTENDS TaskStore, TLC
CONSTANTS t1, o1, o2, a1
OneThread == {t1}
TwoOwners == {o1, o2}
OneApproval == {a1}

\* The owners are interchangeable.
Interchangeable == Permutations(TwoOwners)
=============================================================================
