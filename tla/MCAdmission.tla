----------------------------- MODULE MCAdmission -----------------------------
(* A small instance of Admission for TLC.                                   *)
EXTENDS Admission, TLC

CONSTANTS u1, u2, t1, t2, t3, k1, k2, k3

MCUsers == {u1, u2}
MCThreads == {t1, t2, t3}
MCTokens == {k1, k2, k3}

\* Users, threads and tokens are interchangeable in every property checked.
Interchangeable ==
  Permutations(MCUsers) \cup Permutations(MCThreads) \cup Permutations(MCTokens)
=============================================================================
