---------------------------- MODULE MCTaskService ----------------------------
(* Small instances of TaskService for TLC.                                  *)
EXTENDS TaskService, TLC

CONSTANTS t1, a1, a2, r1, r2, d1, d2, j1, j2

OneThread == {t1}
OneApproval == {a1}
TwoApprovals == {a1, a2}
OneRun == {r1}
TwoRuns == {r1, r2}
OneDecider == {d1}
TwoDeciders == {d1, d2}
TwoJobs == {j1, j2}

\* Requests of a kind, tasks and approvals are interchangeable.
Interchangeable ==
  Permutations(TwoRuns) \cup Permutations(TwoDeciders)
    \cup Permutations(TwoJobs) \cup Permutations(TwoApprovals)
=============================================================================
