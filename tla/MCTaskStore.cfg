SPECIFICATION Spec
CONSTANTS
  t1 = t1
  o1 = o1
  o2 = o2
  a1 = a1
  Threads <- OneThread
  Owners <- TwoOwners
  ApprovalIds <- OneApproval
  Kinds = {"task_result", "waiting_for_approval"}
  Sizes = {1, 2, 4}
  None = None
  MaxEvents = 2
  MaxBytes = 3
  TTL = 2
  MaxWait = 1
  MaxSeq = 3
  MaxTime = 3
SYMMETRY Interchangeable
INVARIANTS LogIsWindow ReplayCompletes
PROPERTIES RecentHistoryKept IsReplayLog
