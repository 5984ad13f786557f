SPECIFICATION FairSpec
CONSTANTS
  p1 = p1
  p2 = p2
  p3 = p3
  t1 = t1
  t2 = t2
  e1 = e1
  e2 = e2
  e3 = e3
  Procs <- MCProcs
  Threads <- MCThreads
  Entries <- MCEntries
  None = None
  MaxAbandoned = 1
INVARIANTS TypeOK MutualExclusion EntryIsCurrent UsersExact
PROPERTIES WaitEnds IsFifoLocks
