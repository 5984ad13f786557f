SPECIFICATION Spec
CONSTANTS
  s1 = s1
  s2 = s2
  w1 = w1
  p1 = p1
  Sockets <- TwoSockets
  Tools <- OneTool
  Publishers <- OnePublisher
  Loop = Loop
  None = None
  QueueSize = 1
  MaxEvents = 2
  MaxSeq = 3
SYMMETRY Interchangeable
INVARIANTS NothingMissed LatestStaysActive AtMostTwice OrderedPerSource
CHECK_DEADLOCK FALSE
