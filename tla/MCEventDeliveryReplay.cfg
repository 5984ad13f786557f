SPECIFICATION Spec
CONSTANTS
  s1 = s1
  s2 = s2
  w1 = w1
  p1 = p1
  Sockets <- OneSocket
  Tools <- OneTool
  Publishers <- NoPublisher
  Loop = Loop
  None = None
  QueueSize = 2
  MaxEvents = 3
  MaxSeq = 3
SYMMETRY Interchangeable
INVARIANTS ReplayedInOrder
CHECK_DEADLOCK FALSE
