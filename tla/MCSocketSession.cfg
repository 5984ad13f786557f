SPECIFICATION SessionSpec
CONSTANTS
  s1 = s1
  w1 = w1
  Sockets <- OneSocket
  Tools <- OneTool
  Publishers <- NoPublisher
  Loop = Loop
  None = None
  QueueSize = 1
  MaxEvents = 2
  MaxSeq = 3
  AuthTimeout = 1
  TokenLife = 2
  MaxGreeting = 1
INVARIANTS NeverOutlivesToken
PROPERTIES SessionsClose StopEnds
CHECK_DEADLOCK FALSE
