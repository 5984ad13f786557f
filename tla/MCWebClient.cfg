SPECIFICATION Spec
CONSTANTS
  c1 = c1
  c2 = c2
  h1 = h1
  Conns <- TwoConns
  Submits <- OneSubmit
  Reconnect = Reconnect
  Decide = Decide
  Login = Login
  None = None
  MaxLog = 3
  MaxLogins = 1
SYMMETRY Interchangeable
INVARIANTS CardAgrees NotLeftRunning SubmittingIsUnderWay ReadyMeansConnected
CHECK_DEADLOCK FALSE
