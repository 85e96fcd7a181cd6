SPECIFICATION Spec
CONSTANTS
  Streams = {0, 1, 3}
  MaxControl = 11
  FrameCapacity = 1
  MaxOpen = 3
  Lengths = {1}
  InitialConn = 4
  InitialStream = 2
  ConnLimits = {6}
  StreamLimits = {}
  MaxBytes = 2
  MaxPings = 1
  MaxDues = 1
  Scenarios = {{"due"}}
INVARIANTS
  CreditRespected
  RoundRobin
  Alternation
CHECK_DEADLOCK FALSE
