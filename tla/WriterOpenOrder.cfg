SPECIFICATION Spec
CONSTANTS
  Streams = {0, 2}
  MaxControl = 8
  FrameCapacity = 1
  MaxOpen = 2
  Lengths = {1}
  InitialConn = 4
  InitialStream = 2
  ConnLimits = {}
  StreamLimits = {}
  MaxBytes = 1
  MaxPings = 0
  MaxDues = 0
  Scenarios = {{"finish", "reset"}}
INVARIANTS
  OpenPrecedesUse
CHECK_DEADLOCK FALSE
