SPECIFICATION Spec
CONSTANTS
  Streams = {0}
  MaxControl = 5
  FrameCapacity = 1
  MaxOpen = 1
  Lengths = {2}
  InitialConn = 2
  InitialStream = 1
  ConnLimits = {}
  StreamLimits = {2}
  MaxBytes = 2
  MaxPings = 0
  MaxDues = 1
  Scenarios = {{"finish", "reset", "close"}, {"reset", "stop", "end", "close"},
               {"finish", "due", "close", "abort"}, {"finish", "end", "due"}}
INVARIANTS
  TypeOK
  NeverSleepsOnWork
  ReadyMatchesQueues
  EndIsFinal
  CloseAfterDrain
PROPERTIES
  DrainProgresses
CHECK_DEADLOCK FALSE
