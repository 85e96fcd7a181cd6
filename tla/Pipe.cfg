SPECIFICATION Spec
CONSTANTS
  MaxBytes = 4
  MaxWrite = 2
  QueueSlots = 2
  FrameCapacity = 2
  StreamWindow = 3
  ConnWindow = 3
  PageSize = 3
  MaxWire = 1
  Scenarios <- SixScenarios
INVARIANTS TypeOK ReturnedOnce PeerNeverFails ReaderAwake
PROPERTY ImplementsByteStream
\* Both applications may stop calling.
CHECK_DEADLOCK FALSE
