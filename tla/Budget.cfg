SPECIFICATION Spec
CONSTANTS
  Streams = {"a", "b", "c"}
  Stalled = {"b"}
  Idle = {"b"}
  MaxFrames = 6
  StreamBytes = 3
  ConnBytes = 5
  Sizes <- MixedSizes
  Scenarios = {{"reset"}, {"cancel", "close"}, {"end"}}
INVARIANTS TypeOK BudgetsExact FrameSlotFree
PROPERTY WritesEnd
\* A closed connection accepts no calls.
CHECK_DEADLOCK FALSE
