SPECIFICATION Spec
CONSTANTS
  Remote = {"r"}
  Local = {}
  MaxControl = 2
  Scenarios = {{"open", "abort"}}
INVARIANTS
  WaitersWoken
CHECK_DEADLOCK FALSE
