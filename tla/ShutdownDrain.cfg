SPECIFICATION Spec
CONSTANTS
  Remote = {"r"}
  Local = {}
  MaxControl = 2
  Scenarios = {{"open"}}
PROPERTIES
  DrainIsKept
CHECK_DEADLOCK FALSE
