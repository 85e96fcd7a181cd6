SPECIFICATION Spec
CONSTANTS
  Remote = {}
  Local = {"l1", "l2"}
  MaxOpen = 3
  Acceptors = {}
  Scenarios = {{"l1", "l2", "finish", "drop", "full"}}
PROPERTY DroppedSendsEnd
CHECK_DEADLOCK FALSE
