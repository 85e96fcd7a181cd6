SPECIFICATION Spec
CONSTANTS
  Remote = {"r1", "r2"}
  Local = {"l1", "l2"}
  MaxOpen = 1
  Acceptors = {"x"}
  Scenarios = {{"r1", "r2", "finish", "cancel"},
               {"r1", "r2", "stop"},
               {"l1", "l2", "finish", "stop", "reset"},
               {"r1", "finish", "drop", "cancel", "stop", "reset", "full"}}
INVARIANTS TypeOK PermitComesBack LeavesTheMap AcceptorAwake
PROPERTY DroppedStreamsRetire
CHECK_DEADLOCK FALSE
