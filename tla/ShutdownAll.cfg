SPECIFICATION Spec
CONSTANTS
  Remote = {"r"}
  Local = {"a"}
  MaxControl = 2
  Scenarios = {{"peerclose", "error", "stop", "abort", "tick", "expire"},
               {"error", "stop", "open", "expire"},
               {"drop", "fault", "cancel", "write", "expire"},
               {"open", "cancel", "write", "expire"}}
INVARIANTS
  TypeOK
  CleanedOnce
  NothingLeftQueued
  OpenedBeforeSweep
PROPERTIES
  TerminatesUnlessAbandoned
CHECK_DEADLOCK FALSE
