SPECIFICATION Spec
CONSTANTS
  MaxProcesses = 2
  MaxAsks = 3
  Editors = {"nvim"}
INVARIANTS
  ArcStopEndsService
CHECK_DEADLOCK FALSE
