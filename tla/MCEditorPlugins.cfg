SPECIFICATION Spec
CONSTANTS
  MaxProcesses = 4
  MaxAsks = 5
  Editors = {"nvim", "vscode", "rustrover"}
INVARIANTS
  OneService
  ServiceEnds
  PageShowsService
  OwnsItsService
CHECK_DEADLOCK FALSE
