SPECIFICATION MCSpec
CONSTANTS
  Switch = {externals, tests}
  ServiceSwitch = {externals}
  Mode = {dark}
  NoMode = NoMode
  NoFile = NoFile
  NoRun = NoRun
  Stream = {s1}
  TableOf <- MCTableOf
  MaxCommands = 3
  MaxEdits = 2
  MaxExecs = 3
INVARIANTS
  RecomputeInv
  LastCommandWins
  ReportedPageIsServed
  OpenStreamsAreSubscribed
PROPERTIES
  CommandsSettle
  ImplementsRunOnDemand
  ShutdownCompletes
CHECK_DEADLOCK FALSE
