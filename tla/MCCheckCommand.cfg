SPECIFICATION CommandSpec
CONSTANTS
  ImplicitRuleName = "no cycles"
  FormatVersion = 1
  NoName = "none"
  Projects <- MCProjects
INVARIANTS
  OrderIsChecked
  CyclesAreJudged
  FrozenStaysGreen
  StaleEntriesAreDropped
  ReportIsTrue
  CommandsAgree
