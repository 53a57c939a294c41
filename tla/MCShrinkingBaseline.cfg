SPECIFICATION CommandSpec
CONSTANTS
  ImplicitRuleName = "no cycles"
  FormatVersion = 1
  NoName = "none"
  Projects <- ShrinkingProjects
INVARIANTS
  OnlyAdditionsReported
