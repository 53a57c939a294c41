SPECIFICATION Spec
CONSTANTS
  NoItem = NoItem
  MaxUses = 5
  Workspaces <- SampleWorkspaces
  Months = 6
  LowThreshold = 1
  HighThreshold = 2
  TopHotspots = 2
  DefaultHotspots = 10
  Alphabet <- MCAlphabet
  Capitalised <- MCCapitalised
  UpperCase <- MCUpperCase
  Tolerations <- MCTolerations
INVARIANTS
  ImportsAreFollowed
  OneEdgePerPair
  RepresentativesAreShortest
  FeedbackBreaksCycles
  LocalityIsDeepestHome
  EveryDependencyDrawn
  ArcsPointDown
  TargetsResolve
  MapAddsUp
  HotspotsAreRanked
  SelectionCarriesOver
  PagesAreWhole
CHECK_DEADLOCK FALSE
