SPECIFICATION Spec
CONSTANTS
  N = 4
  MaxTangle = 3
  MaxDependencies = 4
INVARIANTS
  ReadingOrder
  LeastWeightPointsUp
  TestEdgesKeepTangles
CHECK_DEADLOCK FALSE
