SPECIFICATION Spec
CONSTANT
  Pages <- SamplePages
INVARIANT FiltersDecide
