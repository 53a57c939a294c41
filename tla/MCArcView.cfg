SPECIFICATION Spec
CONSTANT
  Pages <- SamplePages
INVARIANT NoDependencyIsLost
INVARIANT OneClusterAtATime
PROPERTY ReloadKeepsView
