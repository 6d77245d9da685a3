SPECIFICATION Spec
CONSTANTS
  MaxTasks = 3
  MaxPlans = 1
  Decompositions <- MCDecompositions
  Profiles <- MCProfiles
INVARIANTS
  OrderRespectsDependencies
  DepthIsLongestChain
  LevelsSeparateIffAcyclic
  NamesResolve
CHECK_DEADLOCK FALSE
