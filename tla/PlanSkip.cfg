SPECIFICATION Spec
CONSTANTS
  Task = {1, 2, 3}
  Runs = {r1}
  Plans <- AcyclicPlans
PROPERTIES
  DependenciesSucceeded
CHECK_DEADLOCK FALSE
