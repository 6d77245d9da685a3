SPECIFICATION Spec
CONSTANTS
  Task = {1, 2, 3, 4}
  Runs = {r1}
  Plans <- AcyclicPlans
INVARIANTS
  OutcomeIsHonest
PROPERTIES
  SkipExactlyOnFailure
  LaunchAfterDependenciesSettle
  ContractSpec
CHECK_DEADLOCK FALSE
