SPECIFICATION BreakerSpec
CONSTANTS
  Call = {c1, c2, c3, c4}
  failure_threshold = 3
  success_threshold = 2
  timeout_seconds = 2
  MaxFailures = 7
PROPERTIES
  OpensOnFailuresInARow
  ClosesOnSuccessesInARow
  RecoversWhenFailuresStop
