SPECIFICATION Spec
CONSTANTS
  ana = ana
  cleo = cleo
  ta = ta
  tb = tb
  ap = ap
  reporting = reporting
  CEO = clawkeeper
  Nobody = nobody
  NoLimit = none
  SuperAdmin = "super_admin"
  Capability <- MCCapability
  CapabilityPolicy <- MCCapabilityPolicy
  Routes <- MCRoutes
  granted <- MCGranted
  Request = {ana, cleo}
  Complex = {ana}
  context <- MCContext
  task <- MCTask
  Decompositions <- MCDecompositions
  MaxRetries = 2
  MaxCalls = 2
INVARIANTS
  DelegatedWorkIsAuthorised
  RefusalOverturnedOnlyByMixUp
  AnswerAccountsForAttempts
  TracesEndUnlessReplaced
PROPERTIES
  EveryRequestAnswered
CHECK_DEADLOCK FALSE
