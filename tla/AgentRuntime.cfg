SPECIFICATION Spec
CONSTANTS
  Orchestrator = {clawkeeper}
  Worker = {invoice_parser}
  Request = {q1, q2, q3}
  None = None
INVARIANTS
  OneInstanceUnlessRaced
  ShutdownStopsAllUnlessRaced
PROPERTIES
  ShutdownEnds
CHECK_DEADLOCK FALSE
