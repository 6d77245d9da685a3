SPECIFICATION Spec
CONSTANTS
  k1 = k1
  k2 = k2
  ta = ta
  tb = tb
  Task = {k1, k2}
  Tenant = {ta, tb}
  owner <- MCOwner
  NoTask = none
  NoTenant = nobody
INVARIANTS
  MixUpNeedsOverlap
  ReportsItsWork
PROPERTIES
  AcceptedTaskReturns
