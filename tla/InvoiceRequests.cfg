SPECIFICATION Spec
CONSTANTS
  a1 = a1
  p1 = p1
  p2 = p2
  o1 = o1
  v1 = v1
  ta = ta
  tb = tb
  Request = {a1, p1, p2, o1, v1}
  Conn = {c1}
  Tenant = {ta, tb}
  operation <- MCOperation
  tenant <- MCTenant
  role <- MCRole
  Owner = ta
  Nobody = nobody
INVARIANTS
  LegalHistory
  PaidTwiceOnlyByOverlap
  AnswersMatchTrail
  OnlyOwnersAct
SYMMETRY PaymentSymmetry
CHECK_DEADLOCK FALSE
