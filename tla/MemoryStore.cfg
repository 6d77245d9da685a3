SPECIFICATION Spec
CONSTANTS
  c1 = c1
  o1 = o1
  ta = ta
  tb = tb
  Memory = {m1, m2, m3}
  Call = {c1, o1}
  Tenant = {ta, tb}
  own <- MCOwn
  Field = {"text", "importance"}
  Limit = 2
  Saved = saved
  Earlier = earlier
  None = none
INVARIANTS
  LostOnlyByOverlap
  VersionCountsUpdates
  WrongTenantOnlyByIntrusion
PROPERTIES
  DeletedIsFrozen
  HasMoreErrsOnlyByChange
  SearchGoesByText
SYMMETRY MemorySymmetry
CHECK_DEADLOCK FALSE
