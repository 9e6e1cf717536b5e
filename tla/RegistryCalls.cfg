CONSTANTS
  t1 = t1
  t2 = t2
  Tool = {t1, t2}
  Tag = {a, b}
  Request = {r1, r2}
  PutStatus = {"active"}
  SeedList <- MCSeedList
  SeedInactive = {t2}
  SeedTags = {a}
  Faults = {"abort", "crash"}
  NoOne = NoOne
  NoRow = NoRow
  Unset = Unset
  Nothing = Nothing
SPECIFICATION Spec
SYMMETRY MCSymmetry
INVARIANTS
  RefusedLeavesNothing
  CapabilitiesWhole
  LastReplaceHolds
  NoDeadlock
PROPERTIES
  OmittedFieldsKept
CHECK_DEADLOCK FALSE
