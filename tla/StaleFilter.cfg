CONSTANTS
  t1 = t1
  t2 = t2
  e1 = e1
  e2 = e2
  e3 = e3
  Tool = {t1, t2}
  Post = {u1}
  Fetch = {f1, f2}
  Latency = {1, 3, 4}
  Usage <- MCUsage
  Earlier <- MCEarlier
  Filter <- MCFilter
  MaxTime = 1
  Faults = {"mysql", "network"}
  AnyTool = AnyTool
  AnyTime = AnyTime
  Nothing = Nothing
SPECIFICATION Spec
SYMMETRY MCSymmetry
INVARIANTS
  ShownIsFiltered
CHECK_DEADLOCK FALSE
