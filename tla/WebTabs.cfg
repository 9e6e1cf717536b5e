CONSTANTS
  Tab = {tab1, tab2}
  Session = {s1, s2}
  Principal = {p1, p2}
  MaxInFlight = 2
  MaxTurns = 1
  Faults = {"dev", "private", "quota"}
  NoId = NoId
  Nothing = Nothing
SPECIFICATION Spec
SYMMETRY MCSymmetry
INVARIANTS
  StoreFollowsTab
  PairOwned
  ShownInItsSession
  WaitsForSomething
  WayOut
CHECK_DEADLOCK FALSE
