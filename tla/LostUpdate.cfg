CONSTANTS
  Session = {s1}
  Principal = {p1}
  Request = {r1, r2}
  Key = {k1}
  Body = {b1}
  Worker = {w1}
  LLMVerdict <- MCVerdicts
  Faults = {"slow_turn"}
  Threshold = 1
  Full = 2
  NoOne = NoOne
  NoKey = NoKey
  NoDoc = NoDoc
  Nothing = Nothing
SPECIFICATION Spec
SYMMETRY MCSymmetry
INVARIANTS
  NoLostUpdate
CHECK_DEADLOCK FALSE
