CONSTANTS
  Session = {s1}
  Principal = {p1}
  Request = {r1, r2}
  Key = {k1}
  Body = {b1, b2}
  Worker = {w1, w2}
  LLMVerdict <- MCVerdicts
  Faults = {"redis", "mysql", "llm", "engine", "crash", "evict", "slow_turn"}
  Threshold = 1
  Full = 2
  NoOne = NoOne
  NoKey = NoKey
  NoDoc = NoDoc
  Nothing = Nothing
SPECIFICATION Spec
SYMMETRY MCSymmetry
INVARIANTS
  LogContiguous
  AnswerFollowsQuestion
  AppliedOnce
  RepliesAreLogged
  SnapshotsMatchAnswers
  CacheBehindStore
  SingleFlight
CHECK_DEADLOCK FALSE
