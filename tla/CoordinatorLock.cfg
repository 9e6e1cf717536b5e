CONSTANTS
  Session = {s1}
  Principal = {p1}
  Request = {r1, r2}
  Key = {k1}
  Body = {b1}
  Worker = {w1}
  LLMVerdict <- MCVerdicts
  Faults = {"redis", "mysql", "engine", "crash", "evict"}
  Threshold = 1
  Full = 2
  NoOne = NoOne
  NoKey = NoKey
  NoDoc = NoDoc
  Nothing = Nothing
SPECIFICATION FairSpec
INVARIANTS
  OneTurnAtATime
  RefusedByHalfTurn
PROPERTIES
  CallsEnd
  LocksFreed
  ImplementsTurnLog
  ImplementsTurnMemory
CHECK_DEADLOCK FALSE
