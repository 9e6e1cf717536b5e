CONSTANTS
  Tool = {t1, t2}
  Ghost = {g}
  MaxAttempts = 2
  Passes = 2
  Faults = {"registry", "llm", "tool", "log", "cancel"}
SPECIFICATION FairSpec
INVARIANTS
  FallbackDiscipline
  AnswerReturned
  UsageMatchesAttempts
PROPERTIES
  PassEnds
CHECK_DEADLOCK FALSE
