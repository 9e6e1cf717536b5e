SPECIFICATION FairSpec
CONSTANTS
  Threshold = 1
  Full = 2
  Url = {u1}
  Gap = {g1}
  DefaultGap = gap0
  MaxIterations = 2
  MaxTurns = 3
  NoText = NoText
  NoSnapshot = NoSnapshot
INVARIANTS PassIsCurrent RefusalNamesGaps FindingsCited QuestionsKeptApart
  ContextIsHistory LoopBounded
PROPERTIES LightKeepsResearch RunsEnd
CHECK_DEADLOCK FALSE
