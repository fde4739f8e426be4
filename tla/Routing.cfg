SPECIFICATION RoutingSpec
CONSTANTS
  Tool = {"lookup"}
  Doc = {"d1", "d2", "d3"}
  Key <- TwoPoems
  Title = {"t", "u"}
  None = "none"
  MaxSteps = 3
  MaxSearches = 2
  MaxCalls = 2
  MaxHits = 1
  MaxPrior = 0
  Poem = {"t", "u"}
  NoPoem = "none"
  MaxTurns = 4
  ReactEnabled = TRUE
  Fallback = TRUE
  ToolLoop = TRUE
  Keyword <- FewWords
  Suggested = {"rag", "chat", "tool_writing", "tool_meter"}
  Confidence = {6499, 6500, 6999, 7000, 8999, 9000, 10000}
  MaxKeywords = 4
INVARIANTS
  EveryCallIsAnswered
  SearchesWithinBudget
  SourcesOnce
  AnswerSeesAllResults
  ReactWhenInDoubt
  ReferencesKeepToThePoem
CHECK_DEADLOCK FALSE
