SPECIFICATION AnswersSpec
CONSTANTS
  Text = {w, x}
  Doc = {d1, d2}
  Intent = {"rag", "chat", "tool_author"}
  Whole = w
  PoolSize = 2
  MaxSubs = 3
  Field <- Author
  Value <- Authors
  Title <- Titles
  NoTitle = "none"
  Inside <- PartOf
  Libraries <- SmallLibraries
  RrfK = 60
  Defaults <- Profiles
  Settings <- SmallSettings
  Requested = {1, 2}
INVARIANTS
  PartsComeTogether
  SourcesInQuestionOrder
  RetrievalsPerText
  FilterHonoured
  RepliesFit
  NamedPoemIsConsidered
PROPERTY TurnIsPrepared
CHECK_DEADLOCK FALSE
