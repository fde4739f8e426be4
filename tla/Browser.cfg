SPECIFICATION BrowserSpec
CONSTANTS
  Session = {a, b}
  None = None
  MaxStreams = 4
  MaxLoads = 2
  Chat = {"s1", "s2"}
  Old = {"s1"}
  Own = {"o1", "o2"}
  Matches = {"o1"}
  QuestionMatches = TRUE
  MaxRenames = 2
  MaxTypes = 2
  MaxLists = 4
INVARIANTS
  PageInv
  PageShowsActiveSession
  AnswerUnderItsQuestion
  StopStops
  CompleteAndCurrent
PROPERTIES
  PageBecomesReady
  RenameStands
CHECK_DEADLOCK FALSE
