SPECIFICATION Spec
CONSTANTS
  Req = {r1, r2, r3}
  Session = {s1}
  None = None
  HitlEnabled = FALSE
  Durable = TRUE
  Kinds = {"stream"}
  Deletable = {s1}
  MaxCrashes = 0
SYMMETRY Symmetry
INVARIANT RepliesAreRemembered
INVARIANT OrphanMemoryNeedsOverlap
INVARIANT AnswersHaveQuestions
CHECK_DEADLOCK FALSE
