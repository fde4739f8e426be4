SPECIFICATION Spec
CONSTANTS
  Req = {r1, r2, r3}
  Session = {s1}
  None = None
  HitlEnabled = TRUE
  Durable = TRUE
  Kinds = {"stream"}
  Deletable = {}
  MaxCrashes = 0
INVARIANT ApprovalIsForShownTurn
CHECK_DEADLOCK FALSE
