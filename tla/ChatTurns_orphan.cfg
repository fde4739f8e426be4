SPECIFICATION Spec
CONSTANTS
  Req = {r1, r2}
  Session = {s1}
  None = None
  HitlEnabled = FALSE
  Durable = TRUE
  Kinds = {"stream"}
  Deletable = {s1}
  MaxCrashes = 0
INVARIANT DeletedSessionIsForgotten
CHECK_DEADLOCK FALSE
