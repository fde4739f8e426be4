SPECIFICATION Spec
CONSTANTS
  Req = {r1, r2}
  Session = {s1}
  None = None
  HitlEnabled = TRUE
  Durable = TRUE
  Kinds = {"stream"}
  Deletable = {}
  MaxCrashes = 0
INVARIANT ToolsWaitForApproval
CHECK_DEADLOCK FALSE
