SPECIFICATION Spec
CONSTANTS
  Req = {r1, r2, r3}
  Session = {s1}
  None = None
  HitlEnabled = TRUE
  Durable = TRUE
  Kinds = {"stream"}
  Deletable = {}
  MaxCrashes = 0
SYMMETRY Symmetry
INVARIANT ToolsRunAtMostOnce
INVARIANT DeferredToolsNeedApproval
INVARIANT TurnAnsweredOnce
PROPERTY ApprovalContract
CHECK_DEADLOCK FALSE
