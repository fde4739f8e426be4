SPECIFICATION Spec
CONSTANTS
  Req = {r1, r2}
  Session = {s1, s2}
  None = None
  HitlEnabled = TRUE
  Durable = FALSE
  Kinds = {"stream", "plain"}
  Deletable = {s1}
  MaxCrashes = 1
SYMMETRY Symmetry
INVARIANT Inductive
INVARIANT PendingTurnIsOpen
CHECK_DEADLOCK FALSE
