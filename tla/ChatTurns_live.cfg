SPECIFICATION FairSpec
CONSTANTS
  Req = {r1, r2}
  Session = {s1}
  None = None
  HitlEnabled = TRUE
  Durable = TRUE
  Kinds = {"stream"}
  Deletable = {s1}
  MaxCrashes = 0
PROPERTY Settles
CHECK_DEADLOCK FALSE
