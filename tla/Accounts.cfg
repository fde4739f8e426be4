SPECIFICATION AccountsSpec
CONSTANTS
  Req = {c1, c2, c3}
  Limits = {1, 2}
  DayLength = 2
  Offset = 0
  LastTick = 3
  Call = {c1, c2, c3}
  Tab = {t1, t2}
  None = None
  Kinds = {"data", "logout", "login"}
  MaxPairs = 3
SYMMETRY Symmetry
INVARIANT OvershootBounded
INVARIANT OneLiveTokenPerSignIn
INVARIANT LogoutEndsSignIn
PROPERTY SignOutExplained
CHECK_DEADLOCK FALSE
