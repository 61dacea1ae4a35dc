SPECIFICATION Spec
CONSTANTS
  User = {u1}
  Password = {p1}
  Family = {f1}
  SessionId = {s1, s2}
  ResetToken = {t1}
  Request = {r1, r2}
  NoToken = NoToken
  Second = 2
  RefreshExpiry = 2
  RefreshExpiryMs = 1
  AccessTtl = 1
  ResetTtl = 1
  GracePeriod = 1
  MaxTime = 3
  EnableCache = TRUE
  RedisMayFail = TRUE
  MayAbort = TRUE
  Ops = {"login", "refresh", "logout", "revoke", "list", "forgot", "reset"}
INVARIANTS TypeOK IssuedHasRow RowExpiryInStep
PROPERTIES DeadStayQuiet GraceEndsWithSession
SYMMETRY Symmetry
CHECK_DEADLOCK FALSE
