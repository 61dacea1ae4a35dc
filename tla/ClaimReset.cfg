SPECIFICATION Spec
CONSTANTS
  User = {u1}
  Password = {p1, p2}
  Family = {f1}
  SessionId = {s1, s2}
  ResetToken = {t1}
  Request = {r1, r2}
  NoToken = NoToken
  Second = 1
  RefreshExpiry = 2
  RefreshExpiryMs = 2
  AccessTtl = 1
  ResetTtl = 1
  GracePeriod = 1
  MaxTime = 1
  EnableCache = TRUE
  RedisMayFail = FALSE
  MayAbort = FALSE
  Ops = {"login", "forgot", "reset"}
PROPERTY ResetEndsAll
SYMMETRY Symmetry
CHECK_DEADLOCK FALSE
