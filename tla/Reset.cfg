SPECIFICATION Spec
CONSTANTS
  User = {u1}
  Password = {p1}
  Family = {f1, f2}
  SessionId = {s1, s2, s3, s4}
  ResetToken = {t1}
  Request = {r1, r2}
  NoToken = NoToken
  Second = 1
  RefreshExpiry = 2
  RefreshExpiryMs = 2
  AccessTtl = 1
  ResetTtl = 1
  GracePeriod = 1
  MaxTime = 1
  EnableCache = FALSE
  RedisMayFail = FALSE
  MayAbort = TRUE
  Ops = {"login", "refresh", "logout", "forgot", "reset"}
INVARIANTS ResetEndsListed IInv
 
SYMMETRY Symmetry
CHECK_DEADLOCK FALSE
