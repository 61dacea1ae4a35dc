SPECIFICATION FairSpec
CONSTANTS
  User = {u1}
  Password = {p1}
  Family = {f1}
  SessionId = {s1, s2}
  ResetToken = {}
  Request = {r1, r2}
  NoToken = NoToken
  Second = 1
  RefreshExpiry = 2
  RefreshExpiryMs = 2
  AccessTtl = 1
  ResetTtl = 1
  GracePeriod = 1
  MaxTime = 1
  EnableCache = TRUE
  RedisMayFail = TRUE
  MayAbort = FALSE
  Ops = {"login", "refresh", "logout"}
PROPERTIES TerminationEnds ReplayEndsFamily
CHECK_DEADLOCK FALSE
