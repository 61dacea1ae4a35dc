SPECIFICATION Spec
CONSTANTS
  User = {u1}
  Password = {p1}
  Family = {f1}
  SessionId = {s1, s2}
  ResetToken = {}
  Request = {r1, r2}
  NoToken = NoToken
  Second = 1
  RefreshExpiry = 3
  RefreshExpiryMs = 3
  AccessTtl = 1
  ResetTtl = 1
  GracePeriod = 2
  MaxTime = 1
  EnableCache = TRUE
  RedisMayFail = FALSE
  MayAbort = FALSE
  Ops = {"login", "refresh"}
INVARIANT NoReplayInGrace
SYMMETRY Symmetry
CHECK_DEADLOCK FALSE
