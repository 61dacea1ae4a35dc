SPECIFICATION Spec
CONSTANTS
  User = {u1}
  Password = {p1}
  Family = {f1, f2}
  SessionId = {s1, s2, s3, s4}
  ResetToken = {}
  Request = {r1, r2}
  NoToken = NoToken
  Second = 1
  RefreshExpiry = 3
  RefreshExpiryMs = 3
  AccessTtl = 1
  ResetTtl = 1
  GracePeriod = 1
  MaxTime = 1
  EnableCache = TRUE
  RedisMayFail = FALSE
  MayAbort = FALSE
  Ops = {"login", "refresh", "logout"}
INVARIANTS RowsApart HalfLogoutExplained GracePairSucceeds
PROPERTIES BlacklistLasts ImplementsRegistry
SYMMETRY Symmetry
CHECK_DEADLOCK FALSE
