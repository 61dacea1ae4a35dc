SPECIFICATION FairSpec
CONSTANTS
  Email = {e1, e2}
  UserId = {u1, u2}
  VToken = {t1, t2, t3}
  Request = {r1, r2}
  NoToken = NoToken
  VerifyTtl = 0
  PoolSize = 2
  MaxTime = 1
  MayFail = TRUE
INVARIANTS TypeOK AddressesApart ProfilesPaired AnnouncedExist TokenUntilVerified VerifiedByMail UnmailedExplained
PROPERTY EveryRequestEnds ImplementsBook
CHECK_DEADLOCK FALSE
