SPECIFICATION AppFairSpec
CONSTANTS
  Request = {r1, r2}
  Signal = {SIGTERM, SIGINT}
  audit = audit
  billing = billing
  Plugin = {audit, billing}
  Registered <- ExtensionOrder
  MayFail = TRUE
  Path <- Requested
  Throwing = {audit}
  Setting <- Settings
INVARIANTS AppTypeOK EventsHeard AcceptsWhileOpen CoreAnswersAll HeardInOrder AnnouncedIsOk ExpiryInStep
PROPERTIES SignalEnds AcceptedAnswered
CHECK_DEADLOCK FALSE
