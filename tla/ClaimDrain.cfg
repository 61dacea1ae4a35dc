SPECIFICATION Spec
CONSTANTS
  Request = {r1, r2}
  Signal = {SIGTERM, SIGINT}
  audit = audit
  billing = billing
  Plugin = {audit, billing}
  Registered <- ExtensionOrder
  MayFail = FALSE
INVARIANT DrainsBeforeExit
CHECK_DEADLOCK FALSE
