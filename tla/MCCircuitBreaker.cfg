SPECIFICATION BreakerSpec
CONSTANTS
  Requests = {r1, r2, r3}
  failureThreshold = 3
  resetTimeout = 2
  halfOpenSuccessThreshold = 2
PROPERTIES
  OpensForCause
  ClosesOnRecovery
  Recovers
