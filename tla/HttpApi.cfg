SPECIFICATION Spec
CONSTANTS
  r1 = r1
  r2 = r2
  r3 = r3
  c1 = c1
  p1 = p1
  None = None
  Requests <- MCRequests
  Loads <- MCLoads
  Clients <- MCClients
  Phones <- MCPhones
  TokenRoles <- MCTokenRoles
  AUTH_RATE_LIMIT_PER_MINUTE = 1
  AUTH_RATE_LIMIT_WINDOW_SECONDS = 3
  MaxTime = 4
CHECK_DEADLOCK FALSE
INVARIANTS
  CounterLeftOnlyByFailure
  AdmittedWithinLimit
  RefusedOnlyOverLimit
  AtMostTwiceTheLimit
  DocumentedStatus
  ForbiddenIsNotUnauthenticated
  ShutdownIsComplete
