CONSTANTS
  start = start
  login = login
  other = other
  Tasks = {start, login, other, q}
  Does <- Anything
  Faults <- AnyFault
  None = None
SPECIFICATION FairSpec
INVARIANTS InSync Fresh SignedOutForCause LoggedOutStays
PROPERTIES EveryTaskEnds
CHECK_DEADLOCK FALSE
