CONSTANTS
  start = start
  login = login
  other = other
  Tasks = {start, login, other, q}
  Does <- Requests
  Faults <- NoFault
  None = None
SPECIFICATION Spec
INVARIANTS KeepsSession
CHECK_DEADLOCK FALSE
