CONSTANTS
  r1 = r1
  Phones = {p1}
  Subjects = {g1, g2}
  Emails = {e1}
  EmailsOf <- SharedEmail
  Devices = {d1}
  Requests = {r1, r2, r3}
  Calls <- OneCode
  MaxCodes = 1
  MaxAttempts = 2
  None = None
SPECIFICATION Spec
INVARIANTS CodeUsedOnce
CHECK_DEADLOCK FALSE
