CONSTANTS
  r1 = r1
  Phones = {p1}
  Subjects = {g1, g2}
  Emails = {e1}
  EmailsOf <- SharedEmail
  Devices = {d1, d2}
  Requests = {r1, r2, r3, r4}
  Calls <- AnyCall
  MaxCodes = 2
  MaxAttempts = 2
  None = None
SPECIFICATION Spec
INVARIANTS OneAccount OneDeviceRow LoginsMatch CodesSpentBySignIn UsedCodeRefused SomeoneCanGo
PROPERTY KeepsContract
SYMMETRY Interchangeable
CHECK_DEADLOCK FALSE
