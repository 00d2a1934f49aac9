CONSTANTS
  u1 = u1  u2 = u2  s1 = s1  s2 = s2  r1 = r1  r2 = r2  r3 = r3
  Users = {u1}
  Sessions = {s1, s2}
  Tokens = {t1, t2}
  Requests = {r1, r2, r3, r4}
  Calls <- Contention
  Lapsing = {}
  Owner <- OneOwner
  None = None
SPECIFICATION FairSpec
INVARIANTS RevocationComplete
PROPERTIES EveryRequestEnds
CHECK_DEADLOCK FALSE
