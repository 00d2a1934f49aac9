CONSTANTS
  u1 = u1  u2 = u2  s1 = s1  s2 = s2  r1 = r1  r2 = r2  r3 = r3
  Users = {u1, u2}
  Sessions = {s1, s2}
  Tokens = {t1, t2, t3}
  Requests = {r1, r2, r3, r4}
  Calls <- AnyCall
  Lapsing = {t1, t2, t3}
  Owner <- TwoOwners
  None = None
SPECIFICATION Spec
INVARIANTS AuditExact RevokedIsUseless ChainSound
PROPERTIES KeepsContract
SYMMETRY Interchangeable
CHECK_DEADLOCK FALSE
