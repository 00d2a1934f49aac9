SPECIFICATION Spec
CONSTANTS
  u1 = u1 u2 = u2 a1 = a1 a2 = a2
  Users = {u1, u2}
  Requests = {r1, r2}
  Addresses = {a1, a2}
  Inputs <- MCInputs
  NoRow = NoRow
  NoProfile = NoProfile
CHECK_DEADLOCK FALSE
INVARIANTS OneDefault OneProfile
PROPERTIES LanguageAsAsked OwnAddresses DeletedStays EveryRequestEnds
