SPECIFICATION Spec
CONSTANTS
  v1 = v1 v2 = v2
  Verifications = {v1, v2}
  Tokens <- MCTokens
  KeySets <- MCKeySets
  MaxEpoch = 2
  Issuers = {"provider"}
  Audiences = {"app"}
  None = None
CHECK_DEADLOCK FALSE
INVARIANTS AcceptedIsGenuine
PROPERTIES CacheNeverGoesBack GenuineIsAccepted EveryVerificationEnds
