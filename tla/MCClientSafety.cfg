SPECIFICATION Spec
CONSTANTS
  Request = {r1, r2, r3}
  Auth = auth
  Challenge = {"invalid_token", "expired_token", "invalid_grant", "other"}
  AuthFailure = {"http401_invalid", "http401", "http5xx", "other"}
  RefreshGrant = {"token", "nil"}
  MaxGen = 3
SYMMETRY RequestSymmetry
INVARIANT TypeOK
INVARIANT QueuedOnceAndOffTheWire
INVARIANT WaitersHaveAWaker
INVARIANT RefreshKeepsItsToken
INVARIANT KeychainIsCurrent
PROPERTY RetrySignsNewerToken
PROPERTY IsExchange
PROPERTY IsGrant
\* The pending client is released, or an assertion stopped the process.
CHECK_DEADLOCK FALSE
