SPECIFICATION FairSpec
CONSTANTS
  Request = {r1, r2}
  Auth = auth
  Challenge = {"invalid_token", "expired_token"}
  AuthFailure = {"http401_invalid", "http401", "http5xx", "other"}
  RefreshGrant = {"token"}
  MaxGen = 3
INVARIANT ParkedIsQueued
PROPERTY QueueIsEmptied
PROPERTY EveryRequestEnds
\* The pending client is released, or an assertion stopped the process.
CHECK_DEADLOCK FALSE
