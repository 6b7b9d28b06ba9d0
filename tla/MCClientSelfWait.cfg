SPECIFICATION FairSpec
CONSTANTS
  Request = {r1, r2}
  Auth = auth
  Challenge = {"invalid_token"}
  AuthFailure = {"http401_invalid", "http401", "http5xx", "other"}
  RefreshGrant = {"token"}
  MaxGen = 2
PROPERTY RefusedRefreshIsSettled
\* The pending client is released, or an assertion stopped the process.
CHECK_DEADLOCK FALSE
