SPECIFICATION Spec
CONSTANTS
  Request = {r1, r2}
  Auth = auth
  Challenge = {"invalid_token"}
  AuthFailure = {"http401", "other"}
  RefreshGrant = {"token"}
  MaxGen = 2
INVARIANT AccountNeverNeedsAuthentication
\* The pending client is released, or an assertion stopped the process.
CHECK_DEADLOCK FALSE
