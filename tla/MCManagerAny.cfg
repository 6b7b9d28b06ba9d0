SPECIFICATION FairSpec
CONSTANTS
  Instance = {i1, i2}
  Login = {l1, l2}
  Request = {r1}
  None = none
  Application = "any"
  Launch = "plain"
INVARIANT TypeOK
INVARIANT RegisteredIsConfigured
INVARIANT LoginHasUrl
INVARIANT CodeHasItsPendingClient
PROPERTY GrantTellsItsLogin
PROPERTY IsGrant
PROPERTY LoginIsAnswered
PROPERTY CodeIsAnswered
\* An assertion may stop the process.
CHECK_DEADLOCK FALSE
