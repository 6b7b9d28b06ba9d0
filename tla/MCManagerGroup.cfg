SPECIFICATION Spec
CONSTANTS
  Instance = {i1}
  Login = {l1, l2}
  Request = {}
  None = none
  Application = "careful"
  Launch = "group"
SYMMETRY Symmetry
INVARIANT NeverWithoutUrl
\* An assertion may stop the process.
CHECK_DEADLOCK FALSE
