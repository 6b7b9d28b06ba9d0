SPECIFICATION Spec
CONSTANTS
  Instance = {i1, i2}
  Login = {l1, l2, l3}
  Request = {r1}
  None = none
  Application = "careful"
  Launch = "plain"
SYMMETRY Symmetry
INVARIANT NeverAborted
PROPERTY IsSession
