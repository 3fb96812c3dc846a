CONSTANTS
  Request = {r1,r2,r3,r4,r5}
  Jti = {j1,j2,j3}
  None = None
  Prod = FALSE
  MaxExpired = 0
SPECIFICATION Spec
SYMMETRY Symmetry
CHECK_DEADLOCK FALSE
PROPERTY ReuseKillsOwnVersionOnly
