CONSTANTS
  Request = {r1,r2,r3,r4}
  Jti = {j1,j2,j3,j4}
  None = None
  Prod = FALSE
  MaxExpired = 1
SPECIFICATION FairSpec
CHECK_DEADLOCK FALSE
INVARIANTS TypeOK OneActivePerFamily KilledFamiliesStayDead NoDeadlock
PROPERTIES ReplayEndsFamily ImplementsLedger EveryRequestEnds
