CONSTANTS
  Worker = {w1}
  Peer = {p1, p2}
  Limit = 2
  Window = 3
  MaxClock = 5
SPECIFICATION Spec
SYMMETRY Symmetry
INVARIANTS TypeOK LimitHolds
PROPERTY RefusedOnlyWhenFull
CHECK_DEADLOCK FALSE
