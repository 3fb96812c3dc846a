CONSTANTS
  Request = {r1, r2, r3}
  AnyKey = {"about", "About"}
  Key = {"about"}
  Body = {"b1", "b2", "NaN"}
  Storable = {"b1", "b2"}
  None = None
SPECIFICATION FairSpec
INVARIANT TypeOK
PROPERTY ImplementsRegister
CHECK_DEADLOCK FALSE
