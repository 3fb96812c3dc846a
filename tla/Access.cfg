CONSTANTS
  Request = {r1, r2, r3}
  Pod = {p1, p2}
  Settings <- MCSettings
  RsaKeys = {"k1", "k2"}
  LongSecrets = {"long"}
  GatewaySecret = "long"
  Blank = ""
  None = None
  AccessTtl = 2
  RefreshTtl = 3
  IssueTime = 1
  MaxClock = 3
  MaxDeploys = 1
SPECIFICATION Spec
SYMMETRY Symmetry
INVARIANTS TypeOK AdmittedHoldsToken RevocationLag
CHECK_DEADLOCK FALSE
