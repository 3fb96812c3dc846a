CONSTANTS
  Request = {r1, r2}
  Pod = {p1}
  Settings <- MCSettings
  RsaKeys = {"k1", "k2"}
  LongSecrets = {"long"}
  GatewaySecret = "long"
  Blank = ""
  None = None
  AccessTtl = 1
  RefreshTtl = 2
  IssueTime = 1
  MaxClock = 2
  MaxDeploys = 1
SPECIFICATION Spec
INVARIANT PasswordChangeEndsSessions
CHECK_DEADLOCK FALSE
