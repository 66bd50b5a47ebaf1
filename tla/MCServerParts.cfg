SPECIFICATION PartsSpec
CONSTANTS
  Names = {vini, typo}
  MAX_FAILED = 2
  LOCKOUT = 2
  SESSION_TTL = 2
  CODE_TTL = 1
  MaxSessions = 1
  MaxCodes = 2
  Devices = {pc, deck}
  BlobPaths = {p1}
  BlobContents = {c1, c2}
  NoSession = none
  MaxPlans = 3
  Paths = {p, q}
  small = small
  large = large
  Contents = {small, large}
  NoFile = NoFile
  SizeOf <- MCSizes
  Policies <- MCPolicies
  DefaultDays = 1
  DefaultCap = 3
  Malformed = {}
  MaxTime = 2
  MaxCommits = 3
INVARIANTS PartsTypeOK MistakesAreRationed CodesPairOnce RowsAreStaged IndexIsLive
  ReplacedAreKept
PROPERTIES PrunesAreEarned
CHECK_DEADLOCK FALSE
