\* What the documentation says of waiting and the code does not do.
SPECIFICATION WaitsSpec
CONSTANTS
  Devices = {pc, deck}
  PLAN_TTL = 1
  MaxUploads = 1
  Names = {vini}
  MAX_FAILED = 2
  LOCKOUT = 2
  SESSION_TTL = 1
  CODE_TTL = 1
  MaxSessions = 0
  MaxCodes = 0
  Refreshers = {}
  MaxVersions = 1
  MaxFailures = 0
  MaxBoots = 2
PROPERTIES OnlyIdleSessionsExpire BusyEnds NamesSettle
CHECK_DEADLOCK FALSE
