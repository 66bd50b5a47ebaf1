\* Of the accounts only the sign-ins: MCServerParts.cfg also has browser
\* sessions and codes.
SPECIFICATION WaitsSpec
CONSTANTS
  Devices = {pc, deck, phone}
  PLAN_TTL = 1
  MaxUploads = 1
  Names = {vini, typo}
  MAX_FAILED = 2
  LOCKOUT = 2
  SESSION_TTL = 1
  CODE_TTL = 1
  MaxSessions = 0
  MaxCodes = 0
  Refreshers = {r1}
  MaxVersions = 2
  MaxFailures = 1
  MaxBoots = 2
INVARIANTS WaitsTypeOK DateCoversNames
PROPERTIES LocksEnd AdmittedAskersGetThrough OnlyUnfedSessionsExpire NamesSettleUnlessCut
CHECK_DEADLOCK FALSE
