SPECIFICATION Spec
CONSTANTS
    f1 = f1
    v1 = v1
    v2 = v2
    d1 = d1
    d2 = d2
    NoHash = NoHash
    Files <- MCFiles
    Hashes <- MCHashes
    Devices <- MCDevices
    Reports <- MCReports
    MTimes = {1}
    MaxRev = 3
    MaxSessions = 4
SYMMETRY Symmetry
INVARIANTS
    ServerTypeOK
    SessionExclusive
    PlanIsFresh
    RevisionsBounded
    NoMissedChange
PROPERTY
    CommitsAreSerial
CHECK_DEADLOCK FALSE
