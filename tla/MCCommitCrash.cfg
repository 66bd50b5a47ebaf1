SPECIFICATION CrashSpec
CONSTANTS
    f1 = f1
    d1 = d1
    d2 = d2
    NoHash = 0
    Files <- MCFiles
    Hashes <- MCHashes
    Devices <- MCDevices
    MTimes = {1, 2}
    MaxRev = 3
    MaxSessions = 4
    MaxVersions = 2
    MayPairAgain = TRUE
    EditMarkers = FALSE
    EditReplaced = FALSE
    EditDangling = FALSE
    StopsAt = {"files", "rows", "prune"}
SYMMETRY Symmetry
INVARIANTS
    RevisionsBounded
    NoMissedEdit
CHECK_DEADLOCK FALSE
