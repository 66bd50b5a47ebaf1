SPECIFICATION SystemSpec
CONSTANTS
    f1 = f1
    d1 = d1
    d2 = d2
    NoHash = 0
    Files <- MCFiles
    Hashes <- MCHashes
    Devices <- MCDevices
    MTimes = {1}
    MaxRev = 4
    MaxSessions = 4
    MaxVersions = 3
    MayPairAgain = FALSE
    EditMarkers = TRUE
    EditReplaced = FALSE
    EditDangling = FALSE
SYMMETRY Symmetry
INVARIANT
    BaselineIsSnapshot
CHECK_DEADLOCK FALSE
