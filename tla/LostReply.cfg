SPECIFICATION SystemSpec
CONSTANTS
    f1 = f1
    d1 = d1
    d2 = d2
    NoHash = 0
    Files <- MCFiles
    Hashes <- MCHashes
    Devices <- MCDevices
    MTimes = {1}
    MaxRev = 3
    MaxSessions = 4
    MaxVersions = 3
    MayPairAgain = FALSE
    EditMarkers = FALSE
    EditReplaced = FALSE
    EditDangling = FALSE
SYMMETRY Symmetry
PROPERTY
    ConflictsAreConcurrent
CHECK_DEADLOCK FALSE
