SPECIFICATION SystemSpec
CONSTANTS
    f1 = f1
    d1 = d1
    d2 = d2
    NoHash = 0
    Files <- MCFiles
    Hashes <- MCHashes
    Devices <- MCDevices
    MTimes = {1, 2}
    MaxRev = 3
    MaxSessions = 3
    MaxVersions = 3
    MayPairAgain = TRUE
    EditMarkers = FALSE
    EditReplaced = FALSE
    EditDangling = FALSE
SYMMETRY Symmetry
INVARIANTS
    SystemTypeOK
    ListsDisjoint
    IndexMatchesLive
    BaselineIsSnapshot
    NoLostContent
CHECK_DEADLOCK FALSE
