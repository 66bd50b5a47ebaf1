SPECIFICATION MCSpec
CONSTANTS
  Script <- DesktopScript
  Seeds <- TwoSeeds
  Emulators = {"eden", "pcsx2"}
  Latest = 6
  Processes = {p, q}
  MaxStops = 1
  Pairs = {a, b}
  NoPair = NoPair
  NoRow = NoRow
  Jobs = {button, watcher}
  OfferedModes <- MCOfferedModes
  Subtrees = 2
  FileBased = FALSE
  MaxFaults = 1
  SizeOf <- Size
  Modes <- OneMode
  Days = {1}
  Caps = {0, 2}
  Foreign = 0
  Malformed = {0}
  MaxTime = 3
  MaxVersion = 2
  MaxCommands = 1
  MaxSaves = 7
  MaxLosers = 3
  MaxFailures = 2
  MTimes = {1, 2}
  MaxRev = 4
  Files = {"card"}
  Hashes <- MCContents
  NoHash = 0
  Folders = {"a"}
  Servers = {"s"}
  MaxVersions = 4
  MayMove = FALSE
  MayUnmount = FALSE
  MayRehome = FALSE
  MaySameStat = FALSE
INVARIANTS PartsTypeOK VersionIsEarned FlagMeansListed NormalCyclesTrusted
  ReplacedIsInItsRun LosersOnHand DiscardedStayGone SyncedMeansEqual
PROPERTIES OnlyUsersDelete
CHECK_DEADLOCK FALSE
