SPECIFICATION Spec
CONSTANTS
  Folders = {"a", "b"}
  FileLoops = {"f1", "f2"}
  ProcLoops = {}
  Buttons = {}
  QueueCap = 1
  MaxCommands = 1
  MaxWrites = 1
  MaxGames = 0
INVARIANT WatchesItsSource
PROPERTY WatchedChangesAreRead
CHECK_DEADLOCK FALSE
