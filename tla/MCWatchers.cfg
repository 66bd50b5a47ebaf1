SPECIFICATION CrewSpec
CONSTANTS
  Folders = {"a"}
  FileLoops = {"f1", "f2"}
  ProcLoops = {"p1"}
  Buttons = {"b1"}
  QueueCap = 1
  MaxCommands = 2
  MaxWrites = 2
  MaxGames = 3
INVARIANTS WatchersTypeOK ShownIsCurrent
PROPERTIES ChangesAreRead ExitsAreNoticed StoppedLoopsEnd
CHECK_DEADLOCK FALSE
