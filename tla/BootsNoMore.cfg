SPECIFICATION MigrationsSpec
CONSTANTS
  Script <- ServerScript
  Emulators = {}
  Latest = 4
  Processes = {p}
  MaxStops = 1
INVARIANTS OpensAgain
