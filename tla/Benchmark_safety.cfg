SPECIFICATION Spec
CONSTANTS
  Multipliers <- MCMultipliers
  Precisions <- MCPrecisions
  UserSettings <- MCUserSettings
  MaxSessions = 2
  MaxWorkers = 1
INVARIANTS TypeOK ReportIsWhole PrefsRestored
PROPERTIES SessionEnds
CHECK_DEADLOCK FALSE
