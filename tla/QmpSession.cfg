CONSTANTS
  Channels = 1
  Attempts = 2
  MaxRuns = 3
SPECIFICATION Spec
CHECK_DEADLOCK FALSE
INVARIANTS
  SettingsAgree
PROPERTIES
  ScriptsEnd
