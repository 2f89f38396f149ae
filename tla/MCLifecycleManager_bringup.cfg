CONSTANTS
  N = 3
  UseBonds = TRUE
  attempt_respawn_reconnection = TRUE
  MaxAttempts = 2
  MaxFaults = 3
  MaxCommands = 4
SPECIFICATION FairLifecycleSpec
CHECK_DEADLOCK FALSE
INVARIANTS
  ActiveIsWatched
  DependenciesUp
  OnlyShutdownKills
PROPERTIES
  HardResetStopsAtSilent
  ComesBack
