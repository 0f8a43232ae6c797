CONSTANTS
  Ports = {8000}
  MaxConns = 2
  Steps = 3
  MaxResets = 1
  Horizon = 2
  Options <- MCOptions
  MaxFaults = 2
SPECIFICATION FairSpec
CHECK_DEADLOCK FALSE
INVARIANTS EpisodeStartsClean
PROPERTIES InStep RolloutsEnd
