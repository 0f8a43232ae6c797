CONSTANTS
  Steps = 2
  SaveEvery = 1
  HealthStep = 1
  MaxRetries = 1
  StallPasses = 2
  Deadline = 5
  GateEnforce = TRUE
  WarmStart = FALSE
  MaxFaults = 1
  MaxInvocations = 1
SPECIFICATION Spec
CHECK_DEADLOCK FALSE
PROPERTY StopIsNotRetried
