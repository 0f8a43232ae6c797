CONSTANTS
  NTasks = 1
  NArms = 1
  Instances = {1}
  Rollouts = 2
  MaxReinvoke = 1
  StallPasses = 2
  Deadline = 2
  MaxFaults = 1
  MaxInvocations = 1
SPECIFICATION Spec
CHECK_DEADLOCK FALSE
INVARIANT ResultsKept
