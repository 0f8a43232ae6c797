CONSTANTS
  NTasks = 1
  NArms = 1
  Instances = {1, 2}
  Rollouts = 2
  MaxReinvoke = 1
  StallPasses = 2
  Deadline = 3
  MaxFaults = 1
  MaxInvocations = 1
SPECIFICATION FairSpec
CHECK_DEADLOCK FALSE
INVARIANT CompleteKept
PROPERTY InvocationEnds
