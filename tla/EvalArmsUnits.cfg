CONSTANTS
  NTasks = 2
  NArms = 2
  Instances = {1}
  Rollouts = 1
  MaxReinvoke = 0
  StallPasses = 1
  Deadline = 2
  MaxFaults = 1
  MaxInvocations = 2
SPECIFICATION Spec
CHECK_DEADLOCK FALSE
INVARIANTS TypeOK DoneIsComplete ServedByItsArm OneLateUnit PairsFirst
PROPERTIES HungMeansSilent KeepsPodRun
