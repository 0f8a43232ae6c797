CONSTANTS
  Reasons = {"CAP_HIT"}
  Outcomes = {"DONE", "PARTIAL"}
  StallMin = 2
  Quiet = 1
  SetupMax = 1
  Deadlines = {4, 7}
  Horizon = 6
  ToolMissing = FALSE
  OldLogs <- MCOldLogs
SPECIFICATION FairSpec
CHECK_DEADLOCK FALSE
INVARIANTS TypeOK ExitMeansGone HealthySpared
PROPERTIES BillingEnds StuckEnds
