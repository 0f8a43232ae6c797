CONSTANTS
  PublicIds <- MCPublicIds
  HiddenIds <- MCHiddenIds
  Arms = {"A"}
  Plans <- MCPlans
  MaxWorkers = 2
  Options <- MCOptions
  Outcomes <- MCOutcomes
  Outcome <- MCOutcome
  PublicTest <- MCPublicTest
  HiddenTest <- MCHiddenTest
  Universe = {"t1", "t2"}
  MaxFaults = 1
  MaxLaunches = 2
SPECIFICATION Spec
CHECK_DEADLOCK FALSE
INVARIANT ExitZeroMeansWhole
