CONSTANTS
  PublicIds <- MCPublicIds
  HiddenIds <- MCHiddenIds
  Arms = {"A", "B"}
  Plans <- MCPlans
  MaxWorkers = 2
  Options <- MCOptions
  Outcomes <- MCOutcomes
  Outcome <- MCOutcome
  PublicTest <- MCPublicTest
  HiddenTest <- MCHiddenTest
  Universe = {"t1", "t2"}
  MaxFaults = 1
  MaxLaunches = 2
SPECIFICATION FairSpec
CHECK_DEADLOCK FALSE
INVARIANTS TypeOK OneWriterPerFile ExitZeroMeansCovered ComparisonsHold CleanPackageIsComplete
PROPERTIES SweepEnds
