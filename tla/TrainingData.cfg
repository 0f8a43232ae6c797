CONSTANTS
  Scale = 2
  Census <- MCCensus
  RewardMap <- MCRewardMap
  FullCorpus = {"t1"}
  Corpora <- MCCorpora
  Tasks <- MCTasks
  Files = 2
  Streams = {"rgb", "depth"}
  Depth = {"depth"}
  LabelOptions <- MCLabelOptions
  Args <- MCArgs
  MaxStarts = 2
  MaxPods = 2
  Check = 4
  EarlyFrom = 0
  EarlyTo = 2
  Window = 2
  MinPoints = 2
  WarmOpening = 2
  WarmMax = 5
  Lines <- MCLines
  TrainedCorpora <- MCTrained
  SaveEvery = 2
  MaxResumes = 1
SPECIFICATION Spec
CHECK_DEADLOCK FALSE
INVARIANTS LabelsStayWithTheirDemos AcceptedRootTrains VerdictOfTheSurvivingRun
