SPECIFICATION NormalThenHighSpec
CONSTANTS
  w1 = w1
  w2 = w2
  s1 = s1
  Workers <- TwoWorkers
  Submitters <- OneSubmitter
  MaxJobs = 2
  MaxProgress = 1
  Priorities <- NormalAndHigh
INVARIANTS
  NoSharedJob
  NoLostJob
  OneTerminalEvent
  TerminalJustified
PROPERTIES
  ProgressNeverRegresses
  JobsEndAfterOverload
  QueuedCancelHonoured
  HighNeverStarves
  StopJoinsAwakeWorkers
