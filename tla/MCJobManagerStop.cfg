SPECIFICATION FairSpec
CONSTANTS
  w1 = w1
  w2 = w2
  s1 = s1
  Workers <- TwoWorkers
  Submitters <- OneSubmitter
  MaxJobs = 1
  MaxProgress = 1
  Priorities <- OnlyNormal
PROPERTIES
  StopJoinsWorkers
