SPECIFICATION Spec
CONSTANTS
  w1 = w1
  w2 = w2
  s1 = s1
  s2 = s2
  Workers <- TwoWorkers
  Submitters <- TwoSubmitters
  MaxJobs = 3
  CounterModulus = 16
  SampleCap = 2
  SampleDrop = 2
SYMMETRY ThreadSymmetry
INVARIANTS
  RunningExact
  CountsBalance
  PendingShown
CHECK_DEADLOCK FALSE
