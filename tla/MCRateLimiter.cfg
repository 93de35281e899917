SPECIFICATION LimiterSpec
CONSTANTS
  t1 = t1
  t2 = t2
  k1 = k1
  Threads <- TwoThreads
  Keys <- OneKey
  Cost = 2
  Burst = 3
  Idle = 5
  MaxWait = 1
  MaxTime = 9
SYMMETRY ThreadSymmetry
INVARIANTS LimiterTypeOK WindowBound
PROPERTY RetryIsEnough
