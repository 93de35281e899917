SPECIFICATION FairSpec
CONSTANTS
  w1 = w1
  w2 = w2
  c1 = c1
  c2 = c2
  Workers <- TwoWorkers
  Conns <- TwoConns
  MaxJobs = 2
INVARIANTS ServedWhenReady EngineLoadedWhenCalled StoppedIsQuiet
 
