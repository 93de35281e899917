SPECIFICATION Spec
CONSTANTS
  w1 = w1
  w2 = w2
  f1 = f1
  Workers <- TwoWorkers
  Files <- OneFile
  Engines <- TwoEngines
  Capacity = 2
  Ttl = 2
  MaxTime = 2
  MaxVersion = 3
CONSTRAINT SmallDatabase
SYMMETRY WorkerSymmetry
INVARIANTS LruMatchesEntries ExpiryHidesNothing
PROPERTY HitsAreTrue
