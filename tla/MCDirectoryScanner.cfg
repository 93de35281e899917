SPECIFICATION FairSpec
CONSTANTS
  root = root
  a = a
  b = b
  c = c
  p = p
  q = q
  r = r
  t1 = t1
  t2 = t2
  t3 = t3
  Dirs <- TreeDirs
  Files <- TreeFiles
  Root <- root
  Parent <- TreeParent
  PEFiles <- TreeFiles
  Tids <- Threads
  MaxDepth = 1
  MaxThreads = 1
  QueueLimit = 2
  Complete = Complete
  None = None
INVARIANTS
  SlotsConserved CompletionIsLast ListedOnce ScanIsComplete
PROPERTIES ScanEnds ExitAfterScan
