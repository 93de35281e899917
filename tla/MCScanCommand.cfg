SPECIFICATION FairSpec
CONSTANTS
  a = a
  b = b
  c1 = c1
  c2 = c2
  Clients <- OneClient
  Conns <- TwoConns
  MaxProgress = 2
  MaxRestarts = 1
  None = None
INVARIANT OwnResult
PROPERTIES JobIdKept EndsUnlessLost
