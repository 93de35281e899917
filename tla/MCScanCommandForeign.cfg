SPECIFICATION Spec
CONSTANTS
  a = a
  b = b
  c1 = c1
  c2 = c2
  Clients <- TwoClients
  Conns <- TwoConns
  MaxProgress = 0
  MaxRestarts = 1
  None = None
INVARIANT ResumesOwnSession
