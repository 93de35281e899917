SPECIFICATION FairSpec
CONSTANTS
  Conns = {c1, c2}
  MaxSessions = 2
INVARIANTS OneStreamPerSession StreamIsConnected
PROPERTIES SessionReclaimed EventsExitIfKept
