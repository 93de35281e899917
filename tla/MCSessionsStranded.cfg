SPECIFICATION Spec
CONSTANTS
  Conns = {c1, c2}
  MaxSessions = 1
INVARIANT NoStrandedSession
