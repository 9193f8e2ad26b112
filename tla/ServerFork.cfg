SPECIFICATION Spec
CONSTANTS
  a1 = a1
  a2 = a2
  Askers <- MCAskers
  MaxSessions = 3
  MaxTurns = 2
  MaxSettings = 1
  MaxPlans = 1
  MaxAsks = 1
INVARIANT ForkTakesQueue
CHECK_DEADLOCK FALSE
