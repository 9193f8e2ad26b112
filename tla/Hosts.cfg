SPECIFICATION AnySpec
CONSTANTS
  a1 = a1
  a2 = a2
  s1 = s1
  s2 = s2
  m1 = m1
  m2 = m2
  m3 = m3
  p1 = p1
  c1 = c1
  c2 = c2
  Askers = {a1, a2}
  MaxSessions = 3
  MaxTurns = 2
  MaxSettings = 1
  MaxPlans = 1
  MaxAsks = 1
SYMMETRY Symmetry
INVARIANTS ServerSafe TerminalSafe QQSafe PromptsSafe
PROPERTIES TurnUndisturbed QueuesKept DecisionsStand
CHECK_DEADLOCK FALSE
