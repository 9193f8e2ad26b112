SPECIFICATION AnySpec
CONSTANTS
  view = view
  look = look
  write = write
  ask = ask
  plan = plan
  a = a
  b = b
  c = c
  f1 = f1
  f2 = f2
  Agents = {a, b}
  Files = {f1, f2}
  Orders <- OneOrder
  MaxMarks = 2
  MaxOutside = 1
SYMMETRY Symmetry
INVARIANTS AgentSafe RequestSafe HooksSafe FilesSafe ReportsTrue
PROPERTIES AnswersStand NothingLost
CHECK_DEADLOCK FALSE
