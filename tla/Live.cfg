SPECIFICATION AnyFairSpec
CONSTANTS
  view = view
  write = write
  ask = ask
  leave = leave
  a1 = a1
  s1 = s1
  main = main
  c1 = c1
  c2 = c2
  Main = main
  Children = {c1, c2}
  Limits = {0, 2}
  Projected = 1
  MaxCost = 2
  Retries = 1
  MaxRequests = 4
  ChildLimit = 2
  HasFallback = TRUE
  MaxAsks = 2
  MaxTurns = 2
INVARIANT BudgetSafe
PROPERTIES NoReplay TurnsEnd WaitsEnd
CHECK_DEADLOCK FALSE
