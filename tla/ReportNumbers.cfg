SPECIFICATION Spec
CONSTANTS
  Cohort <- TwoTasks
  Kind = "provider"
  MaxRequests = 1
  Budget = 1
  MaxCost = 1
INVARIANT MissingIsNull
CHECK_DEADLOCK FALSE
