SPECIFICATION Spec
CONSTANTS
  Window = 10
  MinKeep = 3
  Protected = 1
  MaxAttempts = 2
  Sizes = {3}
  MaxMessages = 9
  MaxContracts = 0
PROPERTY NearLimitCompacts
CHECK_DEADLOCK FALSE
