SPECIFICATION Spec
CONSTANTS
  Messages = {1, 2, 3, 4}
  Mode <- MCMode
  Word <- MCWord
  Conditions = {c1}
  Good = {0}
  MaxWorld = 1
  MaxRevision = 3
  MaxIterations = 1
  MaxCancels = 1
  MaxCrashes = 1
CONSTRAINT OneStop
INVARIANTS TaskSafe RestrictionHolds TurnsSettle
PROPERTIES AcceptsTheWorkspace
CHECK_DEADLOCK FALSE
