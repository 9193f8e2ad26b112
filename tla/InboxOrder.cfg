SPECIFICATION FairSpec
CONSTANTS
  s1 = s1
  s2 = s2
  f1 = f1
  f2 = f2
  Inputs <- FourInputs
  Steer <- MCSteer
  MaxPending = 3
  MaxSteps = 2
  CloseAttempts = 3
  MaxSaveFailures = 0
  MaxReopens = 0
INVARIANT ClientIsTold
PROPERTIES Settles NoneStranded KindsInOrder
