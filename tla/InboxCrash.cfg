SPECIFICATION Spec
CONSTANTS
  s1 = s1
  s2 = s2
  f1 = f1
  f2 = f2
  Inputs <- ThreeInputs
  Steer <- MCSteer
  MaxPending = 2
  MaxSteps = 2
  CloseAttempts = 3
  MaxSaveFailures = 3
  MaxReopens = 2
SYMMETRY Symmetry
INVARIANTS TypeOK AcceptedIsDurable HeldOnce
PROPERTIES SteeringFirst KeepsLedger
