SPECIFICATION Spec
CONSTANTS
  MaxSaves = 4
  MaxFaults = 2
  MaxCrashes = 2
INVARIANTS
  NeverTorn
  AcknowledgedSurvives
PROPERTIES
  ImplementsRegister
CHECK_DEADLOCK FALSE
