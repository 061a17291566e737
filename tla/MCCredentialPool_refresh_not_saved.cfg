SPECIFICATION Spec
CONSTANTS
  u1 = u1
  u2 = u2
  u3 = u3
  c1 = c1
  c2 = c2
  o1 = o1
  o2 = o2
  Users <- TwoUsers
  Callers <- OneCaller
  Operators <- OneOperator
  Wiring = "sink"
  InOrder = TRUE
  WholeApi = FALSE
  BaseCooldown = 1
  MaxCooldown = 2
  MaxCreds = 2
  MaxFailures = 1
  MaxWrites = 2
  MaxFaults = 0
  MaxEpochs = 0
  MaxRestarts = 0
SYMMETRY Symmetry
INVARIANTS
  CredentialsStored
CHECK_DEADLOCK FALSE
