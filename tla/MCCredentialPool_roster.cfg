SPECIFICATION Spec
CONSTANTS
  u1 = u1
  u2 = u2
  u3 = u3
  c1 = c1
  c2 = c2
  o1 = o1
  o2 = o2
  Users <- ThreeUsers
  Callers <- OneCaller
  Operators <- OneOperator
  Wiring = "sink"
  InOrder = TRUE
  WholeApi = FALSE
  BaseCooldown = 1
  MaxCooldown = 2
  MaxCreds = 3
  MaxFailures = 0
  MaxWrites = 2
  MaxFaults = 0
  MaxEpochs = 0
  MaxRestarts = 0
SYMMETRY Symmetry
INVARIANTS
  TypeOK
  RosterStored
PROPERTIES
  RemoveKeepsTheTurn
CHECK_DEADLOCK FALSE
