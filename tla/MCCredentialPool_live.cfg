SPECIFICATION FairSpec
CONSTANTS
  u1 = u1
  u2 = u2
  u3 = u3
  c1 = c1
  c2 = c2
  o1 = o1
  o2 = o2
  Users <- OneUser
  Callers <- TwoCallers
  Operators <- OneOperator
  Wiring = "store"
  InOrder = TRUE
  WholeApi = TRUE
  BaseCooldown = 1
  MaxCooldown = 2
  MaxCreds = 2
  MaxFailures = 1
  MaxWrites = 2
  MaxFaults = 1
  MaxEpochs = 1
  MaxRestarts = 1
INVARIANTS
  CredentialsStored
PROPERTIES
  WaitersAreAnswered
CHECK_DEADLOCK FALSE
