SPECIFICATION FairSpec
CONSTANTS
  MaxKeys = 2
  Backends = {"file", "postgres"}
  Limits = {1, 2}
  MaxSaves = 4
  MaxFaults = 1
  MaxRestarts = 1
INVARIANTS
  RevocationsHold
  IssuedKeysWork
  NeverHalfApplied
PROPERTIES
  RequestsAreAnswered
CHECK_DEADLOCK FALSE
