SPECIFICATION Spec
CONSTANTS
  MaxKeys = 3
  Backends = {"file"}
  Limits = {2}
  MaxSaves = 4
  MaxFaults = 0
  MaxRestarts = 1
INVARIANTS
  RegistryReadable
CHECK_DEADLOCK FALSE
