SPECIFICATION FairSpec
CONSTANTS
  Second = 2
  Minute = 3
  Hour = 3
  Day = 6
  Configs <- SmallConfigs
  Charges = {0, 2}
  MaxTime = 8
  MaxLog = 3
  MaxRunning = 2
  Sinks = {"off", "file", "postgres"}
  Deployments <- SmallDeployments
  MaxLines = 0
  BatchSize = 2
  MaxRecords = 3
  MaxFaults = 1
  MaxBoots = 1
INVARIANTS
  WindowRespected
  RetryIsExact
  AccountedFor
PROPERTIES
  QuotaIsRolling
  DrainIsComplete
  DrainEnds
CHECK_DEADLOCK FALSE
