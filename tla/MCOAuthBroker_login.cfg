SPECIFICATION FairSpec
CONSTANTS
  b1 = b1
  b2 = b2
  s1 = s1
  s2 = s2
  Owners <- TwoOwners
  Ids <- TwoIds
  MaxSessions = 2
  PoolsWait = {TRUE, FALSE}
INVARIANTS
  OneLoginPerOwner
  PooledIffCompleted
PROPERTIES
  OutcomeIsFinal
  NoLateInsertion
  LoginsEnd
CHECK_DEADLOCK FALSE
