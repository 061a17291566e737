SPECIFICATION FairSpec
CONSTANTS
  Routes = {"chat", "messages", "responses"}
  MaxFrames = 3
INVARIANTS
  RecordTellsTheOutcome
  ConnectionsAreReleased
  ChargedOnce
  ClientLearns
PROPERTIES
  LeavingIsNoFailure
  NothingIsReplayed
  RequestsEnd
CHECK_DEADLOCK FALSE
