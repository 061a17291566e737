SPECIFICATION Spec
CONSTANTS
  CallIds = {"a", "b"}
  Chunks <- SmallChunks
  Bounds <- SmallBounds
INVARIANTS
  FramesAreTheEvents
  StreamsAgree
  RequestsAreSound
PROPERTIES
  AnswersCanBeReturned
CHECK_DEADLOCK FALSE
