SPECIFICATION LifecycleFairSpec
CONSTANTS
  MaxStarts = 2
  MaxUpdates = 2
INVARIANTS
  ServerOutlivesWorker
  CallbackEndsWithLoop
  AtMostOneLateEvent
PROPERTIES
  StopReturnsFromLoop
