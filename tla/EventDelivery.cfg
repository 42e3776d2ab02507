SPECIFICATION Spec
CONSTANTS
  none = none
  main = main
  native = native
  e1 = e1
  Queues = {"syncUnbatched", "asyncUnbatched"}
  Synchronous = {"syncUnbatched"}
  Unbatched = {"syncUnbatched", "asyncUnbatched"}
  Threads = {main, native}
  Main = main
  Emitters = {e1}
  None = none
  MaxItems = 2
INVARIANTS
  DeliveredInOrder
  DispatchFindsHandle
  HandlesAreReleased
  LiveTargetHasInstance
PROPERTIES
  EverythingIsDelivered
CHECK_DEADLOCK FALSE
