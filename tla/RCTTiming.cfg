SPECIFICATION Spec
CONSTANTS
  Durations = {0, 2}
  Kinds = {"setTimeout", "setInterval", "setImmediate", "requestIdleCallback"}
  MaxTimers = 2
  MaxErrors = 2
  ObservesAppState = TRUE
  MaxCalls = 1
INVARIANTS
  IdleEventsWhileWanted
  TimersAreDriven
  NoErrorIsLost
PROPERTIES
  RunsOnlyWhileWanted
