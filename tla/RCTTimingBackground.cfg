SPECIFICATION Spec
CONSTANTS
  Durations = {2}
  Kinds = {"setTimeout", "requestIdleCallback"}
  MaxTimers = 2
  MaxErrors = 0
  ObservesAppState = TRUE
  MaxCalls = 1
PROPERTIES
  TimersAreCalled
