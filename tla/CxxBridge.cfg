SPECIFICATION Spec
CONSTANTS
  caller = caller
  js = js
  Callers = {caller}
  JS = js
  MaxCalls = 2
INVARIANTS
  CallsRunInOrder
  ZeroMeansNothingDeferred
  WorkHasExecutor
PROPERTIES
  CallsAreRun
CHECK_DEADLOCK FALSE
