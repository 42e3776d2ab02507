SPECIFICATION Spec
CONSTANTS
  Xhrs = {x1}
  MaxSends = 2
  MaxData = 1
INVARIANTS
  ResponseIsOwn
  OutcomeIsFresh
  RunningTaskIsWanted
PROPERTIES
  SendsEnd
CHECK_DEADLOCK FALSE
