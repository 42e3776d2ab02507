SPECIFICATION Spec
CONSTANTS
  scroll = scroll
  outer = outer
  inner = inner
  NoElement = NoElement
  Elements <- MCElements
  Pressables <- MCPressables
  Ancestors <- MCAncestors
  Config <- MCConfig
  Fingers = {f1, f2}
  MaxInputs = 3
  MaxStrays = 1
SYMMETRY Symmetry
INVARIANTS
  SignalsAreValid
  NoPressAfterLongPress
  UndisturbedPressMatures
  PressHasLock
  ResponderHasTouch
  FeedbackEnds
CHECK_DEADLOCK FALSE
