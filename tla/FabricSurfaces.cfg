SPECIFICATION Spec
CONSTANTS
  js = js
  main = main
  nested = nested
  Surfaces = {"s1", "s2"}
  Background = {js}
  Main = main
  Nested = nested
  OpsOf <- MCOpsOf
  MaxOps <- MCMaxOps
INVARIANTS
  LinearHistory
  NoUseAfterRemove
  PendingHasBase
  MutationsApplyToMountedTree
PROPERTIES
  HistorySpec
  ScheduledIsPulled
  
CHECK_DEADLOCK FALSE
