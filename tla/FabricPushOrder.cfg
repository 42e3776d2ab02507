SPECIFICATION Spec
CONSTANTS
  js = js
  main = main
  nested = nested
  Surfaces = {"s1"}
  Background = {js}
  Main = main
  Nested = nested
  OpsOf <- MCOneSurfaceOpsOf
  MaxOps <- MCOneSurfaceMaxOps
INVARIANTS
  PushIsNewerThanBase
CHECK_DEADLOCK FALSE
