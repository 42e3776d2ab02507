SPECIFICATION Spec
CONSTANTS
  ui = ui
  timing = timing
  Modules = {ui, timing}
  JSThreadModules = {timing}
  BatchModules = {ui}
  CallbackSets = {{}, {"fail", "success"}}
  DEV = TRUE
  MaxCalls = 2
  MaxFunctions = 1
  MaxAnswers = 2
INVARIANTS
  CallsRunInOrder
  CallbackRunsOnce
PROPERTIES
  CallsAreDelivered
  AnswersAreHeard
CHECK_DEADLOCK FALSE
