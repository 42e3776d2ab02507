SPECIFICATION Spec
CONSTANTS
  MaxHandles = 2
  MaxTasks = 3
  MaxCancels = 1
  MaxThrows = 1
INVARIANTS
  TasksWaitForInteractions
  PromiseBlocksQueue
  UndisturbedTasksRun
