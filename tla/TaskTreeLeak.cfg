CONSTANTS
  N = 4
  Task <- MCTask
  TaskTrees <- MCTaskTrees
SPECIFICATION Spec
INVARIANT CallerPutsTask
CHECK_DEADLOCK FALSE
