CONSTANTS
  N = 5
  Task <- MCTask
  TaskTrees <- MCTaskTrees
SPECIFICATION FairSpec
INVARIANTS
  TypeOK
  PendingTasksHeld
  DumpedOnce
  WholeTreeDumped
  BfsLevelOrder
  DfsSubtreesContiguous
PROPERTY WalkReturns
CHECK_DEADLOCK FALSE
