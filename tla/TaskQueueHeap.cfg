CONSTANTS
  N = 4
  Node = {n1, n2, n3, n4}
  Task <- MCTask
  TaskTrees <- MCTaskTrees
SPECIFICATION Spec
INVARIANTS
  ListWellFormed
PROPERTY ImplementsWalk
SYMMETRY NodeSymmetry
CHECK_DEADLOCK FALSE
