CONSTANTS
  UserTask = {u1, u2}
  Kthread = {k1}
  Walker = walker
  Current = u1
  NoTask = notask
SPECIFICATION FairSpec
INVARIANTS
  OwnTablesPinned
  TaskPinned
  OnlyPidKept
PROPERTIES
  ExitCompletes
  TablesReclaimed
CHECK_DEADLOCK FALSE
