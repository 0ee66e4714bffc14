CONSTANTS
  UserTask = {u1, u2}
  Kthread = {k1}
  Walker = walker
  Current = u1
  NoTask = notask
SPECIFICATION Spec
INVARIANT MmgetHasUser
CHECK_DEADLOCK FALSE
