CONSTANTS
  User = {u1, u2}
  Lengths = {0, 1, 3}
  MaxOff = 4
  Task = {init, root, a, b, c}
  init = init
  root = root
  MaxQueue = 3
  PidTask = {l1, l2, l3, t1}
  Leader = {l1, l2, l3}
  pid = l1
  MaxEvents = 3
SPECIFICATION Spec
INVARIANTS
  NothingLeftBehind
  DependenciesHeld
  NothingFreedIsUsed
  StreamRepeatsContent
  LiveExecGetsBoth
  NoHalfWhileLoading
  ReadGetsThrough
  QueuedTasksKept
  ForksDoNoHarm
  MembersPrintedOnce
CHECK_DEADLOCK FALSE
