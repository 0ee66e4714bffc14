CONSTANTS
  Task = {l1, l2, t1}
  Leader = {l1, l2}
  pid = l1
  MaxEvents = 1
SPECIFICATION Spec
INVARIANT WholeGroupPrinted
CHECK_DEADLOCK FALSE
