CONSTANT Caller = {c1, c2, c3}
SPECIFICATION FairSpec
INVARIANTS
  NotifierMapped
  JobBeforeRelease
  NoLostRelease
PROPERTY RebootGoesThrough
CHECK_DEADLOCK FALSE
