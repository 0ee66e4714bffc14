CONSTANTS
  PAGE_SHIFT = 1
  Frames = 3
  VPages = 2
  VPage = 0
  TypeBits = 1
  OffsetBits = 1
  Job = {j1, j2}
  Runs = 3
SPECIFICATION ProgramSpec
INVARIANTS
  UsageHonoured
  PlaceReported
  QuietReportMatches
  StopsEarlyForDebugfsOnly
  UpWhileChildrenRun
  TraceWithoutNoise
  OneCapabilityKept
PROPERTY ShellEndsMachineEnds
CHECK_DEADLOCK FALSE
