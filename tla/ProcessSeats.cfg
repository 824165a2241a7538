SPECIFICATION FairSpec
CONSTANTS
  a1 = a1  a2 = a2
  p1 = p1  p2 = p2  p3 = p3
  none = none
  Apps = {a1, a2}
  Pids = {p1, p2, p3}
  Launches <- SampleLaunches
  NoApp = none
  NoLimit = none
  MaxProcesses = 2
  Window = 2
  PageCap = 2
  DefaultPage = 1
  MAX_PAGE_SIZE = 2
  Limits <- SampleLimits
  MaxId = 2
CHECK_DEADLOCK FALSE
INVARIANTS
  TypeOK
  PingingKeepsTheSeat
  SweepFreesAll
PROPERTY LeaksAreFreed
