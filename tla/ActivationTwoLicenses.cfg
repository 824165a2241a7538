SPECIFICATION FairSpec
CONSTANTS
  c1 = c1  c2 = c2  c3 = c3
  m1 = m1  m2 = m2  m3 = m3
  l1 = l1  l2 = l2  f1 = f1  f2 = f2
  none = none
  Calls = {c1, c2}
  MachineIds = {m1, m2}
  Licenses = {l1, l2}
  Fingerprints = {f1, f2}
  Requests <- TwoLicenses
  NoId = none
  MaxMachines = 1
  CreateCap = 1
  WiderScope = TRUE
  OtherLimits = {"MEMORY_LIMIT_EXCEEDED", "DISK_LIMIT_EXCEEDED"}
  OtherVerdicts = {"TOO_MANY_CORES"}
CHECK_DEADLOCK FALSE
INVARIANTS
  TypeOK
PROPERTIES
  Settles
  ImplementsSeatLedger
