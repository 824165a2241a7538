SPECIFICATION Spec
CONSTANTS
  c1 = c1  c2 = c2  c3 = c3
  m1 = m1  m2 = m2  m3 = m3
  l1 = l1  l2 = l2  f1 = f1  f2 = f2
  none = none
  Calls = {c1, c2, c3}
  MachineIds = {m1, m2, m3}
  Licenses = {l1}
  Fingerprints = {f1, f2}
  Requests <- OneLicense
  NoId = none
  MaxMachines = 1
  CreateCap = 2
  WiderScope = FALSE
  OtherLimits = {}
  OtherVerdicts = {}
SYMMETRY Interchangeable
CHECK_DEADLOCK FALSE
INVARIANTS
  ReusedNeverRolledBack
