SPECIFICATION Spec
CONSTANTS
  none = none
  m1 = m1  m2 = m2  a1 = a1  a2 = a2
  v1 = v1  v2 = v2  v3 = v3
  half = half  tiny = tiny  least = least  most = most
  below = below  beyond = beyond  huge = huge
  Numbers <- SampleNumbers
  Decimal <- SampleDecimal
  NoProof = none
  MachineIds = {m1, m2}
  Accounts = {a1, a2}
  Account = a1
  Readings <- SampleReadings
  Datasets <- UnlikeDatasets
  KeySizes <- SampleKeySizes
  ProtoKey <- Proto
  MaxDepth = 2
  Nested <- SampleNested
INVARIANT ExactTupleVerifies
