SPECIFICATION Spec
CONSTANTS
  k1 = k1  k2 = k2  k3 = k3  m1 = m1  m2 = m2
  none = none
  Keys = {k1, k2, k3}
  NoKey = none
  Undecodable = {k3}
  Drifted = {k2}
  Materials = {m1, m2}
  NoMaterial = none
  Skew = 1
  LicenseKey = m1
  FirstKey = k1
  FixedKey = k1
  UsedSchemes <- SampleSchemes
  Ttls = {1, none}
  NoTtl = none
  MaxTtl = 3
  MaxRows = 2
  MaxIssued = 1
  MaxClock = 3
CONSTRAINT NotEnded
ACTION_CONSTRAINT OneOrder
INVARIANTS
  TypeOK
  GenuineAccepted
  AcceptedIsIssued
  StaleMeansNotHeld
  SignatureMeansAltered
  DecryptionNamesMaterial
