SPECIFICATION FairSpec
CONSTANTS
  i1 = i1
  i2 = i2
  v1 = v1
  v2 = v2
  p1 = p1
  p2 = p2
  r1 = r1
  r2 = r2
  k1 = k1
  k2 = k2
  Id = {i1}
  Value = {v1}
  Peer = {}
  Recipient = {r1, r2}
  Pass = {k1}
  Faults = {"err"}
  BuildVersion = "new"
  Nil = Nil
  Short = Short
  Garbled = Garbled
PROPERTIES
  EveryCallEnds
  RecoveryChangeAtomic
