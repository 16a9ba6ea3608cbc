SPECIFICATION Spec
CONSTANTS
  n1 = n1
  p1 = p1
  p2 = p2
  Name = {n1}
  Port = {80, 443}
  Process = {p1, p2}
  Faults = {"keyring", "write", "kill"}
  MaxStores = 3
  MaxLogins = 2
  MaxItems = 1
  MaxFaults = 2
  MaxOverlaps = 1
  NoHost = NoHost
  Absent = Absent
  Garbled = Garbled
  Nil = Nil
SYMMETRY Symmetry
INVARIANTS
  TypeOK
  PairOfOneLogin
  CredentialsOfHost
  ClearTextWasConfirmed
  LoginIsKept
  ExportIsWhole
CHECK_DEADLOCK FALSE
