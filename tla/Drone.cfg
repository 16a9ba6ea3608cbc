SPECIFICATION FairSpec
CONSTANTS
  c1 = c1
  c2 = c2
  Config = {c1, c2}
  Compacting = {c1}
  Backups <- MCBackups
  Containers <- MCContainers
  Modes = {"once", "daemon", "dryRun"}
  Chunks = 2
  Room = 1
  Backlog = 1
  Absent = Absent
  Blank = Blank
  Bad = Bad
  Nil = Nil
INVARIANTS
  TypeOK
  ConfigIsCurrent
  OneConfigPerCall
  CompleteMeansWhole
  FinallyIsLast
PROPERTIES
  EveryJobEnds
  ConfigConverges
