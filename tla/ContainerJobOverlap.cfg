SPECIFICATION FairSpec
CONSTANTS
  app = app
  db = db
  a = a
  b = b
  Service = {app, db}
  MaxId = 2
  MaxEvents = 4
  Updated = {}
  Run = {a, b}
  Labels <- Pairs
  Faults = {"engine", "exit", "kill"}
  Nil = Nil
INVARIANTS
  QuietWhileRead
  WhatWasStoppedRuns
PROPERTIES
  EveryRunEnds
