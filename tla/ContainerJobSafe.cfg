SPECIFICATION Spec
CONSTANTS
  app = app
  db = db
  a = a
  b = b
  Service = {app, db}
  MaxId = 3
  MaxEvents = 2
  Updated = {app}
  Run = {a}
  Labels <- Webs
  Faults = {"engine", "kill"}
  Nil = Nil
INVARIANTS
  TypeOK
  QuietWhileRead
  WhatWasStoppedRuns
  EntryIsCurrent
