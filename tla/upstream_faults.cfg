SPECIFICATION Spec
CONSTANTS
  Bugs = {1}
  MaxCommits = 3
  MaxSyncs = 2
  Repos = {"autoland", "central"}
  Backouts = {"whole", "last", "first", "two"}
  Relands = TRUE
  Others = {"merge", "close", "reopen"}
  Commands = TRUE
  Faults = {"apply", "push", "github", "bug", "needinfo", "crash"}
INVARIANTS
  TypeOK
  OneOpenSync
  FinishedMerged
PROPERTIES
  ClosedUntouched
CHECK_DEADLOCK FALSE
