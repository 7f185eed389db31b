SPECIFICATION Spec
CONSTANTS
  Bugs = {1, 2}
  MaxCommits = 4
  MaxSyncs = 4
  Repos = {"autoland"}
  Backouts = {"whole", "last"}
  Relands = TRUE
  Others = {"close", "reopen"}
  Commands = FALSE
  Faults = {"bug", "needinfo"}
INVARIANTS
  Covered
PROPERTIES
  MergedWhole
  FlowSpec
CHECK_DEADLOCK FALSE
