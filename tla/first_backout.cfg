SPECIFICATION Spec
CONSTANTS
  Bugs = {1}
  MaxCommits = 3
  MaxSyncs = 2
  Repos = {"autoland", "central"}
  Backouts = {"first"}
  Relands = FALSE
  Others = {}
  Commands = FALSE
  Faults = {}
PROPERTIES
  MergedWhole
CHECK_DEADLOCK FALSE
