SPECIFICATION FairSpec
CONSTANTS
  Bugs = {1, 2}
  MaxCommits = 3
  MaxSyncs = 3
  Repos = {"autoland", "central"}
  Backouts = {"last"}
  Relands = FALSE
  Others = {}
  Commands = FALSE
  Faults = {}
PROPERTIES
  Delivered
CHECK_DEADLOCK FALSE
