SPECIFICATION StoresSpec
CONSTANTS
  worker = worker
  command = command
  Prs = {"p1"}
  Bugs = {"b1"}
  Procs <- Both
  InUse = {"open", "complete"}
  MaxTasks = 4
  MaxSeq = 0
  Faults = {"crash", "early", "nested"}
  file1 = file1
  file2 = file2
  bug1 = bug1
  bug2 = bug2
  Files <- BothFiles
  Urls <- BothBugs
  Triage = {"triage"}
  Notifiers = {"sync"}
  MaxRetry = 2
  MaxLinks = 1
  MaxPulls = 1
  MaxHistory = 3
INVARIANTS
  StoresTypeOK
  Indexed
  OnePerPr
PROPERTIES
  NotLost
  PushKeeps
SYMMETRY Symmetry
CHECK_DEADLOCK FALSE
