SPECIFICATION PartsSpec
CONSTANTS
  image = image
  build = build
  sign = sign
  test = test
  arm1 = arm1
  arm2 = arm2
  arm3 = arm3
  arm4 = arm4
  Task <- AllTasks
  Deps <- TaskDeps
  Image <- TaskImage
  Wpt <- WptTests
  Build = {build}
  Excluded <- Arm
  RetriggerCount = 4
  Ends = {"completed", "failed"}
  Kinds = {"first", "stability", "downstream"}
  p1 = p1
  p2 = p2
  p3 = p3
  PR = {p1, p2, p3}
  NoPr = NoPr
  Zero = Zero
  NoLanding = NoLanding
  SyncKinds = {"upstream", "missing", "ready", "metadata"}
  MaxCommits = 4
SYMMETRY Symmetry
INVARIANTS
  PartsTypeOK
  JudgedWhenOver
  JudgedAtRest
  RetriggersBounded
  LandsPrefix
  Resumable
  AppliedOnce
CHECK_DEADLOCK FALSE
