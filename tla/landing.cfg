SPECIFICATION FairSpec
CONSTANTS
  Worker = w
  Command = {}
  N = 2
  MaxLandings = 2
  MaxTries = 3
  MaxBackouts = 1
  MaxRetries = 2
  LateBackouts = FALSE
  NoBug = {}
  Results = {"success", "acceptable", "builds", "toomany"}
  Faults = {"apply", "rebase", "closed", "lando", "busted"}
  Options <- NoOptions
INVARIANTS
  TypeOK
  OneOpenLanding
  TreeMatchesSyncPoint
  DoneWasPushed
  CompleteWasNotified
PROPERTIES
  LandingFinishes
CHECK_DEADLOCK FALSE
