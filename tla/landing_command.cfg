SPECIFICATION Spec
CONSTANTS
  Worker = w
  Command = {c}
  N = 1
  MaxLandings = 1
  MaxTries = 3
  MaxBackouts = 0
  MaxRetries = 1
  LateBackouts = FALSE
  NoBug = {}
  Results = {"success", "toomany"}
  Faults = {"closed", "answer", "busted", "crash"}
  Options <- AllOptions
INVARIANTS
  OlderTriesComplete
PROPERTIES
  PushedWasTested
CHECK_DEADLOCK FALSE
