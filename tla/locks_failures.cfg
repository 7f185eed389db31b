SPECIFICATION Spec
CONSTANTS
  Worker = {w}
  Command = {c}
  Prs = {1}
  Reverts = {}
  Failures = {"acquire", "commit"}
  MaxDepth = 3
  NoProc = NoProc
INVARIANTS
  MutableHeld
CHECK_DEADLOCK TRUE
