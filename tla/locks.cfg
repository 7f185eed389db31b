SPECIFICATION Spec
CONSTANTS
  Worker = {w}
  Command = {c}
  Prs = {1, 2}
  Reverts <- MCReverts
  Failures = {}
  MaxDepth = 5
  NoProc = NoProc
INVARIANTS
  TypeOK
  MutationExclusive
  CommitExclusive
  IdleHoldsNothing
  NoCyclicWait
CHECK_DEADLOCK TRUE
