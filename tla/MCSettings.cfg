CONSTANTS
  UserFiles <- MCUserFiles
  Hooked = {TRUE, FALSE}
  Timeout = 3
  NotFoundTimeout = 2
  MaxFailures = 1
  MaxCancels = 2

SPECIFICATION Spec

INVARIANTS
  OthersApplied
  AutoRestartWins
  DialogConfirmed

PROPERTIES
  PhaseEnds

CHECK_DEADLOCK FALSE
