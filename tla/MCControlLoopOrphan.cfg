CONSTANTS
  RestartCap = 1
  MaxSpawns = 2
  MaxCancels = 1
  MaxPolls = 2
  Program = "TWS"
  MfaAction = "RESTART"
  ReadOnly2fa = FALSE
  Diagnosing = TRUE

SPECIFICATION Spec

INVARIANTS
  NeverOrphan

CHECK_DEADLOCK FALSE
