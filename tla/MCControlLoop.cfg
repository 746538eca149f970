CONSTANTS
  RestartCap = 1
  MaxSpawns = 3
  MaxCancels = 2
  MaxPolls = 2
  Program = "TWS"
  MfaAction = "RESTART"
  ReadOnly2fa = TRUE
  Diagnosing = TRUE

SPECIFICATION Spec

INVARIANTS
  OneJvm
  NothingLeftRunning
  RestartCapHolds

PROPERTIES
  StopIsFinal
  ExitIsNotLostConnection
  StopCompletes
  DeathEndsRace

CHECK_DEADLOCK FALSE
