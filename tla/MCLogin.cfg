CONSTANTS
  Configs <- MCConfigs
  AgentErrors = TRUE

SPECIFICATION Spec

INVARIANTS
  LoggedInMeansIn
  RefillOnlyOnForm
  CompletedLoginReturns

PROPERTIES
  HeardDialogStopsTimer
  MainWindowEndsRun
  SplashEndsRun
  FailedRetryEndsRun

CHECK_DEADLOCK FALSE
