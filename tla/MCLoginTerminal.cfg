CONSTANTS
  Configs <- RetryOnly
  AgentErrors = FALSE

SPECIFICATION Spec

PROPERTIES
  LoggedInIsTerminal

CHECK_DEADLOCK FALSE
