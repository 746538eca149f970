CONSTANTS
  ReloginEnabled = TRUE
  Faults = {"notFound"}
  MaxWindows = 3
  Accept = "ACCEPT"
  Kinds = {"loginFailed", "unrecognized", "tooMany", "existingSession",
           "relogin", "handoff", "incoming", "other"}

SPECIFICATION Spec

INVARIANTS
  OneTakeover
  Precedence

PROPERTIES
  OutcomeIsRaised

CHECK_DEADLOCK FALSE
