CONSTANTS
  Supervisors = {s1, s2}
  s1 = s1
  s2 = s2
  MaxLaunches = 3

SPECIFICATION Spec

INVARIANTS
  TypeOK
  AloneWithOwnAgent

PROPERTIES
  RefusedByRunning
  ExitEndsWait
  WrongAgentIsLeft

CHECK_DEADLOCK FALSE
