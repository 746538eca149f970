CONSTANTS
  w1 = w1
  w2 = w2
  c1 = c1
  c2 = c2
  None = None
  Window <- MCWindow
  Client <- MCClient
  QueueCapacity = 2
  WireCapacity = 1
  MaxEvents = 3

SPECIFICATION Spec

INVARIANTS
  MirrorIsPast
  GapEndsOnlyReader
  DrainedIsCurrent

PROPERTIES
  NewerThanSnapshot
  Converges

CHECK_DEADLOCK FALSE
