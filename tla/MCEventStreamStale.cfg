CONSTANTS
  w1 = w1
  w2 = w2
  c1 = c1
  c2 = c2
  None = None
  Window <- MCWindow
  Client <- MCClient
  QueueCapacity = 1
  WireCapacity = 1
  MaxEvents = 2

SPECIFICATION Spec

INVARIANTS
  GapEndsReader

CHECK_DEADLOCK FALSE
