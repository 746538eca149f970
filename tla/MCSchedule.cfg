CONSTANTS
  DayLength = 4
  Minute = 2
  Poll = 2
  Horizon = 8
  Weekdays = {0, 6}
  MaxSetBacks = 2

SPECIFICATION Spec

INVARIANTS
  WaitsForFirst
  ActsOnce
  NoticedInTime

PROPERTIES
  SleepEnds

CHECK_DEADLOCK FALSE
