CONSTANTS
  p1 = p1
  p2 = p2
  e1 = e1
  o1 = o1
  o2 = o2
  s1 = s1
  None = None
  Schedules = {s1}
  Slots <- EveryTime
  Graphs <- SomeGraphs
  Publishers = {e1}
  Operators = {o1}
  Passes = {p1, p2}
  STALE_FIRE_ATTEMPTS = 2
  STEP_RETRY_LIMIT = 1
  MaxNow = 2
  MaxVersions = 2
  MaxChanges = 2
  MaxLosses = 1
SPECIFICATION FairSpec
CHECK_DEADLOCK FALSE
INVARIANTS
  TypeOK
  TimersMatch
  EachSlotAnswered
  SlotsAnsweredOnce
PROPERTIES
  FiresPublished
  DueTimersMoveOn
