CONSTANTS
  p1 = p1
  p2 = p2
  e1 = e1
  o1 = o1
  o2 = o2
  s1 = s1
  None = None
  Schedules = {s1}
  Slots <- EveryTime
  Graphs <- OneGraph
  Publishers = {e1}
  Operators = {o1, o2}
  Passes = {p1}
  STALE_FIRE_ATTEMPTS = 2
  STEP_RETRY_LIMIT = 1
  MaxNow = 2
  MaxVersions = 1
  MaxChanges = 4
  MaxLosses = 0
SPECIFICATION Spec
CHECK_DEADLOCK FALSE
INVARIANTS
  SlotsAnsweredOnce
