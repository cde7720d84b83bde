CONSTANTS
  d1 = d1
  d2 = d2
  p1 = p1
  p2 = p2
  NoDelivery = NoDelivery
  Deliveries = {d1, d2}
  Passes = {p1}
  Runs = {1, 2}
  Settings <- Moved
  PAGE_SIZE = 1
  STEP_RETRY_LIMIT = 2
SPECIFICATION Spec
CHECK_DEADLOCK FALSE
INVARIANTS
  EveryOpenWaitReached
