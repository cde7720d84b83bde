CONSTANTS
  d1 = d1
  d2 = d2
  p1 = p1
  p2 = p2
  NoDelivery = NoDelivery
  Deliveries = {d1, d2}
  Passes = {p1, p2}
  Runs = {1, 2}
  Settings <- Delivered
  PAGE_SIZE = 1
  STEP_RETRY_LIMIT = 2
SPECIFICATION Spec
SYMMETRY PassSymmetry
CHECK_DEADLOCK FALSE
INVARIANTS
  TypeOK
  OneRunPerArrival
  OneInFlight
  CancelReachesEarlierRuns
  WakesOneWaitOfARun
  NotWokenByItsStart
  DeliveredReachesWaits
  CandidatesWoken
PROPERTIES
  KeepsPromise
