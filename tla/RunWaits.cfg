CONSTANTS
    u = u
    w = w
    c = c
    v1 = v1
    v2 = v2
    STEP_RETRY_LIMIT = 1
    NoStep = NoStep
    NoPass = NoPass
    Versions = {v1, v2}
    StartVersion = v1
    Waits = {u, w, c}
    Canceled = {c}
    Gated = {w}
    Workflows <- Flows
    Mode <- Modes
    SkipsOnTimeout <- SkipsInV1
    WAIT_ATTEMPT_LIMIT = 2
SPECIFICATION FairSpec
CHECK_DEADLOCK FALSE
INVARIANTS
    TypeOK
    NoWakeSleptThrough
    ClaimLeavesNoParkWaiting
    CanceledAfterItsOutlet
    EventBeatsTimeout
PROPERTIES
    ClaimDecidesTheEnd
    AcceptedEventKept
    CompletionDropsNoEvent
    ResumedUnderPinnedVersion
    ImplementsExecution
    RunEnds
