CONSTANTS
    p1 = p1
    p2 = p2
    a = a
    b = b
    c = c
    Terminal = Terminal
    NoStep = NoStep
    NoPass = NoPass
    NoBeat = NoBeat
    STEP_RETRY_LIMIT = 1
    MaxFaults = 1
    Passes = {p1, p2}
    NodeSteps = {a, b}
    Before <- Chain
SYMMETRY Slots
SPECIFICATION Spec
CHECK_DEADLOCK FALSE
INVARIANTS
    TypeOK
    ChargedTriesOnly
    FailedOnlyAfterAllTries
    OwnerBookCurrent
PROPERTIES
    MemoFinal
    ZombieWritesNothing
    OwnEndIsNotALostLease
