CONSTANTS
    p1 = p1
    p2 = p2
    a = a
    b = b
    c = c
    Terminal = Terminal
    NoStep = NoStep
    NoPass = NoPass
    NoBeat = NoBeat
    STEP_RETRY_LIMIT = 1
    MaxFaults = 1
    Passes = {p1}
    NodeSteps = {a, b, c}
    Before <- Branches
SPECIFICATION FairSpec
CHECK_DEADLOCK FALSE
PROPERTIES
    RunEnds
    ImplementsJob
