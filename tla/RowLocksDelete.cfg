CONSTANTS
    t1 = t1
    t2 = t2
    t3 = t3
    NoRow = NoRow
    Sessions = {t1, t2, t3}
    Runs = {1, 2}
    ExecutionPlace <- Reversed
    Mixes <- Resuming
SPECIFICATION Spec
SYMMETRY SessionSymmetry
CHECK_DEADLOCK FALSE
INVARIANTS
    NoDeadlock
