SPECIFICATION Spec
CONSTANTS
    Payments = {p1, p2}
    Worth = {0, 1, 2}
    Workers = {w1, w2}
    MinRedeem = 1
    Lifetimes = {0, 1, 2}
    MaxTime = 4
SYMMETRY Symmetry
CHECK_DEADLOCK FALSE
INVARIANTS
    TypeOK
    BalanceIsBacked
    OldestFirst
