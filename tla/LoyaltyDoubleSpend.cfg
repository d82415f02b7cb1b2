SPECIFICATION Spec
CONSTANTS
    Payments = {p1, p2}
    Worth = {1}
    Workers = {w1, w2}
    MinRedeem = 1
    Lifetimes = {0, 1, 2}
    MaxTime = 2
CHECK_DEADLOCK FALSE
INVARIANT NeverOverdrawn
