CONSTANTS
    Tenants = {t1}
    Prompts = {q1, q2}
    Workers = {w1, w2, w3}
    Runs = {r1}
    Trial = 2
    Period = 2
    Grace = 1
    Lead = 1
    LastSuffix = 3
    MaxTime = 4
    MaxDeliveries = 2
    NoPrompt = NoPrompt
    NoInvoice = NoInvoice
SPECIFICATION FairSpec
CHECK_DEADLOCK FALSE
INVARIANTS
    TypeOK
    OneOpenInvoice
    PaidIsConfirmed
    PaidPeriodsAreKept
PROPERTIES
    LockedTenantCanPay
