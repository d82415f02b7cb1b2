SPECIFICATION Spec
CONSTANTS
    Customers = {c1, c2}
    Names = {n1, n2}
    Plans = {"pppoe"}
    PlanType <- TypeIsName
    Period = 1
    Retention = 0
    MaxTime = 1
    MaxEnd = 3
    NoName = NoName
    NoPlan = NoPlan
    NoRows = NoRows
SYMMETRY Symmetry
CHECK_DEADLOCK FALSE
INVARIANTS
    TypeOK
    CredentialsBelongToLogin
PROPERTY RevocationIsComplete
