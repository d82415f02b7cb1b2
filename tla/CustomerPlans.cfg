SPECIFICATION Spec
CONSTANTS
    Customers = {c1}
    Names = {n1, n2}
    Plans = {"pppoe", "hotspot", "wireguard"}
    PlanType <- TypeIsName
    Period = 1
    Retention = 0
    MaxTime = 3
    MaxEnd = 3
    NoName = NoName
    NoPlan = NoPlan
    NoRows = NoRows
CHECK_DEADLOCK FALSE
INVARIANTS
    CredentialsBelongToLogin
PROPERTY RevocationIsComplete
