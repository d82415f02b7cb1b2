SPECIFICATION Spec
CONSTANTS
    Customers = {c1, c2}
    Payments = {p1, p2}
    Workers = {w1, w2}
    Enforcers = {e1, e2}
    PayerOf <- SamePayer
    Invoices = {i1}
    BilledTo <- SameBilled
    Period = 2
    Grace = 0
    MaxTime = 2
    MaxDeliveries = 2
    NoPayment = NoPayment
    NoInvoice = NoInvoice
SYMMETRY Symmetry
CHECK_DEADLOCK FALSE
INVARIANTS
    TypeOK
    CreditedOnce
    BooksAgree
    CredentialsMatchSubscription
PROPERTIES
    ImplementsSettlement
    OnlySuspensionRemovesCredentials
    PaymentAddsPeriod
