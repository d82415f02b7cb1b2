SPECIFICATION FairSpec
CONSTANTS
    Customers = {c1}
    Payments = {p1, p2}
    Workers = {w1}
    Enforcers = {e1, e2}
    PayerOf <- SamePayer
    Invoices = {i1}
    BilledTo <- SameBilled
    Period = 2
    Grace = 1
    MaxTime = 3
    MaxDeliveries = 1
    NoPayment = NoPayment
    NoInvoice = NoInvoice
CHECK_DEADLOCK FALSE
PROPERTIES
    ExpiredIsCutOff
    FoundPaymentIsBooked
