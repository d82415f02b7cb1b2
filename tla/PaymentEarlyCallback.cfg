SPECIFICATION Spec
CONSTANTS
    Customers = {c1}
    Payments = {p1}
    Workers = {w1, w2}
    Enforcers = {e1}
    PayerOf <- SamePayer
    Invoices = {i1}
    BilledTo <- SameBilled
    Period = 2
    Grace = 0
    MaxTime = 3
    MaxDeliveries = 1
    NoPayment = NoPayment
    NoInvoice = NoInvoice
CHECK_DEADLOCK FALSE
INVARIANT AcceptedIsBooked
