-------------------------- MODULE PaymentSettlement --------------------------
(***************************************************************************)
(* Subscriber payments over M-Pesa STK push, and the job that suspends     *)
(* expired subscriptions, at the granularity of their database             *)
(* transactions.                                                           *)
(*                                                                         *)
(* The API runs as several gunicorn workers against PostgreSQL (READ       *)
(* COMMITTED), so handlers interleave between their statements.  A row a   *)
(* transaction has written stays locked until it ends; SQLAlchemy writes   *)
(* only the columns whose value differs from the one it loaded.  Each      *)
(* handler is split where another one can get in between: at an external   *)
(* call, at the reads its decisions rest on, and at its commit.            *)
(***************************************************************************)
EXTENDS Naturals, FiniteSets, TLC

CONSTANTS
    Customers,      \* subscribers
    Payments,       \* checkout requests; each has one receipt number
    Workers,        \* request threads of the API
    Enforcers,      \* processes that run enforce_expired_subscriptions
    PayerOf,        \* [Payments -> Customers]
    Invoices,       \* invoices the prompts can be for
    BilledTo,       \* [Invoices -> Customers]
    Period,         \* length of the subscription one payment buys
    Grace,          \* SUBSCRIPTION_GRACE_HOURS
    MaxTime,        \* bound: the last instant of the clock
    MaxDeliveries,  \* bound: callbacks Safaricom posts per checkout request
    NoPayment,      \* a worker that serves no request
    NoInvoice       \* payments.invoice_id IS NULL: a purchase on the portal, a top-up

ASSUME PaymentsAssumption ==
    /\ PayerOf \in [Payments -> Customers] /\ BilledTo \in [Invoices -> Customers]
    /\ NoInvoice \notin Invoices
    /\ Period \in Nat \ {0} /\ Grace \in Nat
    /\ MaxTime \in Nat \ {0} /\ MaxDeliveries \in Nat
    /\ NoPayment \notin Payments

\* PayerOf in the runs: all payments are of one subscriber, renewals that race.
SamePayer == [p \in Payments |-> CHOOSE c \in Customers : TRUE]

\* BilledTo in the runs: the invoices are of that subscriber as well.
SameBilled == [i \in Invoices |-> CHOOSE c \in Customers : TRUE]

\* What the safety run may interchange: nothing tells these apart under SamePayer.
Symmetry ==
    Permutations(Workers) \cup Permutations(Enforcers) \cup Permutations(Payments)

VARIABLES
    now,         \* datetime.utcnow()
    prompt,      \* Safaricom: where each checkout request stands
    deliveries,  \* Safaricom: callbacks posted for each checkout request
    payment,     \* payments.payment_status, "absent" before the row commits
    bill,        \* payments.invoice_id, fixed when the prompt is asked for
    invoice,     \* invoices.status; "pending" stands for every unpaid status
    customer,    \* customers.status and .subscription_end
    radius,      \* radcheck: value of the customer's Expiration row
    ledger,      \* transactions rows, by their unique transaction_number
    handler,     \* the request each worker is in the middle of
    job,         \* the enforcement run each enforcer is in the middle of
    credits,     \* history: periods each payment has been credited
    acked,       \* history: success callbacks answered "Accepted"
    overtaken,   \* history: payments whose subscriber was extended by another one
                 \* after their own request had loaded the row
    edited       \* history: invoices whose status an operator set by hand

netVars == <<prompt, deliveries>>
rowVars == <<payment, bill, invoice, customer, radius, ledger>>
histVars == <<credits, acked, overtaken, edited>>
vars == <<now, netVars, rowVars, handler, job, histVars>>

\* subscription_end IS NULL.  The clock starts at 1, so arithmetic that the
\* code skips for a NULL gives the same result on this value.
NoEnd == 0
\* No radcheck row for the customer's username.
NoRow == 0

Idle == [pc |-> "idle", pay |-> NoPayment, status |-> "PENDING", end |-> NoEnd, at |-> 0,
         due |-> FALSE]

AccessState == [status : {"ACTIVE", "SUSPENDED", "PENDING"}, end : Nat]

HandlerState ==
    {Idle} \cup [pc : {"pushed", "failing", "settling", "crediting"}, pay : Payments,
                 status : {"ACTIVE", "SUSPENDED", "PENDING"}, end : Nat, at : Nat,
                 due : BOOLEAN]

JobState == [running : BOOLEAN, todo : SUBSET Customers, done : SUBSET Customers]

\* The columns of the tables, and the fields of requests and runs, hold what the
\* code puts there.
TypeOK ==
    /\ now \in Nat
    /\ prompt \in [Payments -> {"none", "sent", "paid", "declined"}]
    /\ deliveries \in [Payments -> Nat]
    /\ payment \in [Payments -> {"absent", "pending", "completed", "failed"}]
    /\ bill \in [Payments -> Invoices \cup {NoInvoice}]
    /\ invoice \in [Invoices -> {"pending", "paid"}]
    /\ customer \in [Customers -> AccessState]
    /\ radius \in [Customers -> Nat]
    /\ ledger \subseteq Payments
    /\ handler \in [Workers -> HandlerState]
    /\ job \in [Enforcers -> JobState]
    /\ credits \in [Payments -> Nat]
    /\ acked \subseteq Payments /\ overtaken \subseteq Payments
    /\ edited \subseteq Invoices

NoJob == [running |-> FALSE, todo |-> {}, done |-> {}]

\* A subscriber is a hotspot guest who never paid, or has a subscription
\* with its credentials in radcheck, or was cut off when it ran out.
Init ==
    /\ now = 1
    /\ prompt = [p \in Payments |-> "none"]
    /\ deliveries = [p \in Payments |-> 0]
    /\ payment = [p \in Payments |-> "absent"]
    /\ bill = [p \in Payments |-> NoInvoice]
    /\ invoice = [i \in Invoices |-> "pending"]
    /\ customer \in [Customers -> {[status |-> "PENDING", end |-> NoEnd],
                                   [status |-> "ACTIVE", end |-> 1],
                                   [status |-> "SUSPENDED", end |-> 1]}]
    /\ radius = [c \in Customers |->
                    IF customer[c].status = "ACTIVE" THEN customer[c].end ELSE NoRow]
    /\ ledger = {}
    /\ handler = [w \in Workers |-> Idle]
    /\ job = [e \in Enforcers |-> NoJob]
    /\ credits = [p \in Payments |-> 0]
    /\ acked = {} /\ overtaken = {} /\ edited = {}

-----------------------------------------------------------------------------
(* Row locks.  A worker that is crediting has flushed its UPDATE of the    *)
(* payment; an enforcer has flushed the UPDATE of the customers it is done *)
(* with.  Both hold those rows until their transaction ends.               *)

PaymentLocked(p) ==
    \E w \in Workers : handler[w].pc = "crediting" /\ handler[w].pay = p

CustomerLocked(c) == \E e \in Enforcers : c \in job[e].done

\* Faulty variant: what is left of the subscription is thrown away.
SubscriptionEndFromNow(at, stackFrom) == at + Period

\* plan_subscription_end: stack on a subscription that still runs, else start now.
SubscriptionEnd(at, stackFrom) ==
    (IF stackFrom > at THEN stackFrom ELSE at) + Period

-----------------------------------------------------------------------------
(* The purchase: the push leaves for Safaricom before the payment row is   *)
(* inserted, and the row becomes visible only when the request commits.    *)
(* It is for no invoice or for any one of the subscriber, whatever its     *)
(* status and whatever other prompts are for it.                           *)

StkPush(w, p) ==
    /\ handler[w].pc = "idle" /\ prompt[p] = "none"
    /\ prompt' = [prompt EXCEPT ![p] = "sent"]
    /\ \E i \in {NoInvoice} \cup {j \in Invoices : BilledTo[j] = PayerOf[p]} :
           bill' = [bill EXCEPT ![p] = i]
    /\ handler' = [handler EXCEPT ![w] = [Idle EXCEPT !.pc = "pushed", !.pay = p]]
    /\ UNCHANGED <<now, deliveries, payment, invoice, customer, radius, ledger, job, histVars>>

CommitPending(w) ==
    /\ handler[w].pc = "pushed"
    /\ payment' = [payment EXCEPT ![handler[w].pay] = "pending"]
    /\ handler' = [handler EXCEPT ![w] = Idle]
    /\ UNCHANGED <<now, netVars, bill, invoice, customer, radius, ledger, job, histVars>>

\* Faulty variant: the worker goes idle and keeps the request it served.
CrashWorkerKeepsRequest(w) ==
    /\ handler[w].pc # "idle"
    /\ handler' = [handler EXCEPT ![w].pc = "idle"]
    /\ UNCHANGED <<now, netVars, rowVars, job, histVars>>

\* A worker that dies loses its open transaction.
CrashWorker(w) ==
    /\ handler[w].pc # "idle"
    /\ handler' = [handler EXCEPT ![w] = Idle]
    /\ UNCHANGED <<now, netVars, rowVars, job, histVars>>

\* The subscriber answers the prompt on the phone.
Answer(p) ==
    /\ prompt[p] = "sent"
    /\ \E outcome \in {"paid", "declined"} :
           prompt' = [prompt EXCEPT ![p] = outcome]
    /\ UNCHANGED <<now, deliveries, rowVars, handler, job, histVars>>

\* An operator sets the status of an invoice, to any, through the invoice routes.
SetInvoiceStatus(i) ==
    /\ \E status \in {"pending", "paid"} : invoice' = [invoice EXCEPT ![i] = status]
    /\ edited' = edited \cup {i}
    /\ UNCHANGED <<now, netVars, payment, bill, customer, radius, ledger, handler, job,
                   credits, acked, overtaken>>

-----------------------------------------------------------------------------
(* The callback, possibly posted more than once.  It always answers        *)
(* "Accepted", also when it finds no payment and when it fails.            *)

Posted(p, outcome) ==
    /\ prompt[p] = outcome
    /\ deliveries[p] < MaxDeliveries
    /\ deliveries' = [deliveries EXCEPT ![p] = @ + 1]

\* The payment row is not there yet (or never will be), or it is already
\* completed: nothing is written.
CallbackIgnored(w, p) ==
    /\ handler[w].pc = "idle"
    /\ \/ Posted(p, "paid") /\ payment[p] \in {"absent", "completed"} /\ acked' = acked \cup {p}
       \/ Posted(p, "declined") /\ payment[p] = "absent" /\ UNCHANGED acked
    /\ UNCHANGED <<now, prompt, rowVars, handler, job, credits, overtaken, edited>>

\* Faulty variant: the ResultCode of the callback is not looked at.
CallbackFoundUnchecked(w, p) ==
    /\ handler[w].pc = "idle"
    /\ \E outcome \in {"paid", "declined"} : Posted(p, outcome)
    /\ payment[p] \in {"pending", "failed"}
    /\ handler' = [handler EXCEPT ![w] = [Idle EXCEPT !.pc = "settling", !.pay = p]]
    /\ UNCHANGED <<now, prompt, rowVars, job, histVars>>

CallbackFound(w, p) ==
    /\ handler[w].pc = "idle"
    /\ \/ /\ Posted(p, "paid") /\ payment[p] \in {"pending", "failed"}
          /\ handler' = [handler EXCEPT ![w] = [Idle EXCEPT !.pc = "settling", !.pay = p]]
       \/ /\ Posted(p, "declined") /\ payment[p] # "absent"
          /\ handler' = [handler EXCEPT ![w] = [Idle EXCEPT !.pc = "failing", !.pay = p]]
    /\ UNCHANGED <<now, prompt, rowVars, job, histVars>>

MarkFailed(w) ==
    LET p == handler[w].pay IN
    /\ handler[w].pc = "failing" /\ ~PaymentLocked(p)
    /\ payment' = [payment EXCEPT ![p] = "failed"]
    /\ handler' = [handler EXCEPT ![w] = Idle]
    /\ UNCHANGED <<now, netVars, bill, invoice, customer, radius, ledger, job, histVars>>

\* complete_successful_payment marks the payment; loading payment.customer
\* flushes that UPDATE first, so this waits for the row, then reads the customer
\* and the invoice, if there is one.
LoadCustomer(w) ==
    LET p == handler[w].pay
        c == customer[PayerOf[p]]
        isDue == bill[p] \in Invoices /\ invoice[bill[p]] = "pending"
    IN
    /\ handler[w].pc = "settling" /\ ~PaymentLocked(p)
    /\ handler' = [handler EXCEPT ![w] =
                      [@ EXCEPT !.pc = "crediting", !.status = c.status, !.end = c.end, !.at = now,
                                !.due = isDue]]
    /\ overtaken' = overtaken \ {p}
    /\ UNCHANGED <<now, netVars, rowVars, job, credits, acked, edited>>

\* The status column is written only if it was not ACTIVE when it was loaded.
ActivatedCustomer(c, seen) ==
    [status |-> IF seen.status = "ACTIVE" THEN customer[c].status ELSE "ACTIVE",
     end |-> SubscriptionEnd(seen.at, seen.end)]

\* The payments another request is crediting to the subscriber of this one.
CreditedBeside(w, p) ==
    {handler[v].pay : v \in {u \in Workers \ {w} :
        handler[u].pc = "crediting" /\ PayerOf[handler[u].pay] = PayerOf[p]}}

\* What the rest of the transaction writes besides the radcheck rows.  The invoice,
\* too, gets a new status only if it was loaded with another one.
SettlementWritten(w, p) ==
    /\ payment' = [payment EXCEPT ![p] = "completed"]
    /\ invoice' = IF handler[w].due THEN [invoice EXCEPT ![bill[p]] = "paid"] ELSE invoice
    /\ customer' = [customer EXCEPT ![PayerOf[p]] = ActivatedCustomer(PayerOf[p], handler[w])]
    /\ ledger' = ledger \cup {p}
    /\ credits' = [credits EXCEPT ![p] = @ + 1]
    /\ acked' = acked \cup {p}
    /\ handler' = [handler EXCEPT ![w] = Idle]
    /\ overtaken' = (overtaken \ {p}) \cup CreditedBeside(w, p)
    /\ UNCHANGED <<now, netVars, bill, job, edited>>

\* Faulty variant: transaction_number is not unique.
CommitSettlementUnindexed(w) ==
    LET p == handler[w].pay IN
    /\ handler[w].pc = "crediting" /\ ~CustomerLocked(PayerOf[p])
    /\ SettlementWritten(w, p)
    /\ radius' = [radius EXCEPT ![PayerOf[p]] = SubscriptionEnd(handler[w].at, handler[w].end)]

\* Faulty variant: RADIUS is provisioned before subscription_end is moved.
CommitSettlementProvisionsFirst(w) ==
    LET p == handler[w].pay IN
    /\ handler[w].pc = "crediting" /\ ~CustomerLocked(PayerOf[p])
    /\ p \notin ledger
    /\ SettlementWritten(w, p)
    /\ radius' = [radius EXCEPT ![PayerOf[p]] = handler[w].end]

\* The transaction commits: payment, invoice, activation, radcheck rows and the
\* Transaction row, all of them or none.  The unique index on transaction_number
\* refuses a second row for the same receipt.
CommitSettlement(w) ==
    LET p == handler[w].pay IN
    /\ handler[w].pc = "crediting" /\ ~CustomerLocked(PayerOf[p])
    /\ p \notin ledger
    /\ SettlementWritten(w, p)
    /\ radius' = [radius EXCEPT ![PayerOf[p]] = SubscriptionEnd(handler[w].at, handler[w].end)]

\* Faulty variant: the error handler marks the payment as failed.
RollbackMarksFailed(w) ==
    LET p == handler[w].pay IN
    /\ handler[w].pc = "crediting" /\ ~CustomerLocked(PayerOf[p])
    /\ p \in ledger
    /\ payment' = [payment EXCEPT ![p] = "failed"]
    /\ acked' = acked \cup {p}
    /\ handler' = [handler EXCEPT ![w] = Idle]
    /\ UNCHANGED <<now, netVars, bill, invoice, customer, radius, ledger, job, credits, overtaken, edited>>

RollbackSettlement(w) ==
    LET p == handler[w].pay IN
    /\ handler[w].pc = "crediting" /\ ~CustomerLocked(PayerOf[p])
    /\ p \in ledger
    /\ acked' = acked \cup {p}
    /\ handler' = [handler EXCEPT ![w] = Idle]
    /\ UNCHANGED <<now, netVars, rowVars, job, credits, overtaken, edited>>

\* The activation raises (say, there is no WireGuard server to put the peer on):
\* the transaction is rolled back, and the callback still answers "Accepted".
ActivationRaises(w) ==
    /\ handler[w].pc = "crediting"
    /\ acked' = acked \cup {handler[w].pay}
    /\ handler' = [handler EXCEPT ![w] = Idle]
    /\ UNCHANGED <<now, netVars, rowVars, job, credits, overtaken, edited>>

-----------------------------------------------------------------------------
(* The enforcement run: select the expired customers, suspend them one by  *)
(* one (each takes an SSH round trip to the routers), commit at the end.   *)

Expired(c) ==
    /\ customer[c].status = "ACTIVE"
    /\ customer[c].end # NoEnd
    /\ customer[c].end + Grace < now

SelectExpired(e) ==
    /\ ~job[e].running
    /\ \E c \in Customers : Expired(c)
    /\ job' = [job EXCEPT ![e] = [running |-> TRUE, done |-> {},
                                  todo |-> {c \in Customers : Expired(c)}]]
    /\ UNCHANGED <<now, netVars, rowVars, handler, histVars>>

\* suspend_customer_access, flushed: the row is locked, the change not yet visible.
SuspendOne(e, c) ==
    /\ c \in job[e].todo /\ ~CustomerLocked(c)
    /\ job' = [job EXCEPT ![e].todo = @ \ {c}, ![e].done = @ \cup {c}]
    /\ UNCHANGED <<now, netVars, rowVars, handler, histVars>>

\* Faulty variant: the RADIUS rows go, the status column is forgotten.
CommitSuspensionsRadiusOnly(e) ==
    /\ job[e].running /\ job[e].todo = {}
    /\ radius' = [c \in Customers |-> IF c \in job[e].done THEN NoRow ELSE radius[c]]
    /\ job' = [job EXCEPT ![e] = NoJob]
    /\ UNCHANGED <<now, netVars, payment, bill, invoice, customer, ledger, handler, histVars>>

\* Faulty variant: the session is left open with its row locks.
CommitSuspensionsHoldsLocks(e) ==
    /\ job[e].running /\ job[e].todo = {}
    /\ customer' = [c \in Customers |->
                       IF c \in job[e].done THEN [customer[c] EXCEPT !.status = "SUSPENDED"]
                                            ELSE customer[c]]
    /\ radius' = [c \in Customers |-> IF c \in job[e].done THEN NoRow ELSE radius[c]]
    /\ job' = [job EXCEPT ![e].running = FALSE]
    /\ UNCHANGED <<now, netVars, payment, bill, invoice, ledger, handler, histVars>>

CommitSuspensions(e) ==
    /\ job[e].running /\ job[e].todo = {}
    /\ customer' = [c \in Customers |->
                       IF c \in job[e].done THEN [customer[c] EXCEPT !.status = "SUSPENDED"]
                                            ELSE customer[c]]
    /\ radius' = [c \in Customers |-> IF c \in job[e].done THEN NoRow ELSE radius[c]]
    /\ job' = [job EXCEPT ![e] = NoJob]
    /\ UNCHANGED <<now, netVars, payment, bill, invoice, ledger, handler, histVars>>

CrashEnforcer(e) ==
    /\ job[e].running
    /\ job' = [job EXCEPT ![e] = NoJob]
    /\ UNCHANGED <<now, netVars, rowVars, handler, histVars>>

Tick ==
    /\ now < MaxTime
    /\ now' = now + 1
    /\ UNCHANGED <<netVars, rowVars, handler, job, histVars>>

-----------------------------------------------------------------------------
Settle(w) ==
    CommitPending(w) \/ MarkFailed(w) \/ LoadCustomer(w)
        \/ CommitSettlement(w) \/ RollbackSettlement(w)

Enforce(e) ==
    SelectExpired(e) \/ CommitSuspensions(e) \/ \E c \in Customers : SuspendOne(e, c)

Next ==
    \/ \E w \in Workers, p \in Payments :
           StkPush(w, p) \/ CallbackIgnored(w, p) \/ CallbackFound(w, p)
    \/ \E w \in Workers : Settle(w) \/ ActivationRaises(w) \/ CrashWorker(w)
    \/ \E p \in Payments : Answer(p)
    \/ \E i \in Invoices : SetInvoiceStatus(i)
    \/ \E e \in Enforcers : Enforce(e) \/ CrashEnforcer(e)
    \/ Tick

Spec == Init /\ [][Next]_vars

\* A request that has reached the database goes on unless it dies or raises.  Cron
\* starts a run every quarter of an hour, so one that keeps being killed is retried:
\* strong fairness for the steps a crash can keep interrupting.
FairSpec ==
    /\ Spec
    /\ \A w \in Workers : WF_vars(Settle(w))
    /\ \A e \in Enforcers :
           /\ WF_vars(SelectExpired(e))
           /\ \A c \in Customers : SF_vars(SuspendOne(e, c))
           /\ SF_vars(CommitSuspensions(e))

-----------------------------------------------------------------------------
(*                              Safety                                     *)

\* However often a success callback is posted, and however its handlers
\* interleave or die, a payment extends the subscription at most once, and it
\* does exactly when its Transaction row is there.
CreditedOnce ==
    \A p \in Payments : credits[p] = IF p \in ledger THEN 1 ELSE 0

\* A payment shows as completed exactly when its transaction is on the books, and
\* an invoice as paid exactly when one of the prompts for it is, unless an operator
\* has set its status: no callback leaves the three tables apart.
BooksAgree ==
    /\ \A p \in Payments : payment[p] = "completed" <=> p \in ledger
    /\ \A i \in Invoices \ edited :
           invoice[i] = "paid" <=> \E p \in ledger : bill[p] = i

\* The Expiration that FreeRADIUS cuts the subscriber off at is the
\* subscription_end the billing side shows, whichever writer came last.
CredentialsMatchSubscription ==
    \A c \in Customers : radius[c] \in {NoRow, customer[c].end}

\* Only what the subscriber confirmed on the phone is booked, and a booking is
\* never taken back: the callback handlers implement Settlement.
PromisedBooks ==
    INSTANCE Settlement WITH paid <- {p \in Payments : prompt[p] = "paid"}, booked <- ledger

\* The statements of the handlers, run in any order they can be, refine Settlement.
ImplementsSettlement == PromisedBooks!Spec

\* No enforcement run, late callback or rollback takes credentials away from a
\* subscriber other than by suspending the account.
OnlySuspensionRemovesCredentials ==
    [][\A c \in Customers :
          radius[c] # NoRow /\ radius'[c] = NoRow => customer'[c].status = "SUSPENDED"]_vars

\* A payment adds its whole period to what the subscriber has when it is booked.
\* There is one way to lose (part of) a period, and no crash, enforcement run,
\* duplicate or order of callbacks makes another: a second settlement of the same
\* subscriber commits between the load and the commit of this one.
PaymentAddsPeriod ==
    [][\A p \in (ledger' \ ledger) \ overtaken :
          customer'[PayerOf[p]].end >= customer[PayerOf[p]].end + Period]_vars

-----------------------------------------------------------------------------
(*                             Liveness                                    *)

\* A subscription that has run out is renewed or cut off by the enforcement runs.
ExpiredIsCutOff ==
    \A c \in Customers : Expired(c) ~> ~Expired(c)

\* A success callback that found its payment gets it booked, whatever rows the
\* enforcement run holds, unless the worker dies or the activation raises first.
FoundPaymentIsBooked ==
    \A p \in Payments, w \in Workers :
        handler[w].pc = "settling" /\ handler[w].pay = p ~> p \in ledger \/ handler[w].pc = "idle"

-----------------------------------------------------------------------------
(* What the documentation says, and the code does not guarantee.           *)

\* MPESA.md, "The callback completes it": a success callback that was accepted
\* has found the payment and marked it completed.
AcceptedIsBooked == acked \subseteq ledger

\* "Suspend customers whose subscription_end is in the past."
OnlyExpiredAreSuspended ==
    [][\A c \in Customers :
          customer[c].status = "ACTIVE" /\ customer'[c].status = "SUSPENDED"
              => customer[c].end + Grace < now]_vars

\* "Mark customer active and provision RADIUS after successful payment."
BookedIsActive ==
    [][\A p \in ledger' \ ledger : customer'[PayerOf[p]].status = "ACTIVE"]_vars

\* "Extend your subscription before it expires.": a payment that is booked
\* moves the end of the subscription.
PaymentExtends ==
    [][\A p \in ledger' \ ledger :
          customer'[PayerOf[p]].end > customer[PayerOf[p]].end]_vars
=============================================================================
