---------------------------- MODULE DemoBackend ----------------------------
(***************************************************************************)
(* The backend of the demonstration build: tables in memory, a clock and   *)
(* port switches per router, and one handler per request.  After its       *)
(* artificial latency a request is dispatched without interruption, so a   *)
(* handler is one step.  Handlers that answer from constants are left out, *)
(* and of a row only what another row or handler can tell apart is kept.   *)
(***************************************************************************)
EXTENDS Integers, Sequences, FiniteSets, SequencesExt

CONSTANTS Ports,     \* interfaces of a router
          Uplink,    \* the one that carries the internet feed
          PerPage,   \* page sizes asked for
          MaxOps     \* bound: requests that change something

DemoAssumption ==
    /\ Uplink \in Ports /\ PerPage \subseteq Nat \ {0} /\ MaxOps \in Nat

VARIABLES
    db,       \* the tables, each in the order its list shows
    off,      \* demoPorts: the ports switched off, by router id
    clock,    \* provisionClock: by router id, how far provisioning got
    ops       \* requests handled since the page was loaded

vars == <<db, off, clock, ops>>

Tables == {"customers", "plans", "invoices", "payments", "transactions", "vouchers", "tickets",
           "devices", "users", "leads", "expenses", "kycRecords"}

\* One shape for the rows of all tables; of is the customer a row is about.
Row(id, of, status) == [id |-> id, of |-> of, status |-> status]
None == 0

\* Cloned from the fixtures at boot.
FreshState ==
    [t \in Tables |->
        CASE t \in {"customers", "plans", "devices"} -> <<Row(1, None, "active"), Row(2, None, "active")>>
          [] t \in {"invoices", "kycRecords", "tickets"} -> <<Row(1, 1, "pending")>>
          [] t \in {"payments", "transactions"} -> <<Row(1, 1, "completed")>>
          [] OTHER -> <<>>]

Init == db = FreshState /\ off = <<>> /\ clock = <<>> /\ ops = 0

Ids(t) == {db[t][i].id : i \in DOMAIN db[t]}

TypeOK ==
    /\ DOMAIN db = Tables
    /\ \A t \in Tables : \A i \in DOMAIN db[t] :
           db[t][i].id \in Nat \ {0} /\ db[t][i].of \in Nat
    /\ \A d \in DOMAIN off : off[d] \subseteq Ports
    /\ \A d \in DOMAIN clock : clock[d] \in 0..4
    /\ ops \in 0..MaxOps

-----------------------------------------------------------------------------
(* Helpers of the store and the router.                                    *)

NextId(rows) == 1 + Max({0} \cup {rows[i].id : i \in DOMAIN rows})

\* paginate: the slice of one page, and the number of pages.
Slice(rows, page, perPage) ==
    LET start == (page - 1) * perPage
        stop == start + perPage
    IN SubSeq(rows, start + 1, IF stop > Len(rows) THEN Len(rows) ELSE stop)
Pages(rows, perPage) ==
    LET full == (Len(rows) + perPage - 1) \div perPage IN IF full > 1 THEN full ELSE 1

\* textSearch, and the filters on status and type.
Matching(rows, Test(_)) == SelectSeq(rows, Test)

CustomerList(status) == Matching(db["customers"], LAMBDA c : status \in {"all", c.status})
InvoiceList(status) == Matching(db["invoices"], LAMBDA i : status \in {"all", i.status})
PaymentList(status) == Matching(db["payments"], LAMBDA p : status \in {"all", p.status})
TicketList(status) == Matching(db["tickets"], LAMBDA t : status \in {"all", t.status})
ActivePlans == Matching(db["plans"], LAMBDA p : p.status = "active")
InvoicesOf(c) == Matching(db["invoices"], LAMBDA i : i.of = c)

Lists ==
    {CustomerList(s) : s \in {"all", "active", "suspended"}}
        \cup {InvoiceList(s) : s \in {"all", "pending", "paid"}}
        \cup {PaymentList("all"), TicketList("all"), TicketList("open"), ActivePlans}
        \cup {InvoicesOf(c) : c \in Ids("customers")}

Handled == ops < MaxOps /\ ops' = ops + 1

\* unshift: the newest row comes first.
Insert(t, row) == [db EXCEPT ![t] = <<row>> \o @]
Changed(t, id, status) ==
    [db EXCEPT ![t] = [i \in DOMAIN @ |-> IF @[i].id = id THEN [@[i] EXCEPT !.status = status] ELSE @[i]]]
Removed(t, id) == [db EXCEPT ![t] = SelectSeq(@, LAMBDA r : r.id # id)]

Sets(t, id, status) ==
    /\ Handled /\ id \in Ids(t)
    /\ db' = Changed(t, id, status)
    /\ UNCHANGED <<off, clock>>
Adds(t, of, status) ==
    /\ Handled
    /\ db' = Insert(t, Row(NextId(db[t]), of, status))
    /\ UNCHANGED <<off, clock>>
Deletes(t, id) ==
    /\ Handled /\ id \in Ids(t)
    /\ db' = Removed(t, id)
    /\ UNCHANGED <<off, clock>>

-----------------------------------------------------------------------------
(* The handlers.                                                           *)

Customer == Ids("customers")

CreateCustomer == Adds("customers", None, "active")
ConnectCustomer(c, connect) == Sets("customers", c, IF connect THEN "active" ELSE "suspended")
BillingStatus(c, activate) == Sets("customers", c, IF activate THEN "active" ELSE "suspended")
SetCustomerStatus(c, status) == Sets("customers", c, status)
\* Invoices, payments and tickets of the customer stay.
DeleteCustomer(c) == Deletes("customers", c)

CreatePlan == Adds("plans", None, "active")
TogglePlan(p) ==
    \E i \in DOMAIN db["plans"] :
        /\ db["plans"][i].id = p
        /\ Sets("plans", p, IF db["plans"][i].status = "active" THEN "inactive" ELSE "active")
DeletePlan(p) == Deletes("plans", p)

CreateInvoice(c) == Adds("invoices", c, "pending")
UpdateInvoice(i, status) == Sets("invoices", i, status)
DeleteInvoice(i) == Deletes("invoices", i)

\* A payment is a transaction too, under the payment's id.
RecordPayment(c) ==
    LET row == Row(NextId(db["payments"]), c, "completed") IN
    /\ Handled
    /\ db' = [Insert("payments", row) EXCEPT !["transactions"] = <<row>> \o @]
    /\ UNCHANGED <<off, clock>>

GenerateVouchers(count) ==
    /\ Handled
    /\ db' = [db EXCEPT !["vouchers"] =
                  [i \in 1..count |-> Row(NextId(@) + i - 1, None, "active")] \o @]
    /\ UNCHANGED <<off, clock>>

CreateTicket(c) == Adds("tickets", c, "open")
UpdateTicket(t, status) == Sets("tickets", t, status)
ReviewKyc(k, status) == Sets("kycRecords", k, status)
CreateLead == Adds("leads", None, "new")
CreateExpense == Adds("expenses", None, "paid")

\* push: the only table whose newest row comes last.
CreateUser ==
    /\ Handled
    /\ db' = [db EXCEPT !["users"] = Append(@, Row(NextId(@), None, "active"))]
    /\ UNCHANGED <<off, clock>>

CreateDevice == Adds("devices", None, "active")
\* The router's clock and port switches stay, under its id.
DeleteDevice(d) == Deletes("devices", d)

\* The value a map has for a key, and the map with a value put.
Get(map, d, default) == IF d \in DOMAIN map THEN map[d] ELSE default
Put(map, d, value) == [e \in DOMAIN map \cup {d} |-> IF e = d THEN value ELSE map[e]]

\* An interface the router does not have is taken for its first one.
Resolve(port) == IF port \in Ports THEN port ELSE Uplink

Switch(d, port, disabled) ==
    Put(off, d, IF disabled THEN Get(off, d, {}) \cup {port} ELSE Get(off, d, {}) \ {port})

TogglePort(d, port, disabled) ==
    /\ Handled
    /\ off' = IF Resolve(port) = Uplink /\ disabled THEN off
              ELSE Switch(d, Resolve(port), disabled)
    /\ UNCHANGED <<db, clock>>

\* A new token starts the simulated provisioning over; asking for the status
\* of a router that has none starts it too.
MintToken(d) ==
    /\ Handled
    /\ clock' = Put(clock, d, 0)
    /\ UNCHANGED <<db, off>>
AskStatus(d) ==
    /\ Handled /\ d \notin DOMAIN clock
    /\ clock' = Put(clock, d, 0)
    /\ UNCHANGED <<db, off>>

\* Script fetched after 5 s, tunnel after 11, reachable after 16, checked after 21.
Provisions(d) ==
    /\ clock[d] < 4
    /\ clock' = [clock EXCEPT ![d] = @ + 1]
    /\ UNCHANGED <<db, off, ops>>

Reload == ops > 0 /\ db' = FreshState /\ off' = <<>> /\ clock' = <<>> /\ ops' = 0

Next ==
    \/ CreateCustomer \/ CreatePlan \/ CreateUser \/ CreateLead \/ CreateExpense \/ CreateDevice
    \/ \E c \in Customer :
           \/ DeleteCustomer(c) \/ CreateInvoice(c) \/ RecordPayment(c) \/ CreateTicket(c)
           \/ \E yes \in BOOLEAN : ConnectCustomer(c, yes) \/ BillingStatus(c, yes)
           \/ \E s \in {"active", "pending"} : SetCustomerStatus(c, s)
    \/ \E p \in Ids("plans") : TogglePlan(p) \/ DeletePlan(p)
    \/ \E i \in Ids("invoices") : DeleteInvoice(i) \/ UpdateInvoice(i, "paid")
    \/ \E count \in 1..2 : GenerateVouchers(count)
    \/ \E t \in Ids("tickets") : UpdateTicket(t, "closed")
    \/ \E k \in Ids("kycRecords"), s \in {"verified", "rejected"} : ReviewKyc(k, s)
    \/ \E d \in Ids("devices") :
           \/ DeleteDevice(d) \/ MintToken(d) \/ AskStatus(d)
           \/ \E port \in Ports \cup {"unknown"}, disabled \in BOOLEAN : TogglePort(d, port, disabled)
    \/ \E d \in DOMAIN clock : Provisions(d)
    \/ Reload

Spec == Init /\ [][Next]_vars

-----------------------------------------------------------------------------
\* No sequence of creations and deletions gives two rows of one table the same
\* id: the pages use ids as keys and in their addresses.
IdsAreUnique == \A t \in Tables : Cardinality(Ids(t)) = Len(db[t])

\* The payments page and the transactions page tell the same story.
BooksAgree ==
    [i \in DOMAIN db["payments"] |-> db["payments"][i].id]
        = [i \in DOMAIN db["transactions"] |-> db["transactions"][i].id]

\* "the demo never disables it either": the uplink, under whatever name a
\* request asks for a port.
UplinkStaysUp == \A d \in DOMAIN off : Uplink \notin off[d]

\* Whatever was created, changed and deleted, reading a list page by page shows
\* every row once.
PagesCoverLists ==
    \A rows \in Lists, perPage \in PerPage :
        FlattenSeq([page \in 1..Pages(rows, perPage) |-> Slice(rows, page, perPage)]) = rows

-----------------------------------------------------------------------------
\* Said in the sources and not so in the code: no run checks what follows, and
\* the README tells how each of them is broken.

\* router.js: handlers return "the JSON body the real Flask backend would
\* produce".  There an id is never given out twice; here the invoices, payments
\* and tickets of a deleted customer must not become those of a new one.
NewCustomersHaveNoPast ==
    \A c \in {db'["customers"][i].id : i \in DOMAIN db'["customers"]} \ Customer :
           ops' > 0 => \A t \in {"invoices", "payments", "tickets"} :
                           \A i \in DOMAIN db[t] : db[t][i].of # c
=============================================================================
