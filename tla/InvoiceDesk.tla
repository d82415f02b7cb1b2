----------------------------- MODULE InvoiceDesk -----------------------------
(***************************************************************************)
(* The invoices of the console: the list with its filter, the invoice      *)
(* form, deletion, and collecting an invoice with MpesaPayModal, which     *)
(* sends a prompt to the subscriber's phone and polls for its outcome.     *)
(* Beside the console, a client of the API names the status of an invoice. *)
(* "pending" stands for every status that is not paid.                     *)
(***************************************************************************)
EXTENDS Naturals, Sequences, Bags

CONSTANTS Ids,        \* invoices
          Amounts,    \* totals of the items of an invoice
          Stays,      \* the dialog stays after a success (InvoiceDetail), or
                      \* closes by itself (InvoicesPage)
          MaxPushes,  \* bound: prompts
          MaxPolls,   \* attempts of pollMpesaPaymentStatus
          MaxReads,   \* bound: readings of the list
          MaxSaves    \* bound: saved forms

DeskAssumption ==
    /\ Stays \in BOOLEAN /\ Amounts \subseteq Nat \ {0} /\ "none" \notin Ids
    /\ MaxPushes \in Nat /\ MaxPolls \in Nat \ {0} /\ MaxReads \in Nat /\ MaxSaves \in Nat

VARIABLES
    invoices,   \* server: status, amount and the total of the items
    payments,   \* server: the payments, in order: invoice or "none", and status
    filter,     \* page: the tab of the list
    rows,       \* page: the rows shown, by invoice; 0 where there is none
    readings,   \* page: the readings under way, a bag: none is ever cancelled
    modal,      \* dialog: its step, its invoice, and the prompt it polls
    push,       \* the push under way: "none", "sent", a payment, or "refused"
    polls,      \* attempts made
    form,       \* invoice form: the invoice or "new", and the total typed
    said,       \* the payment the operator was told is complete
    reads, saves

vars == <<invoices, payments, filter, rows, readings, modal, push, polls, form, said, reads, saves>>
server == <<invoices, payments>>
list == <<filter, rows, readings, reads>>
dialog == <<modal, push, polls, said>>
editor == <<form, saves>>

Tabs == {"all", "pending", "paid"}
Status == {"absent", "pending", "paid"}
Row == [status : {"pending", "paid"}, amount : Amounts]
NoRow == [status |-> "absent", amount |-> 0]
NoRows == [i \in Ids |-> NoRow]
NoForm == [of |-> "none", new |-> FALSE, total |-> 0]
Closed == [step |-> "closed", of |-> "none", payment |-> 0]

TypeOK ==
    /\ \A i \in Ids : invoices[i].status \in Status /\ invoices[i].amount \in Amounts \cup {0}
    /\ \A k \in 1 .. Len(payments) :
           payments[k].of \in Ids \cup {"none"} /\ payments[k].status \in {"pending", "completed", "failed"}
    /\ filter \in Tabs /\ \A i \in Ids : rows[i] \in Row \cup {NoRow}
    /\ \A r \in BagToSet(readings) : r.tab \in Tabs /\ r.at \in {"sent", "served"} /\ readings[r] \in 1 .. reads
    /\ modal.step \in {"closed", "form", "sending", "waiting", "success", "error"}
    /\ modal.payment \in 0 .. Len(payments) /\ said \in 0 .. Len(payments)
    /\ polls \in 0 .. MaxPolls
    /\ (modal.step = "waiting") = (modal.payment # 0)
    /\ modal.step = "sending" => push.at # "none"

Init ==
    /\ invoices \in [Ids -> {[status |-> "pending", amount |-> a, items |-> a] : a \in Amounts}]
    /\ payments = <<>> /\ filter = "all" /\ rows = NoRows /\ readings = EmptyBag
    /\ modal = Closed /\ push = [at |-> "none", payment |-> 0]
    /\ polls = 0 /\ form = NoForm /\ said = 0 /\ reads = 0 /\ saves = 0

-----------------------------------------------------------------------------
(* The list                                                                *)

Matches(i, tab) == invoices[i].status # "absent" /\ (tab = "all" \/ invoices[i].status = tab)

\* get_invoices
Listed(tab) ==
    [i \in Ids |-> IF Matches(i, tab) THEN [status |-> invoices[i].status, amount |-> invoices[i].amount]
                   ELSE NoRow]

\* loadInvoices: one more reading, whatever is under way.
Load(tab) ==
    /\ reads < MaxReads /\ reads' = reads + 1
    /\ readings' = readings (+) SetToBag({[tab |-> tab, at |-> "sent", rows |-> NoRows]})

\* What is done has the page read again, unless it is not answered.
LoadAgain == Load(filter) \/ UNCHANGED <<readings, reads>>

\* The tabs are the list's; the page of one invoice reads that invoice.
SetFilter ==
    /\ ~Stays
    /\ \E t \in Tabs \ {filter} : filter' = t /\ Load(t)
    /\ UNCHANGED <<server, rows, dialog, editor>>

Refresh == Load(filter) /\ UNCHANGED <<server, filter, rows, dialog, editor>>

ServeReading ==
    /\ \E r \in BagToSet(readings) :
           /\ r.at = "sent"
           /\ readings' = readings (-) SetToBag({r})
                           (+) SetToBag({[r EXCEPT !.at = "served", !.rows = Listed(r.tab)]})
    /\ UNCHANGED <<server, filter, rows, reads, dialog, editor>>

\* Any of them is answered, in whatever order they were sent, or fails and leaves the rows.
ReadEnds ==
    /\ \E r \in BagToSet(readings) :
           /\ readings' = readings (-) SetToBag({r})
           /\ rows' \in {rows} \cup IF r.at = "served" THEN {r.rows} ELSE {}
    /\ UNCHANGED <<server, filter, reads, dialog, editor>>

\* delete_invoice: its payments stay, without the invoice.
ServeDelete(i) ==
    /\ invoices' = [invoices EXCEPT ![i] = [status |-> "absent", amount |-> 0, items |-> 0]]
    /\ payments' = [k \in 1 .. Len(payments) |->
                       IF payments[k].of = i THEN [payments[k] EXCEPT !.of = "none"] ELSE payments[k]]

\* Deletion from the list: answered, and the list read again, or not answered.
Delete ==
    /\ \E i \in Ids : rows[i] # NoRow /\ invoices[i].status # "absent" /\ modal = Closed /\ ServeDelete(i)
    /\ LoadAgain
    /\ UNCHANGED <<filter, rows, dialog, editor>>

-----------------------------------------------------------------------------
(* Collecting an invoice                                                   *)

OpenPay ==
    /\ \E i \in Ids : modal = Closed /\ rows[i].status = "pending"
                      /\ modal' = [step |-> "form", of |-> i, payment |-> 0]
    /\ UNCHANGED <<server, list, push, polls, said, editor>>

Submit ==
    /\ modal.step = "form" /\ Len(payments) < MaxPushes
    /\ modal' = [modal EXCEPT !.step = "sending"] /\ push' = [at |-> "sent", payment |-> 0]
    /\ UNCHANGED <<server, list, polls, said, editor>>

\* mpesa_stk_push: a prompt for the invoice as it is stored, paid or not.
ServePush ==
    /\ push.at = "sent" /\ invoices[modal.of].status # "absent"
    /\ payments' = Append(payments, [of |-> modal.of, status |-> "pending"])
    /\ push' \in {[at |-> "done", payment |-> Len(payments) + 1], [at |-> "lost", payment |-> 0]}
    /\ UNCHANGED <<invoices, list, modal, polls, said, editor>>

\* The invoice is gone, or M-Pesa refuses.
RefusePush ==
    /\ push.at = "sent" /\ push' = [at |-> "lost", payment |-> 0]
    /\ UNCHANGED <<server, list, modal, polls, said, editor>>

PushAnswered ==
    /\ push.at \in {"done", "lost"} /\ push' = [at |-> "none", payment |-> 0] /\ polls' = 0
    /\ modal' = IF push.at = "done" THEN [modal EXCEPT !.step = "waiting", !.payment = push.payment]
                ELSE [modal EXCEPT !.step = "error"]
    /\ UNCHANGED <<server, list, said, editor>>

\* The subscriber answers the prompt and the callback settles it.
Callback ==
    /\ \E k \in 1 .. Len(payments) :
           /\ payments[k].status = "pending"
           /\ \E s \in {"completed", "failed"} :
                  /\ payments' = [payments EXCEPT ![k].status = s]
                  /\ invoices' = IF s = "completed" /\ payments[k].of # "none"
                                 THEN [invoices EXCEPT ![payments[k].of].status = "paid"] ELSE invoices
    /\ UNCHANGED <<list, dialog, editor>>

GiveUp == IF polls + 1 < MaxPolls THEN modal ELSE Closed

\* One attempt of the poll, answered; on success the list is read again.
Poll ==
    /\ modal.step = "waiting" /\ polls' = polls + 1
    /\ CASE payments[modal.payment].status = "completed" ->
                /\ said' = modal.payment /\ LoadAgain
                /\ modal' = IF Stays THEN [modal EXCEPT !.step = "success", !.payment = 0] ELSE Closed
         [] payments[modal.payment].status = "failed" ->
                modal' = [modal EXCEPT !.step = "error", !.payment = 0] /\ UNCHANGED <<said, readings, reads>>
         [] OTHER -> modal' = GiveUp /\ UNCHANGED <<said, readings, reads>>
    /\ UNCHANGED <<server, filter, rows, push, editor>>

\* One attempt that fails counts as pending.
PollFails ==
    /\ modal.step = "waiting" /\ polls' = polls + 1 /\ modal' = GiveUp
    /\ UNCHANGED <<server, list, push, said, editor>>

TryAgain ==
    /\ modal.step = "error" /\ modal' = [modal EXCEPT !.step = "form"]
    /\ UNCHANGED <<server, list, push, polls, said, editor>>

\* The dialog cannot be closed while it sends or waits.
Close ==
    /\ modal.step \in {"form", "success", "error"} /\ modal' = Closed
    /\ UNCHANGED <<server, list, push, polls, said, editor>>

-----------------------------------------------------------------------------
(* The invoice form, on a page of its own                                  *)

Edit ==
    /\ form = NoForm /\ saves < MaxSaves
    /\ \E i \in Ids : invoices[i].status # "absent" /\ form' = [of |-> i, new |-> FALSE, total |-> invoices[i].items]
    /\ UNCHANGED <<server, list, dialog, saves>>

Create ==
    /\ form = NoForm /\ saves < MaxSaves /\ form' = [NoForm EXCEPT !.new = TRUE]
    /\ UNCHANGED <<server, list, dialog, saves>>

ChangeItems ==
    /\ form # NoForm /\ \E t \in Amounts : form' = [form EXCEPT !.total = t]
    /\ UNCHANGED <<server, list, dialog, saves>>

\* Faulty variant: a request that names no status makes the invoice due.
UpdateAsNew(i, request) ==
    [invoices[i] EXCEPT !.amount = request.amount,
                        !.status = IF request.status = "unnamed" THEN "pending" ELSE request.status]

\* update_invoice: the amount, and the status when the request names one; the items
\* are not read.
Update(i, request) ==
    [invoices[i] EXCEPT !.amount = request.amount,
                        !.status = IF request.status = "unnamed" THEN @ ELSE request.status]

\* create_invoice gives the new row a number nobody has.  The page goes back to the
\* list, or, when the answer is lost, stays.
SaveNew ==
    /\ form.new /\ form.total > 0 /\ saves < MaxSaves /\ saves' = saves + 1 /\ form' \in {NoForm, form}
    /\ \E i \in Ids :
           /\ invoices[i].status = "absent"
           /\ invoices' = [invoices EXCEPT ![i] =
                              [status |-> "pending", amount |-> form.total, items |-> form.total]]
    /\ UNCHANGED <<payments, list, dialog>>

\* The form names no status.
Save ==
    /\ form # NoForm /\ ~form.new /\ form.total > 0 /\ invoices[form.of].status # "absent"
    /\ saves < MaxSaves /\ saves' = saves + 1 /\ form' \in {NoForm, form}
    /\ invoices' = [invoices EXCEPT ![form.of] =
                       Update(form.of, [amount |-> form.total, status |-> "unnamed"])]
    /\ UNCHANGED <<payments, list, dialog>>

\* A value is refused, the invoice was deleted meanwhile, or the commit fails: nothing
\* is stored, and the form stays.
SaveRefused ==
    /\ form # NoForm /\ form.total > 0 /\ saves < MaxSaves /\ saves' = saves + 1
    /\ UNCHANGED <<server, list, dialog, form>>

Leave == form # NoForm /\ form' = NoForm /\ UNCHANGED <<server, list, dialog, saves>>

-----------------------------------------------------------------------------
\* A client of the API names the status of an invoice, whatever it was: update_invoice,
\* which may change the amount with it, and update_invoice_status.  No page of the
\* console sends either.
NameStatus(i) ==
    /\ invoices[i].status # "absent"
    /\ \E s \in {"pending", "paid"}, a \in Amounts \cup {invoices[i].amount} :
           invoices' = [invoices EXCEPT ![i] = Update(i, [amount |-> a, status |-> s])]
    /\ UNCHANGED <<payments, list, dialog, editor>>

Next ==
    \/ SetFilter \/ Refresh \/ ServeReading \/ ReadEnds \/ Delete
    \/ OpenPay \/ Submit \/ ServePush \/ RefusePush \/ PushAnswered \/ Callback
    \/ Poll \/ PollFails \/ TryAgain \/ Close
    \/ Edit \/ Create \/ ChangeItems \/ SaveNew \/ Save \/ SaveRefused \/ Leave
    \/ \E i \in Ids : NameStatus(i)

Spec == Init /\ [][Next]_vars

\* What goes on by itself: a request is answered or fails; the poll goes on while
\* the page is open.
Work == ServePush \/ RefusePush
Asks == Poll \/ PollFails
Answers == PushAnswered

-----------------------------------------------------------------------------
\* The operator is told of a payment only when the subscriber has paid.
ToldIsPaid == said # 0 => payments[said].status = "completed"

\* Money taken stays on record, whatever becomes of its invoice.
PaymentsStay ==
    \A k \in 1 .. Len(payments) : payments[k].status = "completed" => payments'[k].status = "completed"

\* A paid invoice is due again only by a request that names its status: not by the form,
\* by deletion, nor by a callback that comes late.
PaidStaysPaid ==
    \A i \in Ids :
        invoices[i].status = "paid" /\ invoices'[i].status = "pending" => NameStatus(i)

\* The dialog, which cannot be closed while it sends or waits, ends.
DialogReleases == modal.step \notin {"sending", "waiting"}

-----------------------------------------------------------------------------
\* Said in the sources and not so in the code: no run checks what follows, and
\* the README tells how each of them is broken.

\* InvoiceForm: "Update invoice details and line items": what is due is the
\* total of the items.
AmountIsItems == \A i \in Ids : invoices[i].amount = invoices[i].items
=============================================================================
