------------------------ MODULE PlatformSubscription ------------------------
(***************************************************************************)
(* How the platform bills its tenants: the daily run that raises one       *)
(* invoice per tenant nearing expiry, the STK prompt an admin asks for,    *)
(* the callback that settles the invoice and extends the tenant, and the   *)
(* lock-out that follows when nobody pays.  Time is counted in days.       *)
(*                                                                         *)
(* The granularity is that of PaymentSettlement: handlers and runs are     *)
(* split at the external call, at the reads their decisions rest on and at *)
(* their commit.  Tenants here are active ones (isps.is_active), and no    *)
(* code voids an invoice, so an invoice is pending or paid.                *)
(***************************************************************************)
EXTENDS Naturals, FiniteSets

CONSTANTS
    Tenants,        \* isps
    Prompts,        \* checkout requests for platform invoices
    Workers,        \* request threads of the API
    Runs,           \* processes that run issue-subscription-invoices
    Trial,          \* PLATFORM_TRIAL_DAYS
    Period,         \* PLATFORM_BILLING_PERIOD_DAYS
    Grace,          \* PLATFORM_GRACE_DAYS
    Lead,           \* PLATFORM_ISSUE_LEAD_DAYS
    LastSuffix,     \* invoice numbers tried per tenant and due date
    MaxTime,        \* bound: the last day
    MaxDeliveries,  \* bound: callbacks Safaricom posts per checkout request
    NoPrompt,       \* checkout_request_id IS NULL
    NoInvoice       \* a prompt or worker that concerns no invoice

Numbers == [tenant : Tenants, due : Nat, n : 1..LastSuffix]

ASSUME PlatformAssumption ==
    /\ Trial \in Nat \ {0} /\ Period \in Nat \ {0} /\ Grace \in Nat /\ Lead \in Nat
    /\ LastSuffix \in Nat \ {0} /\ MaxTime \in Nat /\ MaxDeliveries \in Nat
    /\ NoPrompt \notin Prompts /\ NoInvoice \notin Numbers

VARIABLES
    now,         \* datetime.utcnow()
    expires,     \* isps.subscription_expires_at
    invoice,     \* platform_invoices, by their unique number
    prompt,      \* Safaricom: where each checkout request stands
    charged,     \* Safaricom: the invoice a checkout request was opened for
    deliveries,  \* Safaricom: callbacks posted for each checkout request
    handler,     \* the request each worker is in the middle of
    run,         \* the billing run each process is in the middle of
    bought,      \* history: periods each tenant's expiry was extended by
    acked        \* history: success callbacks answered "Accepted"

netVars == <<prompt, charged, deliveries>>
rowVars == <<expires, invoice>>
vars == <<now, rowVars, netVars, handler, run, bought, acked>>

\* subscription_expires_at IS NULL; the clock starts at 1.
NoExpiry == 0

Idle == [pc |-> "idle", prompt |-> NoPrompt, invoice |-> NoInvoice, at |-> 0, expires |-> NoExpiry]
NoRun == [running |-> FALSE, todo |-> {}, seen |-> [t \in Tenants |-> NoExpiry],
          unbilled |-> {}, new |-> {}]

\* The rows, prompts, requests and runs have their types; a prompt and a request are
\* about an invoice on file, or none.
TypeOK ==
    /\ now \in Nat
    /\ expires \in [Tenants -> Nat]
    /\ \E rows \in SUBSET DOMAIN invoice :
           /\ rows = DOMAIN invoice /\ rows \subseteq Numbers
           /\ invoice \in [rows -> [status : {"pending", "paid"}, prompt : Prompts \cup {NoPrompt}]]
    /\ prompt \in [Prompts -> {"none", "sent", "paid", "declined"}]
    /\ \A q \in Prompts : charged[q] \in DOMAIN invoice \cup {NoInvoice}
    /\ deliveries \in [Prompts -> Nat]
    /\ \A w \in Workers :
           /\ handler[w].pc \in {"idle", "pushed", "clearing", "settling", "extending"}
           /\ handler[w].prompt \in Prompts \cup {NoPrompt}
           /\ handler[w].invoice \in DOMAIN invoice \cup {NoInvoice}
           /\ handler[w].at \in Nat /\ handler[w].expires \in Nat
    /\ run \in [Runs -> [running : BOOLEAN, todo : SUBSET Tenants, seen : [Tenants -> Nat],
                         unbilled : SUBSET Tenants, new : SUBSET Numbers]]
    /\ bought \in [Tenants -> Nat]
    /\ acked \subseteq Prompts

Init ==
    /\ now = 1
    /\ expires = [t \in Tenants |-> NoExpiry]
    /\ invoice = [i \in {} |-> NoInvoice]
    /\ prompt = [q \in Prompts |-> "none"]
    /\ charged = [q \in Prompts |-> NoInvoice]
    /\ deliveries = [q \in Prompts |-> 0]
    /\ handler = [w \in Workers |-> Idle]
    /\ run = [r \in Runs |-> NoRun]
    /\ bought = [t \in Tenants |-> 0]
    /\ acked = {}

Pending(t) == {i \in DOMAIN invoice : i.tenant = t /\ invoice[i].status = "pending"}
Paid(t) == {i \in DOMAIN invoice : i.tenant = t /\ invoice[i].status = "paid"}

\* A worker that is extending has flushed its UPDATE of the invoice.
InvoiceLocked(i) ==
    \E w \in Workers : handler[w].pc = "extending" /\ handler[w].invoice = i

\* is_locked: a tenant without an expiry is never locked out.
Locked(t) == expires[t] # NoExpiry /\ expires[t] + Grace <= now

-----------------------------------------------------------------------------
\* start_trial, called by onboarding for a tenant with no expiry yet.
StartTrial(t) ==
    /\ expires[t] = NoExpiry
    /\ expires' = [expires EXCEPT ![t] = now + Trial]
    /\ UNCHANGED <<now, invoice, netVars, handler, run, bought, acked>>

-----------------------------------------------------------------------------
(* issue_due_invoices: select the tenants near expiry, then for each one   *)
(* look for a pending invoice, pick a number and add the row; one commit.  *)

\* Faulty variant: tenants already past their expiry are left out.
CandidatesNotYetExpired ==
    {t \in Tenants : expires[t] # NoExpiry /\ expires[t] <= now + Lead /\ expires[t] > now}

Candidates == {t \in Tenants : expires[t] # NoExpiry /\ expires[t] <= now + Lead}

SelectCandidates(r) ==
    /\ ~run[r].running /\ Candidates # {}
    /\ run' = [run EXCEPT ![r] =
                  [NoRun EXCEPT !.running = TRUE, !.todo = Candidates, !.seen = expires]]
    /\ UNCHANGED <<now, rowVars, netVars, handler, bought, acked>>

\* Faulty variant: a pending invoice does not keep the tenant out.
CheckNothing(r, t) ==
    /\ t \in run[r].todo /\ run[r].unbilled = {}
    /\ run' = [run EXCEPT ![r].todo = @ \ {t}, ![r].unbilled = {t}]
    /\ UNCHANGED <<now, rowVars, netVars, handler, bought, acked>>

CheckOpenInvoice(r, t) ==
    /\ t \in run[r].todo /\ run[r].unbilled = {}
    /\ run' = [run EXCEPT ![r].todo = @ \ {t},
                          ![r].unbilled = IF Pending(t) = {} THEN {t} ELSE {}]
    /\ UNCHANGED <<now, rowVars, netVars, handler, bought, acked>>

\* Faulty variant: suffixes are counted from 0.
NumberFromZero(t, due) ==
    {[tenant |-> t, due |-> due, n |-> n] : n \in
        {m \in 0..LastSuffix :
            \A k \in 0..m : [tenant |-> t, due |-> due, n |-> k] \in DOMAIN invoice <=> k < m}}

\* _invoice_number: the first suffix no committed invoice has.  The due date
\* is the expiry as it was selected.
Number(t, due) ==
    {[tenant |-> t, due |-> due, n |-> n] : n \in
        {m \in 1..LastSuffix :
            \A k \in 1..m : [tenant |-> t, due |-> due, n |-> k] \in DOMAIN invoice <=> k < m}}

IssueInvoice(r, t) ==
    /\ t \in run[r].unbilled
    /\ \E i \in Number(t, run[r].seen[t]) :
           run' = [run EXCEPT ![r].unbilled = {}, ![r].new = @ \cup {i}]
    /\ UNCHANGED <<now, rowVars, netVars, handler, bought, acked>>

\* The unique index on number turns a commit that lost the race into an error.
CommitRun(r) ==
    /\ run[r].running /\ run[r].todo = {} /\ run[r].unbilled = {}
    /\ invoice' = IF run[r].new \cap DOMAIN invoice = {}
                  THEN [i \in DOMAIN invoice \cup run[r].new |->
                           IF i \in run[r].new THEN [status |-> "pending", prompt |-> NoPrompt]
                                               ELSE invoice[i]]
                  ELSE invoice
    /\ run' = [run EXCEPT ![r] = NoRun]
    /\ UNCHANGED <<now, expires, netVars, handler, bought, acked>>

CrashRun(r) ==
    /\ run[r].running
    /\ run' = [run EXCEPT ![r] = NoRun]
    /\ UNCHANGED <<now, rowVars, netVars, handler, bought, acked>>

-----------------------------------------------------------------------------
(* pay_platform_invoice: the prompt leaves for the phone first; the row    *)
(* learns its checkout id when the request commits.  An earlier prompt for *)
(* the same invoice, still in flight, is forgotten.                        *)

StkPush(w, q, i) ==
    /\ handler[w].pc = "idle" /\ prompt[q] = "none"
    /\ i \in DOMAIN invoice /\ invoice[i].status = "pending"
    /\ prompt' = [prompt EXCEPT ![q] = "sent"]
    /\ charged' = [charged EXCEPT ![q] = i]
    /\ handler' = [handler EXCEPT ![w] = [Idle EXCEPT !.pc = "pushed", !.prompt = q, !.invoice = i]]
    /\ UNCHANGED <<now, rowVars, deliveries, run, bought, acked>>

CommitPrompt(w) ==
    /\ handler[w].pc = "pushed" /\ ~InvoiceLocked(handler[w].invoice)
    /\ invoice' = [invoice EXCEPT ![handler[w].invoice].prompt = handler[w].prompt]
    /\ handler' = [handler EXCEPT ![w] = Idle]
    /\ UNCHANGED <<now, expires, netVars, run, bought, acked>>

CrashWorker(w) ==
    /\ handler[w].pc # "idle"
    /\ handler' = [handler EXCEPT ![w] = Idle]
    /\ UNCHANGED <<now, rowVars, netVars, run, bought, acked>>

\* The admin answers the prompt on the phone.
Answer(q) ==
    /\ prompt[q] = "sent"
    /\ \E outcome \in {"paid", "declined"} : prompt' = [prompt EXCEPT ![q] = outcome]
    /\ UNCHANGED <<now, rowVars, charged, deliveries, handler, run, bought, acked>>

-----------------------------------------------------------------------------
(* _settle_platform_invoice, on a callback that is not a subscriber's.     *)

Posted(q, outcome) ==
    /\ prompt[q] = outcome
    /\ deliveries[q] < MaxDeliveries
    /\ deliveries' = [deliveries EXCEPT ![q] = @ + 1]

Matching(q) == {i \in DOMAIN invoice : invoice[i].prompt = q}

\* No invoice has this checkout id, or it is paid already: nothing is written.
CallbackIgnored(w, q) ==
    /\ handler[w].pc = "idle"
    /\ \/ /\ Posted(q, "paid") /\ \A i \in Matching(q) : invoice[i].status = "paid"
          /\ acked' = acked \cup {q}
       \/ Posted(q, "declined") /\ Matching(q) = {} /\ UNCHANGED acked
    /\ UNCHANGED <<now, rowVars, prompt, charged, handler, run, bought>>

\* Faulty variant: the ResultCode of the callback is not looked at.
CallbackFoundUnchecked(w, q) ==
    /\ handler[w].pc = "idle"
    /\ \E i \in Matching(q), outcome \in {"paid", "declined"} :
          /\ Posted(q, outcome) /\ invoice[i].status = "pending"
          /\ handler' = [handler EXCEPT ![w] =
                [Idle EXCEPT !.pc = "settling", !.prompt = q, !.invoice = i, !.at = now]]
    /\ UNCHANGED <<now, rowVars, prompt, charged, run, bought, acked>>

\* mark_invoice_paid takes its "now" as it passes the status check.
CallbackFound(w, q) ==
    /\ handler[w].pc = "idle"
    /\ \E i \in Matching(q) :
          \/ /\ Posted(q, "paid") /\ invoice[i].status = "pending"
             /\ handler' = [handler EXCEPT ![w] =
                   [Idle EXCEPT !.pc = "settling", !.prompt = q, !.invoice = i, !.at = now]]
          \/ /\ Posted(q, "declined")
             /\ handler' = [handler EXCEPT ![w] =
                   [Idle EXCEPT !.pc = "clearing", !.prompt = q, !.invoice = i]]
    /\ UNCHANGED <<now, rowVars, prompt, charged, run, bought, acked>>

ClearPrompt(w) ==
    /\ handler[w].pc = "clearing" /\ ~InvoiceLocked(handler[w].invoice)
    /\ invoice' = [invoice EXCEPT ![handler[w].invoice].prompt = NoPrompt]
    /\ handler' = [handler EXCEPT ![w] = Idle]
    /\ UNCHANGED <<now, expires, netVars, run, bought, acked>>

\* Faulty variant: the tenant is read before the UPDATE of the invoice is sent.
LoadTenantUnlocked(w) ==
    /\ handler[w].pc = "settling"
    /\ handler' = [handler EXCEPT ![w].pc = "extending",
                                  ![w].expires = expires[handler[w].invoice.tenant]]
    /\ UNCHANGED <<now, rowVars, netVars, run, bought, acked>>

\* Loading invoice.isp flushes the UPDATE of the invoice first, so this waits
\* for the row, then reads the tenant.
LoadTenant(w) ==
    /\ handler[w].pc = "settling" /\ ~InvoiceLocked(handler[w].invoice)
    /\ handler' = [handler EXCEPT ![w].pc = "extending",
                                  ![w].expires = expires[handler[w].invoice.tenant]]
    /\ UNCHANGED <<now, rowVars, netVars, run, bought, acked>>

\* The later of now and the expiry, plus one period.
Extended(at, end) == (IF end < at THEN at ELSE end) + Period

CommitExtension(w) ==
    LET i == handler[w].invoice IN
    /\ handler[w].pc = "extending"
    /\ invoice' = [invoice EXCEPT ![i].status = "paid"]
    /\ expires' = [expires EXCEPT ![i.tenant] = Extended(handler[w].at, handler[w].expires)]
    /\ bought' = [bought EXCEPT ![i.tenant] = @ + 1]
    /\ acked' = acked \cup {handler[w].prompt}
    /\ handler' = [handler EXCEPT ![w] = Idle]
    /\ UNCHANGED <<now, netVars, run>>

\* No request is still settling the next day: gunicorn's timeout is two minutes.
Tick ==
    /\ now < MaxTime
    /\ \A w \in Workers : handler[w].pc \notin {"settling", "extending"}
    /\ now' = now + 1
    /\ UNCHANGED <<rowVars, netVars, handler, run, bought, acked>>

-----------------------------------------------------------------------------
Bill(r) ==
    \/ SelectCandidates(r) \/ CommitRun(r)
    \/ \E t \in Tenants : CheckOpenInvoice(r, t) \/ IssueInvoice(r, t)

Settle(w) == CommitPrompt(w) \/ ClearPrompt(w) \/ LoadTenant(w) \/ CommitExtension(w)

Next ==
    \/ \E t \in Tenants : StartTrial(t)
    \/ \E r \in Runs : Bill(r) \/ CrashRun(r)
    \/ \E w \in Workers, q \in Prompts :
          \/ \E i \in DOMAIN invoice : StkPush(w, q, i)
          \/ CallbackIgnored(w, q) \/ CallbackFound(w, q)
    \/ \E w \in Workers : Settle(w) \/ CrashWorker(w)
    \/ \E q \in Prompts : Answer(q)
    \/ Tick

Spec == Init /\ [][Next]_vars

\* Cron starts the run every day, and a day on which it is not killed comes.
FairSpec ==
    /\ Spec
    /\ \A r \in Runs :
           /\ WF_vars(SelectCandidates(r))
           /\ SF_vars(CommitRun(r))
           /\ \A t \in Tenants : SF_vars(CheckOpenInvoice(r, t)) /\ SF_vars(IssueInvoice(r, t))

-----------------------------------------------------------------------------
(*                              Properties                                 *)

\* Runs of the billing command that do not overlap leave a tenant with at most
\* one invoice to pay, whatever payments, declines and crashes come in between.
OneOpenInvoice == \A t \in Tenants : Cardinality(Pending(t)) <= 1

\* An invoice is paid only if one of the prompts opened for it was confirmed on the
\* phone, and then it has bought its tenant time: replaced prompts, declines,
\* duplicate callbacks and crashes settle no other invoice and lose no settled one.
PaidIsConfirmed ==
    \A t \in Tenants :
        /\ bought[t] >= Cardinality(Paid(t))
        /\ \A i \in Paid(t) : \E q \in Prompts : charged[q] = i /\ prompt[q] = "paid"

\* Every paid invoice has its period in the tenant's expiry, on top of the trial,
\* although a settlement writes an expiry computed from one it loaded and copies of
\* a callback, or those of replaced prompts, settle at the same time.  It holds
\* where billing runs do not overlap and a period is longer than the lead.
PaidPeriodsAreKept ==
    \A t \in Tenants :
        Paid(t) # {} => expires[t] >= Trial + Period * Cardinality(Paid(t))

\* A locked tenant is not left without a way out: it gets an invoice to pay,
\* or is let in again.
LockedTenantCanPay == \A t \in Tenants : Locked(t) ~> Pending(t) # {} \/ ~Locked(t)

-----------------------------------------------------------------------------
(* What the documentation says, and the code does not guarantee.           *)

\* "running this hourly, daily, or twice by accident issues the same one bill"
\* (issue_due_invoices): no two invoices for the same period of a tenant.
PeriodBilledOnce ==
    \A i, j \in DOMAIN invoice : i.tenant = j.tenant /\ i.due = j.due => i = j

\* "Set while an STK push is in flight; the Safaricom callback finds the
\* invoice by this" (PlatformInvoice): an accepted success has settled it.
AcceptedIsSettled ==
    \A q \in acked : charged[q] # NoInvoice /\ invoice[charged[q]].status = "paid"

\* "What one paid period buys" (PLATFORM_BILLING_PERIOD_DAYS): a tenant is never
\* extended by more periods than it confirmed payments on the phone.  Two copies of
\* a callback that pass the status check together extend it twice.
OnePeriodPerPayment ==
    \A t \in Tenants :
        bought[t] <= Cardinality({q \in Prompts : /\ prompt[q] = "paid"
                                                 /\ charged[q] # NoInvoice
                                                 /\ charged[q].tenant = t})
=============================================================================
