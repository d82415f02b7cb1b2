--------------------------- MODULE PortalCheckout ---------------------------
(***************************************************************************)
(* A subscriber at the captive portal: chooses a package on the hotspot    *)
(* page, or looks an account up on the PPPoE page, and pays by a prompt on *)
(* the phone.  PortalPayFlow sends the order and then reads the payment's  *)
(* status a limited number of times; PaymentSettlement models the server's *)
(* side of the same payment.                                               *)
(***************************************************************************)
EXTENDS Naturals, FiniteSets

CONSTANTS Items,        \* packages of the hotspot page, accounts of the PPPoE page
          MaxPrompts,   \* bound: prompts sent to the phone
          MaxAttempts,  \* readings of the status of one payment
          MayFail       \* whether a reading may fail

CheckoutAssumption ==
    MaxPrompts \in Nat /\ MaxAttempts \in Nat \ {0} /\ MayFail \in BOOLEAN

VARIABLES
    shop,      \* the page: hotspot or pppoe
    catalog,   \* hotspot: the packages, loading, ready or in error
    text,      \* pppoe: the account typed in
    lookups,   \* pppoe: lookups under way, those of the button and quiet ones
    shown,     \* the package selected, or the account whose status is shown
    paying,    \* whether the payment flow is on screen
    step,      \* PortalPayFlow's step
    checkout,  \* the prompt the flow waits for, 0 before it is known
    left,      \* readings left
    reading,   \* a reading under way, and the answer once it is served
    orders,    \* orders under way; here: of the flow on screen
    prompts    \* server: the prompts sent, what for, and what became of them

vars == <<shop, catalog, text, lookups, shown, paying, step, checkout, left, reading,
          orders, prompts>>

Nothing == "nothing"
Steps == {"form", "sending", "waiting", "success", "error"}
Prompts == 1 .. MaxPrompts
Outcomes == {"pending", "completed", "failed"}
Unsent == [item |-> Nothing, outcome |-> "pending"]

TypeOK ==
    /\ shop \in {"hotspot", "pppoe"} /\ catalog \in {"loading", "ready", "error"}
    /\ text \in Items \cup {Nothing}
    /\ lookups \subseteq [item : Items, quiet : BOOLEAN]
    /\ Cardinality({l \in lookups : ~l.quiet}) <= 1
    /\ shown \in Items \cup {Nothing} /\ paying \in BOOLEAN /\ step \in Steps
    /\ checkout \in {0} \cup Prompts /\ left \in 0 .. MaxAttempts
    /\ reading \in {"none", "asked"} \cup Outcomes
    /\ (reading # "none" => step = "waiting") /\ (step = "waiting" => checkout # 0)
    /\ orders \subseteq [item : Items, here : BOOLEAN]
    /\ prompts \in [Prompts -> [item : Items \cup {Nothing}, outcome : Outcomes]]

Init ==
    /\ shop \in {"hotspot", "pppoe"} /\ catalog = "loading"
    /\ text = Nothing /\ lookups = {} /\ shown = Nothing
    /\ paying = FALSE /\ step = "form" /\ checkout = 0 /\ left = 0 /\ reading = "none"
    /\ orders = {} /\ prompts = [c \in Prompts |-> Unsent]

Flow == <<step, checkout, left, reading>>

\* The flow is mounted anew; orders of an older one are nobody's.
Mounted ==
    /\ step' = "form" /\ checkout' = 0 /\ left' = 0 /\ reading' = "none"
    /\ orders' = {[o EXCEPT !.here = FALSE] : o \in orders}

-----------------------------------------------------------------------------
\* HotspotPackagesSection: the packages are read once.
PlansRead(outcome) ==
    /\ shop = "hotspot" /\ catalog = "loading"
    /\ catalog' = outcome
    /\ UNCHANGED <<shop, text, lookups, shown, paying, Flow, orders, prompts>>

\* The packages' cards are up once the packages are, and none is selected.
CardsShown == shop = "hotspot" /\ catalog = "ready" /\ ~paying

SelectPlan(i) ==
    /\ CardsShown
    /\ shown' = i /\ paying' = TRUE /\ Mounted
    /\ UNCHANGED <<shop, catalog, text, lookups, prompts>>

\* PppoePortalPage: the form is up unless the subscriber is paying, also above
\* the status of an account.
SearchShown == shop = "pppoe" /\ ~paying

Type(i) ==
    /\ SearchShown
    /\ text' = i
    /\ UNCHANGED <<shop, catalog, lookups, shown, paying, Flow, orders, prompts>>

\* The button is off while it waits.
CheckStatus ==
    /\ SearchShown /\ text # Nothing /\ \A l \in lookups : l.quiet
    /\ lookups' = lookups \cup {[item |-> text, quiet |-> FALSE]}
    /\ UNCHANGED <<shop, catalog, text, shown, paying, Flow, orders, prompts>>

LookupFound(l) ==
    /\ lookups' = lookups \ {l} /\ shown' = l.item
    /\ UNCHANGED <<shop, catalog, text, paying, Flow, orders, prompts>>

\* A quiet lookup that fails is dropped.
LookupMissed(l) ==
    /\ lookups' = lookups \ {l}
    /\ shown' = IF l.quiet THEN shown ELSE Nothing
    /\ UNCHANGED <<shop, catalog, text, paying, Flow, orders, prompts>>

\* The status card's buttons; the flow itself needs a status to be on screen.
CardShown == SearchShown /\ shown # Nothing
FlowShown == paying /\ shown # Nothing

Renew ==
    /\ CardShown
    /\ paying' = TRUE /\ Mounted
    /\ UNCHANGED <<shop, catalog, text, lookups, shown, prompts>>

LookUpAnother ==
    /\ CardShown
    /\ shown' = Nothing /\ text' = Nothing
    /\ UNCHANGED <<shop, catalog, lookups, paying, Flow, orders, prompts>>

\* "Back to ...": the flow is unmounted whatever it is doing.
Back ==
    /\ FlowShown
    /\ paying' = FALSE /\ Mounted
    /\ shown' = IF shop = "hotspot" THEN Nothing ELSE shown
    /\ UNCHANGED <<shop, catalog, text, lookups, prompts>>

\* onReset, the Done button of the success screen.
Done ==
    /\ FlowShown /\ step = "success"
    /\ paying' = FALSE /\ Mounted
    /\ IF shop = "hotspot"
       THEN shown' = Nothing /\ UNCHANGED lookups
       ELSE UNCHANGED shown /\ lookups' = IF text = Nothing THEN lookups
                                          ELSE lookups \cup {[item |-> text, quiet |-> TRUE]}
    /\ UNCHANGED <<shop, catalog, text, prompts>>

-----------------------------------------------------------------------------
\* What the order is for: the selected package, the account in the text field.
Ordered == IF shop = "hotspot" THEN shown ELSE text

\* The form is on screen before a payment, and under the message of a failed one.
FormShown == FlowShown /\ step \in {"form", "error"}

PayWithoutPhone ==
    /\ FormShown
    /\ step' = "error"
    /\ UNCHANGED <<shop, catalog, text, lookups, shown, paying, checkout, left, reading,
                   orders, prompts>>

Pay ==
    /\ FormShown /\ Ordered # Nothing
    /\ step' = "sending" /\ checkout' = 0
    /\ orders' = orders \cup {[item |-> Ordered, here |-> TRUE]}
    /\ UNCHANGED <<shop, catalog, text, lookups, shown, paying, left, reading, prompts>>

Free(c) == prompts[c] = Unsent /\ \A d \in Prompts : d < c => prompts[d] # Unsent

\* Faulty variant: the answer to any order is taken for the flow on screen's.
OrderAcceptedByAny(o, c) ==
    /\ Free(c) /\ orders' = orders \ {o}
    /\ prompts' = [prompts EXCEPT ![c].item = o.item]
    /\ IF paying
       THEN step' = "waiting" /\ checkout' = c /\ left' = MaxAttempts /\ reading' = "none"
       ELSE UNCHANGED Flow
    /\ UNCHANGED <<shop, catalog, text, lookups, shown, paying>>

\* The server prompts the phone and answers; the flow starts to read the status.
OrderAccepted(o, c) ==
    /\ Free(c) /\ orders' = orders \ {o}
    /\ prompts' = [prompts EXCEPT ![c].item = o.item]
    /\ IF o.here
       THEN step' = "waiting" /\ checkout' = c /\ left' = MaxAttempts /\ reading' = "none"
       ELSE UNCHANGED Flow
    /\ UNCHANGED <<shop, catalog, text, lookups, shown, paying>>

OrderRefused(o) ==
    /\ orders' = orders \ {o}
    /\ step' = IF o.here THEN "error" ELSE step
    /\ UNCHANGED <<shop, catalog, text, lookups, shown, paying, checkout, left, reading, prompts>>

\* pollPaymentStatus: one reading after another, with a sleep in between.
AskStatus ==
    /\ step = "waiting" /\ reading = "none"
    /\ reading' = "asked"
    /\ UNCHANGED <<shop, catalog, text, lookups, shown, paying, step, checkout, left, orders, prompts>>

StatusServed ==
    /\ reading = "asked"
    /\ reading' = prompts[checkout].outcome
    /\ UNCHANGED <<shop, catalog, text, lookups, shown, paying, step, checkout, left, orders, prompts>>

StatusRead ==
    /\ reading \in {"completed", "failed"}
    /\ reading' = "none" /\ left' = 0
    /\ step' = IF reading = "completed" THEN "success" ELSE "error"
    /\ UNCHANGED <<shop, catalog, text, lookups, shown, paying, checkout, orders, prompts>>

\* Still pending, or the reading failed; after the last one, "still pending".
StatusPending ==
    /\ reading = "pending" \/ (reading = "asked" /\ MayFail)
    /\ reading' = "none" /\ left' = left - 1
    /\ step' = IF left = 1 THEN "error" ELSE step
    /\ UNCHANGED <<shop, catalog, text, lookups, shown, paying, checkout, orders, prompts>>

Retry ==
    /\ FlowShown /\ step = "error"
    /\ step' = "form"
    /\ UNCHANGED <<shop, catalog, text, lookups, shown, paying, checkout, left, reading,
                   orders, prompts>>

\* The customer enters the PIN or declines, in their own time.
PhoneAnswered(c, outcome) ==
    /\ prompts[c].item # Nothing /\ prompts[c].outcome = "pending"
    /\ prompts' = [prompts EXCEPT ![c].outcome = outcome]
    /\ UNCHANGED <<shop, catalog, text, lookups, shown, paying, Flow, orders>>

Next ==
    \/ \E outcome \in {"ready", "error"} : PlansRead(outcome)
    \/ \E i \in Items : SelectPlan(i) \/ Type(i)
    \/ CheckStatus \/ Renew \/ LookUpAnother \/ Back \/ Done
    \/ \E l \in lookups : LookupFound(l) \/ LookupMissed(l)
    \/ PayWithoutPhone \/ Pay \/ Retry
    \/ \E o \in orders : OrderRefused(o) \/ \E c \in Prompts : OrderAccepted(o, c)
    \/ AskStatus \/ StatusServed \/ StatusRead \/ StatusPending
    \/ \E c \in Prompts, outcome \in {"completed", "failed"} : PhoneAnswered(c, outcome)

Spec == Init /\ [][Next]_vars

\* What goes on by itself: sleeps end and requests are answered; the phone may
\* never be.
Work == \E o \in {p \in orders : p.here} : OrderRefused(o) \/ \E c \in Prompts : OrderAccepted(o, c)
Asks == AskStatus
Answers == StatusServed \/ StatusPending \/ StatusRead

-----------------------------------------------------------------------------
\* The flow never waits for ever: prompts nobody answers, readings that fail.
FlowEnds == paying => step \notin {"sending", "waiting"}

\* Whoever paid before the last reading was asked for is told so, unless they
\* go back: also when they paid between two readings, or during the last.
PaidInTime(c) ==
    /\ step = "waiting" /\ checkout = c /\ prompts[c].outcome = "completed"
    /\ reading \in {"none", "asked"} \/ left > 1
ToldOrLeft(c) == step = "success" \/ checkout # c

\* The success screen is of a payment made in this flow: money received, and
\* for what the flow had ordered, whatever older orders are answered late.
ReceiptIsOwn ==
    step = "success" =>
        /\ prompts[checkout].outcome = "completed"
        /\ shop = "hotspot" => prompts[checkout].item = shown

-----------------------------------------------------------------------------
\* Said in the sources and not so in the code: no run checks what follows, and
\* the README tells how each of them is broken.

\* PppoePortalPage: "Pay for <package> with M-Pesa to turn your internet back
\* on": the prompt is for the account whose status is on screen.
PaysForAccountShown == \A o \in orders : o.here => o.item = shown
=============================================================================
