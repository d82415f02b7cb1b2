--------------------------- MODULE InvoicePolling ---------------------------
(***************************************************************************)
(* Paying a platform invoice on PlatformSubscriptionPage: the dialog sends *)
(* a prompt to a phone, and the page then asks for the invoice's status    *)
(* every few seconds until it is paid or the page gives up.  Each mount of *)
(* the page has its own timer; what is sent is answered whatever has been  *)
(* closed meanwhile.                                                       *)
(***************************************************************************)
EXTENDS Naturals, FiniteSets

CONSTANTS Invoices,    \* the tenant's invoices on file
          MaxMounts,   \* bound: visits of the page
          MaxPrompts   \* bound: prompts sent

PollingAssumption == MaxMounts \in Nat \ {0} /\ MaxPrompts \in Nat

VARIABLES
    page,      \* the mount on screen, 0 elsewhere
    mounts,    \* the page's visits so far
    view,      \* what the page shows: read yet, loading, and the invoices paid
    dialog,    \* the invoice of the pay dialog, or none
    sending,   \* the dialog's button waits for the prompt
    prompts,   \* prompts sent so far
    pays,      \* prompts not answered yet
    awaiting,  \* the invoice each mount says it waits for
    timer,     \* the invoice each mount's interval polls
    polls,     \* status requests under way
    loads,     \* readings of the subscription under way
    paid,      \* server: the invoices settled
    unlocks    \* mounts that owe the gate a refresh

vars == <<page, mounts, view, dialog, sending, prompts, pays, awaiting, timer,
          polls, loads, paid, unlocks>>

NoInvoice == "none"
Mounts == 1 .. MaxMounts
MaybeInvoice == Invoices \cup {NoInvoice}

Loads == [at : Mounts, served : BOOLEAN, seen : SUBSET Invoices, unlock : BOOLEAN]

TypeOK ==
    /\ page \in 0 .. MaxMounts /\ mounts \in 0 .. MaxMounts /\ page \in {0, mounts}
    /\ view \in [read : BOOLEAN, loading : BOOLEAN, paid : SUBSET paid]
    /\ paid \subseteq Invoices
    /\ dialog \in MaybeInvoice /\ (page = 0 => dialog = NoInvoice)
    /\ sending => dialog # NoInvoice
    /\ prompts \in 0 .. MaxPrompts
    /\ pays \subseteq [at : Mounts, invoice : Invoices, here : BOOLEAN]
    /\ awaiting \in [Mounts -> MaybeInvoice] /\ timer \in [Mounts -> MaybeInvoice]
    /\ polls \subseteq [at : Mounts, invoice : Invoices, answer : {"none", "pending", "paid"}]
    /\ loads \subseteq Loads
    /\ \A n \in Mounts : n # page => awaiting[n] = NoInvoice
    /\ unlocks \subseteq Mounts

Reading(at, unlock) == [at |-> at, served |-> FALSE, seen |-> {}, unlock |-> unlock]

Blank == [read |-> FALSE, loading |-> TRUE, paid |-> {}]

Init ==
    /\ page = 0 /\ mounts = 0 /\ view = Blank
    /\ dialog = NoInvoice /\ sending = FALSE /\ prompts = 0 /\ pays = {}
    /\ awaiting = [n \in Mounts |-> NoInvoice] /\ timer = [n \in Mounts |-> NoInvoice]
    /\ polls = {} /\ loads = {} /\ paid = {} /\ unlocks = {}

DialogState == <<dialog, sending, prompts, pays>>
PollState == <<awaiting, timer, polls>>

-----------------------------------------------------------------------------
Visit ==
    /\ page = 0 /\ mounts < MaxMounts
    /\ mounts' = mounts + 1 /\ page' = mounts + 1 /\ view' = Blank
    /\ loads' = loads \cup {Reading(mounts + 1, FALSE)}
    /\ UNCHANGED <<DialogState, PollState, paid, unlocks>>

\* Unmounting clears the interval in pollRef; the state goes with the page.
Leave ==
    /\ page # 0 /\ page' = 0 /\ dialog' = NoInvoice /\ sending' = FALSE
    /\ pays' = {[p EXCEPT !.here = FALSE] : p \in pays}
    /\ timer' = [timer EXCEPT ![page] = NoInvoice]
    /\ awaiting' = [awaiting EXCEPT ![page] = NoInvoice]
    /\ UNCHANGED <<mounts, view, prompts, polls, loads, paid, unlocks>>

Reload ==
    /\ page # 0 /\ Reading(page, FALSE) \notin loads
    /\ loads' = loads \cup {Reading(page, FALSE)} /\ view' = [view EXCEPT !.loading = TRUE]
    /\ UNCHANGED <<page, mounts, DialogState, PollState, paid, unlocks>>

LoadServed(l) ==
    /\ ~l.served
    /\ loads' = (loads \ {l}) \cup {[l EXCEPT !.served = TRUE, !.seen = paid]}
    /\ UNCHANGED <<page, mounts, view, DialogState, PollState, paid, unlocks>>

\* Any reading that ends takes the spinner away.
Painted(l, fails) ==
    IF l.at # page THEN view
    ELSE IF fails THEN [view EXCEPT !.loading = FALSE]
    ELSE [read |-> TRUE, loading |-> FALSE, paid |-> l.seen]

\* Faulty variant: load rethrows, and what follows it is skipped.
LoadEndedThrowing(l, fails) ==
    /\ l.served \/ fails
    /\ loads' = loads \ {l}
    /\ view' = Painted(l, fails)
    /\ unlocks' = IF l.unlock /\ ~fails THEN unlocks \cup {l.at} ELSE unlocks
    /\ UNCHANGED <<page, mounts, DialogState, PollState, paid>>

\* load catches its own errors, so what awaits it always goes on.
LoadEnded(l, fails) ==
    /\ l.served \/ fails
    /\ loads' = loads \ {l}
    /\ view' = Painted(l, fails)
    /\ unlocks' = IF l.unlock THEN unlocks \cup {l.at} ELSE unlocks
    /\ UNCHANGED <<page, mounts, DialogState, PollState, paid>>

RefreshGate(n) ==
    /\ n \in unlocks
    /\ unlocks' = unlocks \ {n}
    /\ UNCHANGED <<page, mounts, view, DialogState, PollState, loads, paid>>

-----------------------------------------------------------------------------
\* The table's Pay buttons are for pending invoices not awaited; the header's is
\* for the first pending one, awaited or not.
Pending == IF view.read THEN Invoices \ view.paid ELSE {}
InTable(i) == ~view.loading /\ i \in Pending /\ awaiting[page] # i
InHeader(i) == Pending # {} /\ i = CHOOSE j \in Pending : TRUE

OpenDialog(i) ==
    /\ page # 0 /\ dialog = NoInvoice /\ (InTable(i) \/ InHeader(i))
    /\ dialog' = i /\ sending' = FALSE
    /\ UNCHANGED <<page, mounts, view, prompts, pays, PollState, loads, paid, unlocks>>

\* The cross, or a click outside; a prompt under way is not taken back.
CloseDialog ==
    /\ dialog # NoInvoice
    /\ dialog' = NoInvoice /\ sending' = FALSE
    /\ pays' = {[p EXCEPT !.here = FALSE] : p \in pays}
    /\ UNCHANGED <<page, mounts, view, prompts, PollState, loads, paid, unlocks>>

Submit ==
    /\ dialog # NoInvoice /\ ~sending /\ prompts < MaxPrompts
    /\ sending' = TRUE /\ prompts' = prompts + 1
    /\ pays' = pays \cup {[at |-> page, invoice |-> dialog, here |-> TRUE]}
    /\ UNCHANGED <<page, mounts, view, dialog, PollState, loads, paid, unlocks>>

\* startPolling: the mount's interval is replaced.
StartPolling(at, i) ==
    /\ timer' = [timer EXCEPT ![at] = i]
    /\ awaiting' = IF at = page THEN [awaiting EXCEPT ![at] = i] ELSE awaiting

\* onSent, then onClose: also of a dialog opened since, and after the page left.
PromptSent(p) ==
    /\ pays' = {[q EXCEPT !.here = FALSE] : q \in {r \in pays \ {p} : r.at = p.at}}
               \cup {r \in pays \ {p} : r.at # p.at}
    /\ StartPolling(p.at, p.invoice)
    /\ dialog' = IF p.at = page THEN NoInvoice ELSE dialog
    /\ sending' = IF p.at = page THEN FALSE ELSE sending
    /\ UNCHANGED <<page, mounts, view, prompts, polls, loads, paid, unlocks>>

PromptFailed(p) ==
    /\ pays' = pays \ {p}
    /\ sending' = (sending /\ ~p.here)
    /\ UNCHANGED <<page, mounts, view, dialog, prompts, PollState, loads, paid, unlocks>>

\* Server: the callback settles the invoice, whenever the customer pays.
Settle(i) ==
    /\ i \notin paid
    /\ paid' = paid \cup {i}
    /\ UNCHANGED <<page, mounts, view, DialogState, PollState, loads, unlocks>>

-----------------------------------------------------------------------------
Tick(n) ==
    /\ timer[n] # NoInvoice
    /\ polls' = polls \cup {[at |-> n, invoice |-> timer[n], answer |-> "none"]}
    /\ UNCHANGED <<page, mounts, view, DialogState, awaiting, timer, loads, paid, unlocks>>

StopPolling(n) ==
    /\ timer' = [timer EXCEPT ![n] = NoInvoice]
    /\ awaiting' = [awaiting EXCEPT ![n] = NoInvoice]

\* A tick past the three minutes.
GiveUp(n) ==
    /\ timer[n] # NoInvoice
    /\ StopPolling(n)
    /\ UNCHANGED <<page, mounts, view, DialogState, polls, loads, paid, unlocks>>

StatusServed(s) ==
    /\ s.answer = "none"
    /\ polls' = (polls \ {s}) \cup
           {[s EXCEPT !.answer = IF s.invoice \in paid THEN "paid" ELSE "pending"]}
    /\ UNCHANGED <<page, mounts, view, DialogState, awaiting, timer, loads, paid, unlocks>>

\* The answer stops whatever interval is in pollRef now.
StatusPaid(s) ==
    /\ s.answer = "paid"
    /\ polls' = polls \ {s}
    /\ StopPolling(s.at)
    /\ loads' = loads \cup {Reading(s.at, TRUE)}
    /\ view' = IF s.at = page THEN [view EXCEPT !.loading = TRUE] ELSE view
    /\ UNCHANGED <<page, mounts, DialogState, paid, unlocks>>

\* Still pending, or the request failed: the next tick tries again.
StatusDropped(s) ==
    /\ s.answer # "paid"
    /\ polls' = polls \ {s}
    /\ UNCHANGED <<page, mounts, view, DialogState, awaiting, timer, loads, paid, unlocks>>

Next ==
    \/ Visit \/ Leave \/ Reload \/ CloseDialog \/ Submit
    \/ \E l \in loads : LoadServed(l) \/ \E fails \in BOOLEAN : LoadEnded(l, fails)
    \/ \E i \in Invoices : OpenDialog(i) \/ Settle(i)
    \/ \E p \in pays : PromptSent(p) \/ PromptFailed(p)
    \/ \E n \in Mounts : Tick(n) \/ GiveUp(n) \/ RefreshGate(n)
    \/ \E s \in polls : StatusServed(s) \/ StatusPaid(s) \/ StatusDropped(s)

Spec == Init /\ [][Next]_vars

\* What goes on by itself: intervals end, and so does the reading that follows a
\* payment, answered or not.  (Of the others nothing is assumed.)
Work == \E n \in Mounts : GiveUp(n)
Asks == \E n \in Mounts : RefreshGate(n)
Answers == \E l \in loads, fails \in BOOLEAN : l.unlock /\ LoadEnded(l, fails)

-----------------------------------------------------------------------------
\* The page says it waits for an invoice exactly while its interval asks for
\* that invoice, whatever answers come late.
AwaitingIsPolled == page # 0 => awaiting[page] = timer[page]

\* An interval of a page that was left ends, also one that a late prompt
\* started after the page had gone.
PollingEnds == \A n \in Mounts : n # page => timer[n] = NoInvoice

\* Once an answer said paid, the gate is refreshed, even if reading the
\* subscription fails or the page is left.
SaidPaid(n) == \E l \in loads : l.at = n /\ l.unlock
Refreshed(n) == n \in unlocks

-----------------------------------------------------------------------------
\* Said in the sources and not so in the code: no run checks what follows, and
\* the README tells how each of them is broken.

\* startPolling: "poll until the backend says it is paid": the page stops
\* waiting for an invoice when that invoice is paid or the time is over.
PollsUntilPaid ==
    \A i \in Invoices :
           page # 0 /\ page' = page /\ awaiting[page] = i /\ awaiting'[page] = NoInvoice
               => i \in paid \/ GiveUp(page)
=============================================================================
