----------------------------- MODULE PaymentRoute -----------------------------
(***************************************************************************)
(* Settings > Payments: one stored row seen as four gateways, the panel    *)
(* that sends all of it with each change, and the STK prompt that uses it. *)
(***************************************************************************)
EXTENDS Naturals, FiniteSets

CONSTANTS Consoles,      \* operators with the panel open
          Values,        \* what is typed in a field
          LoadFails,     \* the first request of a panel may fail
          Overlap,       \* operators flip switches while a request is under way
          PlatformKeys,  \* the deployment has Daraja keys of its own
          MaxEdits,      \* bound: fields changed, in all
          MaxPuts        \* bound: requests, in all

RouteAssumption ==
    /\ LoadFails \in BOOLEAN /\ Overlap \in BOOLEAN /\ PlatformKeys \in BOOLEAN
    /\ MaxEdits \in Nat /\ MaxPuts \in Nat

VARIABLES
    row,       \* server: payment_settings of the tenant
    form,      \* per console: the fields
    baseline,  \* per console: the row they were last equal to, or Never
    view,      \* per console: "loading", "list" or a gateway
    chrome,    \* per console: the fields the header's button sends
    puts,      \* requests under way: [by, body, stage, for]
    cleared,   \* fields an operator emptied by hand, ever
    told,      \* per console: the gateway "Gateway switched" was last said of
    prompted,  \* the row the last STK prompt was sent under, or Never
    edits, sent

vars == <<row, form, baseline, view, chrome, puts, cleared, told, prompted, edits, sent>>
local == <<form, baseline, view, chrome, told>>
bounds == <<edits, sent>>

Routes == {"paybill", "buygoods", "bank"}
Secrets == {"key", "passkey"}                        \* of Daraja
Fields == Secrets \cup {"till", "paybill", "account"}
Gateways == {"mpesa_api", "paybill_manual", "till_manual", "bank"}
Empty == "empty"
Row == [Fields -> Values \cup {Empty}] \X Routes \X BOOLEAN

\* <<fields, collection route, method_mpesa>>
Blank == <<[f \in Fields |-> Empty], "paybill", TRUE>>
Never == <<>>

Put == [by: Consoles, body: Row, stage: {"sent", "done", "failed"}, says: Gateways \cup {"saved"}, id: 1 .. MaxPuts]

TypeOK ==
    /\ row \in Row /\ form \in [Consoles -> Row]
    /\ baseline \in [Consoles -> Row \cup {Never}] /\ chrome \in [Consoles -> Row]
    /\ view \in [Consoles -> {"loading", "list"} \cup Gateways]
    /\ puts \subseteq Put /\ cleared \subseteq Fields
    /\ told \in [Consoles -> Gateways \cup {"none"}] /\ prompted \in Row \cup {Never}
    /\ edits \in 0 .. MaxEdits /\ sent \in 0 .. MaxPuts

-----------------------------------------------------------------------------
hasDaraja(r) == \A f \in Secrets : r[1][f] # Empty

\* activeGatewayId: derived, there is no such column.
Active(r) ==
    IF hasDaraja(r) THEN "mpesa_api"
    ELSE IF r[2] = "bank" THEN "bank" ELSE IF r[2] = "buygoods" THEN "till_manual" ELSE "paybill_manual"

RouteOf(g) == IF g = "bank" THEN "bank" ELSE IF g = "till_manual" THEN "buygoods" ELSE "paybill"

\* Fields a gateway's page shows; the keys page follows the route.
Shown(g, r) ==
    IF g = "mpesa_api" THEN Secrets \cup {IF r[2] = "buygoods" THEN "till" ELSE "paybill"}
    ELSE IF g = "bank" THEN {"account"} ELSE IF g = "till_manual" THEN {"till"} ELSE {"paybill"}

Dirty(c) == baseline[c] # Never /\ form[c] # baseline[c]
Saving(c) == \E p \in puts : p.by = c

-----------------------------------------------------------------------------
Init ==
    /\ row \in {<<f, "paybill", TRUE>> : f \in [Fields -> Values \cup {Empty}]}
    /\ \A f \in {"till", "paybill", "account"} : row[1][f] # Empty
    /\ form = [c \in Consoles |-> Blank] /\ baseline = [c \in Consoles |-> Never]
    /\ view = [c \in Consoles |-> "loading"] /\ chrome = [c \in Consoles |-> Blank]
    /\ puts = {} /\ cleared = {} /\ told = [c \in Consoles |-> "none"] /\ prompted = Never
    /\ edits = 0 /\ sent = 0

\* The effect of the panel: a failed load leaves the empty form and no baseline.
Load(c) ==
    /\ view[c] = "loading" /\ view' = [view EXCEPT ![c] = "list"]
    /\ \/ form' = [form EXCEPT ![c] = row] /\ baseline' = [baseline EXCEPT ![c] = row]
       \/ LoadFails /\ UNCHANGED <<form, baseline>>
    /\ UNCHANGED <<row, chrome, puts, cleared, told, prompted, bounds>>

\* The effect that hands the header its button runs when the page, the active
\* gateway or saving changes, not when a field does.
Rechrome(c, g, f, saves) ==
    IF g \in Gateways /\ (g # view[c] \/ Active(f) # Active(form[c]) \/ saves # Saving(c))
    THEN [chrome EXCEPT ![c] = f] ELSE chrome

Open(c, g) ==
    /\ view[c] = "list" /\ view' = [view EXCEPT ![c] = g] /\ chrome' = Rechrome(c, g, form[c], Saving(c))
    /\ UNCHANGED <<row, form, baseline, puts, cleared, told, prompted, bounds>>

\* onBack: the fields keep what was typed.
Back(c) ==
    /\ view[c] \in Gateways /\ view' = [view EXCEPT ![c] = "list"]
    /\ UNCHANGED <<row, form, baseline, chrome, puts, cleared, told, prompted, bounds>>

Edited(c, f) ==
    /\ edits < MaxEdits /\ edits' = edits + 1 /\ form' = [form EXCEPT ![c] = f]
    /\ chrome' = Rechrome(c, view[c], f, Saving(c))
    /\ UNCHANGED <<row, baseline, view, puts, told, prompted, sent>>

Type(c) ==
    /\ view[c] \in Gateways /\ (Overlap \/ ~Saving(c))
    /\ \E f \in Shown(view[c], form[c]), v \in Values \cup {Empty} :
           /\ v # form[c][1][f] /\ Edited(c, [form[c] EXCEPT ![1][f] = v])
           /\ cleared' = IF v = Empty THEN cleared \cup {f} ELSE cleared

ChooseRoute(c) ==
    /\ view[c] = "mpesa_api" /\ (Overlap \/ ~Saving(c))
    /\ \E r \in {"paybill", "buygoods"} \ {form[c][2]} : Edited(c, [form[c] EXCEPT ![2] = r])
    /\ UNCHANGED cleared

\* onReset
Reset(c) ==
    /\ view[c] \in Gateways /\ Dirty(c) /\ ~Saving(c) /\ form' = [form EXCEPT ![c] = baseline[c]]
    /\ chrome' = Rechrome(c, view[c], baseline[c], FALSE)
    /\ UNCHANGED <<row, baseline, view, puts, cleared, told, prompted, bounds>>

-----------------------------------------------------------------------------
\* persist: all fields are sent.
Send(c, body, says, f) ==
    /\ sent < MaxPuts /\ sent' = sent + 1 /\ form' = [form EXCEPT ![c] = f]
    /\ puts' = puts \cup {[by |-> c, body |-> body, stage |-> "sent", says |-> says, id |-> sent + 1]}
    /\ chrome' = Rechrome(c, view[c], f, TRUE)
    /\ UNCHANGED <<row, baseline, view, cleared, told, prompted, edits>>

Save(c) == view[c] \in Gateways /\ Dirty(c) /\ ~Saving(c) /\ Send(c, form[c], "saved", form[c])

\* activate, "Use this gateway": the fields the header's effect last saw.
Activate(c) ==
    /\ view[c] \in Gateways \ {Active(form[c])} /\ ~Saving(c)
    /\ Send(c, [chrome[c] EXCEPT ![2] = RouteOf(view[c])], view[c], form[c])

\* toggleMethod: a switch is not held back while a request is under way.
ToggleMethod(c) ==
    /\ view[c] = "list" /\ (Overlap \/ ~Saving(c))
    /\ LET next == [form[c] EXCEPT ![3] = ~@] IN Send(c, next, "saved", next)

\* update_payments: what is sent is what is stored, empty fields too.
Store(p) ==
    /\ p.stage = "sent" /\ row' = p.body /\ puts' = (puts \ {p}) \cup {[p EXCEPT !.stage = "done"]}
    /\ UNCHANGED <<local, cleared, prompted, bounds>>

PutFails(p) ==
    /\ p.stage = "sent" /\ puts' = (puts \ {p}) \cup {[p EXCEPT !.stage = "failed"]}
    /\ UNCHANGED <<row, local, cleared, prompted, bounds>>

\* The rest of persist: the answer replaces the fields.
Answer(p) ==
    LET c == p.by
        f == IF p.stage = "done" THEN p.body ELSE form[c] IN
    /\ p.stage # "sent" /\ puts' = puts \ {p}
    /\ form' = [form EXCEPT ![c] = f]
    /\ baseline' = IF p.stage = "done" THEN [baseline EXCEPT ![c] = f] ELSE baseline
    /\ told' = IF p.stage = "done" /\ p.says # "saved" THEN [told EXCEPT ![c] = p.says] ELSE told
    /\ chrome' = Rechrome(c, view[c], f, FALSE)
    /\ UNCHANGED <<row, view, cleared, prompted, bounds>>

\* resolve_mpesa_config and initiate_stk_push: an empty field is the deployment's.
Prompt ==
    /\ PlatformKeys \/ hasDaraja(row)
    /\ prompted' = row
    /\ UNCHANGED <<row, local, puts, cleared, bounds>>

Next ==
    \/ \E c \in Consoles :
          \/ Load(c) \/ Back(c) \/ Type(c) \/ ChooseRoute(c) \/ Reset(c)
          \/ Save(c) \/ Activate(c) \/ ToggleMethod(c)
          \/ \E g \in Gateways : Open(c, g)
    \/ \E p \in puts : Store(p) \/ PutFails(p) \/ Answer(p)
    \/ Prompt

Spec == Init /\ [][Next]_vars

-----------------------------------------------------------------------------
\* "Clearing a field here deletes the credential": nothing else does.
OnlyByHand == \A f \in Fields : row[1][f] # Empty /\ row'[1][f] = Empty => f \in cleared

\* "Saved credentials are shown below": fields nobody is changing or sending
\* are the stored ones.
SavedIsShown == \A c \in Consoles : baseline[c] # Never /\ ~Dirty(c) /\ ~Saving(c) => form[c] = row

-----------------------------------------------------------------------------
\* Said in the sources and not so in the code: no run checks what follows, and
\* the README tells how each of them is broken.

\* "Use this gateway only moves the collection route": an activation changes
\* no credential and no payment method.
ActivationMovesRoute ==
    \A p \in puts : p.says # "saved" /\ p \notin puts' /\ p.stage = "sent" /\ row' # row =>
           row'[1] = row[1] /\ row'[3] = row[3]

\* "Gateway switched": the gateway that was switched to is the active one.
SwitchedIsActive ==
    \A c \in Consoles : (\E p \in puts \ puts' : p.by = c /\ p.stage = "done" /\ p.says # "saved") =>
           Active(form'[c]) = told'[c]

\* "Turn payment options on or off across the portal and dashboard".
PromptOnlyWhenOn == prompted # Never => prompted[3]

\* "Without Daraja credentials nothing tells the system a payment landed".
PromptNeedsKeys == prompted # Never => hasDaraja(prompted)
=============================================================================
