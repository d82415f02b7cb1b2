-------------------------- MODULE IntegrationsPanel --------------------------
(***************************************************************************)
(* Settings > All integrations and Settings > Email: two panels over the   *)
(* same stored rows, switches shown before they are answered, and the      *)
(* server mail then leaves by.                                             *)
(***************************************************************************)
EXTENDS Naturals

CONSTANTS Others,    \* integrations besides "smtp"
          Hosts,     \* hosts typed
          Fails,     \* writes may fail
          LoadFails, \* the list may fail to load
          Overlap,   \* the operator acts while a request is under way
          MaxEdits,  \* bound: fields changed
          MaxPuts    \* bound: requests

PanelAssumption ==
    /\ "smtp" \notin Others /\ Fails \in BOOLEAN /\ LoadFails \in BOOLEAN /\ Overlap \in BOOLEAN
    /\ MaxEdits \in Nat /\ MaxPuts \in Nat

VARIABLES
    rows,      \* server: integration_settings
    shown,     \* "All integrations": stateMap, or NotLoaded
    modal,     \* the integration whose dialog is open, or "none"
    fields,    \* the dialog's fields
    puts,      \* requests under way: [id, from, key, body, prev, stage, answer]
    email,     \* "Email": [enabled, host, password], or NotLoaded
    baseline,  \* what they were last equal to
    edits, sent

vars == <<rows, shown, modal, fields, puts, email, baseline, edits, sent>>
bounds == <<edits, sent>>

Keys == Others \cup {"smtp"}
Empty == "empty"
Mask == "mask"
Texts == Hosts \cup {Empty}
NotLoaded == [loaded |-> FALSE]
Row == [enabled: BOOLEAN, host: Texts, password: {"kept", "new", Empty}]

\* _public_integration_config
Public(r) == [r EXCEPT !.password = IF @ = Empty THEN Empty ELSE Mask]

TypeOK ==
    /\ rows \in [Keys -> Row]
    /\ shown = NotLoaded \/ shown \in [Keys -> [enabled: BOOLEAN, host: Texts, password: {Mask, Empty}]]
    /\ modal \in Keys \cup {"none"} /\ fields.host \in Texts
    /\ email = NotLoaded \/ email.password \in {"new", Empty}
    /\ edits \in 0 .. MaxEdits /\ sent \in 0 .. MaxPuts

-----------------------------------------------------------------------------
\* integration_config with required host, resolve_smtp_config: tenant or platform, whole.
Source ==
    IF rows["smtp"].enabled /\ rows["smtp"].host # Empty
    THEN [of |-> "tenant", host |-> rows["smtp"].host, password |-> rows["smtp"].password]
    ELSE [of |-> "platform", host |-> "platform", password |-> "platform"]

Saving(from) == \E p \in puts : p.from = from
Free(from) == Overlap \/ ~Saving(from)

Init ==
    /\ rows \in [Keys -> {[enabled |-> FALSE, host |-> Empty, password |-> Empty]} \cup
                         {[enabled |-> TRUE, host |-> h, password |-> "kept"] : h \in Hosts}]
    /\ shown = NotLoaded /\ modal = "none" /\ fields = [host |-> Empty, password |-> Empty]
    /\ puts = {} /\ email = NotLoaded /\ baseline = NotLoaded /\ edits = 0 /\ sent = 0

\* The effect of IntegrationsSettings; after a failure every switch reads off.
Load ==
    /\ shown = NotLoaded
    /\ shown' \in {[k \in Keys |-> Public(rows[k])]}
                  \cup {m \in {[k \in Keys |-> [enabled |-> FALSE, host |-> Empty, password |-> Empty]]} : LoadFails}
    /\ UNCHANGED <<rows, modal, fields, puts, email, baseline, bounds>>

\* The panel is left and opened again.
Leave ==
    /\ shown # NotLoaded /\ ~Saving("list") /\ shown' = NotLoaded /\ modal' = "none"
    /\ UNCHANGED <<rows, fields, puts, email, baseline, bounds>>

Put(from, k, body, prev) ==
    /\ sent < MaxPuts /\ sent' = sent + 1
    /\ puts' = puts \cup {[id |-> sent + 1, from |-> from, key |-> k, body |-> body, prev |-> prev,
                             stage |-> "sent", answer |-> NotLoaded]}

\* toggle: shown at once, with the whole map kept for a failure. Only the
\* switch used last is disabled meanwhile.
Toggle(k) ==
    /\ shown # NotLoaded /\ modal = "none" /\ Free("list")
    /\ ~\E p \in puts : p.from = "list" /\ p.key = k /\ \A q \in puts : q.from = "list" => q.id <= p.id
    /\ LET next == ~shown[k].enabled IN
       /\ Put("list", k, [enabled |-> next], shown) /\ shown' = [shown EXCEPT ![k].enabled = next]
    /\ UNCHANGED <<rows, modal, fields, email, baseline, edits>>

\* openConfig and the fields of ConfigModal: the mask is shown as it came.
OpenConfig(k) ==
    /\ shown # NotLoaded /\ modal = "none" /\ Free("list") /\ modal' = k
    /\ fields' = [host |-> shown[k].host, password |-> shown[k].password]
    /\ UNCHANGED <<rows, shown, puts, email, baseline, bounds>>

CloseConfig ==
    /\ modal # "none" /\ modal' = "none" /\ UNCHANGED <<rows, shown, fields, puts, email, baseline, bounds>>

TypeConfig ==
    /\ modal # "none" /\ Free("list") /\ edits < MaxEdits /\ edits' = edits + 1
    /\ fields' \in {[fields EXCEPT !.host = h] : h \in Texts} \cup {[fields EXCEPT !.password = p] : p \in {"new", Empty}}
    /\ UNCHANGED <<rows, shown, modal, puts, email, baseline, sent>>

SaveConfig ==
    /\ modal # "none" /\ ~Saving("list")
    /\ Put("list", modal, [enabled |-> TRUE, config |-> fields], shown)
    /\ UNCHANGED <<rows, shown, modal, fields, email, baseline, edits>>

Disconnect ==
    /\ modal # "none" /\ shown[modal].enabled /\ ~Saving("list")
    /\ Put("list", modal, [enabled |-> FALSE, close |-> TRUE], shown)
    /\ UNCHANGED <<rows, shown, modal, fields, email, baseline, edits>>

-----------------------------------------------------------------------------
\* EmailSettings: a mask is shown empty.
Unmasked(r) == [r EXCEPT !.password = Empty]

LoadEmail ==
    /\ email = NotLoaded /\ email' = Unmasked(rows["smtp"]) /\ baseline' = email'
    /\ UNCHANGED <<rows, shown, modal, fields, puts, bounds>>

LeaveEmail ==
    /\ email # NotLoaded /\ ~Saving("email") /\ email' = NotLoaded /\ baseline' = NotLoaded
    /\ UNCHANGED <<rows, shown, modal, fields, puts, bounds>>

TypeEmail ==
    /\ email # NotLoaded /\ Free("email") /\ edits < MaxEdits /\ edits' = edits + 1
    /\ email' \in {[email EXCEPT !.enabled = ~@]}
                  \cup {[email EXCEPT !.host = h] : h \in {t \in Texts : email.enabled}}
                  \cup {[email EXCEPT !.password = p] : p \in {q \in {"new", Empty} : email.enabled}}
    /\ UNCHANGED <<rows, shown, modal, fields, puts, baseline, sent>>

ResetEmail ==
    /\ email # NotLoaded /\ email # baseline /\ ~Saving("email") /\ email' = baseline
    /\ UNCHANGED <<rows, shown, modal, fields, puts, baseline, bounds>>

\* save: a host is asked for; an empty password is not sent.
SaveEmail ==
    /\ email # NotLoaded /\ email # baseline /\ ~Saving("email") /\ (email.enabled => email.host # Empty)
    /\ Put("email", "smtp", [enabled |-> email.enabled,
                             config |-> [host |-> email.host, password |-> email.password]], email)
    /\ UNCHANGED <<rows, shown, modal, fields, email, baseline, edits>>

-----------------------------------------------------------------------------
\* update_integration: a blank or masked secret keeps the stored one.
Stored(r, body) ==
    IF "config" \notin DOMAIN body THEN [r EXCEPT !.enabled = body.enabled]
    ELSE [enabled |-> body.enabled, host |-> body.config.host,
          password |-> IF body.config.password \in {Empty, Mask} THEN r.password ELSE body.config.password]

Store(p) ==
    /\ p.stage = "sent" /\ rows' = [rows EXCEPT ![p.key] = Stored(@, p.body)]
    /\ puts' = (puts \ {p}) \cup {[p EXCEPT !.stage = "done",
                                          !.answer = Public(Stored(rows[p.key], p.body))]}
    /\ UNCHANGED <<shown, modal, fields, email, baseline, bounds>>

\* The answer to a switch changes nothing more; to a dialog, its own row.
AnswerList(p) ==
    /\ p.stage = "done" /\ p.from = "list" /\ puts' = puts \ {p}
    /\ shown' = IF "config" \in DOMAIN p.body THEN [shown EXCEPT ![p.key] = [p.answer EXCEPT !.enabled = TRUE]]
                ELSE IF "close" \in DOMAIN p.body THEN [shown EXCEPT ![p.key].enabled = FALSE] ELSE shown
    /\ modal' = IF {"config", "close"} \cap DOMAIN p.body # {} THEN "none" ELSE modal
    /\ UNCHANGED <<rows, fields, email, baseline, bounds>>

\* A failed switch puts back the whole map; a failed dialog stays open.
FailList(p) ==
    /\ Fails /\ p.stage = "sent" /\ p.from = "list" /\ puts' = puts \ {p}
    /\ shown' = IF {"config", "close"} \cap DOMAIN p.body = {} THEN p.prev ELSE shown
    /\ UNCHANGED <<rows, modal, fields, email, baseline, bounds>>

\* The answer replaces the fields of "Email".
AnswerEmail(p) ==
    /\ p.stage = "done" /\ p.from = "email" /\ puts' = puts \ {p}
    /\ email' = [Unmasked(p.answer) EXCEPT !.enabled = email.enabled]
    /\ baseline' = [Unmasked(p.answer) EXCEPT !.enabled = p.body.enabled]
    /\ UNCHANGED <<rows, shown, modal, fields, bounds>>

FailEmail(p) ==
    /\ Fails /\ p.stage = "sent" /\ p.from = "email" /\ puts' = puts \ {p}
    /\ UNCHANGED <<rows, shown, modal, fields, email, baseline, bounds>>

Next ==
    \/ Load \/ Leave \/ CloseConfig \/ TypeConfig \/ SaveConfig \/ Disconnect
    \/ \E k \in Keys : Toggle(k) \/ OpenConfig(k)
    \/ LoadEmail \/ LeaveEmail \/ TypeEmail \/ ResetEmail \/ SaveEmail
    \/ \E p \in puts : Store(p) \/ AnswerList(p) \/ FailList(p) \/ AnswerEmail(p) \/ FailEmail(p)

Spec == Init /\ [][Next]_vars

-----------------------------------------------------------------------------
\* "Leave blank to keep the existing one": no save from either panel loses a password.
PasswordStays == \A k \in Keys : rows[k].password # Empty => rows'[k].password \in {rows[k].password, "new"}

\* "which of them are actually switched on": the list at rest, while only it is used.
ListIsStored == (shown # NotLoaded /\ puts = {} /\ email = NotLoaded) => \A k \in Others : shown[k] = Public(rows[k])

-----------------------------------------------------------------------------
\* Said in the sources and not so in the code: no run checks what follows, and
\* the README tells how each of them is broken.

\* "The header is the connection's status": Connected means mail leaves by the tenant's server.
HeaderIsSource == (email # NotLoaded /\ puts = {} /\ shown = NotLoaded) =>
                      (email.enabled /\ email.host # Empty => Source.of = "tenant")

\* "Deliver invoices and account emails through your own mail server": so does Connected in the list.
ConnectedIsSource == (shown # NotLoaded /\ puts = {} /\ email = NotLoaded) =>
                         (shown["smtp"].enabled => Source.of = "tenant")
=============================================================================
