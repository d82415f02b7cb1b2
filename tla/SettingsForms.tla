--------------------------- MODULE SettingsForms ---------------------------
(***************************************************************************)
(* The tabs of the settings and the forms of one record: text that is      *)
(* saved by a button, switches that are saved as they are turned.  What    *)
(* differs from tab to tab is when a text counts as changed, what the      *)
(* answer of a save does to the form, and how a switch is turned back that *)
(* the server refused.  A tab is the record of its choices.                *)
(***************************************************************************)
EXTENDS Naturals, Sequences, SequencesExt

CONSTANTS
    Ordered,    \* answers arrive in the order of the requests
    Refusals,   \* the server may refuse a request
    Patient,    \* a switch is turned only with nothing under way
    MaxOut, MaxEdits, MaxSaves, MaxTurns   \* bounds

SettingsFormsAssumption ==
    {Ordered, Refusals, Patient} \subseteq BOOLEAN /\ {MaxOut, MaxEdits, MaxSaves, MaxTurns} \subseteq Nat

-----------------------------------------------------------------------------
\* Text with a Save that is always there, read once: without it, no form.
Tab == [
    saved |-> {},       \* a save done: it is the "rebase", its answer "takes" the form,
                        \* the tab "loads" again or "leaves"
    bar |-> FALSE,      \* Save and Reset are there only for a text that was changed
    blank |-> FALSE,    \* the form is shown, blank, after a first read that failed
    parts |-> 1,        \* requests of a save, one after the other; 0: nothing to save
    skips |-> FALSE,    \* the first is left out if its part was not changed
    undo |-> "none",    \* a switch refused: back to its own "value", to the "whole"
                        \* as it was at the click, or by a "reload"
    lock |-> FALSE,     \* the switch turned last is locked until its answer
    adds |-> FALSE,     \* the switches are a list: rows are added and removed
    also |-> FALSE]     \* something else is ordered here, and all is read again

\* The logo, which goes up by itself, is left out.
GeneralSettings == Tab
\* The password and the code of a second factor are left out.
AccountSettings == Tab
\* Host, ports and secret, and the switches of accounting.
RadiusSettings == [Tab EXCEPT !.blank = TRUE, !.undo = "whole"]
RadiusNas == [Tab EXCEPT !.parts = 0, !.blank = TRUE, !.undo = "whole", !.adds = TRUE]
NotificationsSettings == [Tab EXCEPT !.bar = TRUE, !.saved = {"rebase"}]
AiAssistantSettings == [Tab EXCEPT !.bar = TRUE, !.saved = {"loads"}]
OperatorAlertsSettings ==
    [Tab EXCEPT !.bar = TRUE, !.saved = {"rebase", "loads"}, !.parts = 2, !.also = TRUE]
LoyaltySettings == [Tab EXCEPT !.bar = TRUE, !.blank = TRUE, !.saved = {"takes", "loads"}]
EmailSettings == [Tab EXCEPT !.bar = TRUE, !.blank = TRUE, !.saved = {"takes"}]
\* The layout of the portal, its color and its address; announcements are ordered.
CaptivePortalSettings == [Tab EXCEPT !.undo = "value", !.also = TRUE]
\* The layout per router.
CaptiveRouters == [Tab EXCEPT !.parts = 0, !.undo = "reload", !.also = TRUE]
ApiKeysSettings == RadiusNas
ModulesSettings == [Tab EXCEPT !.parts = 0, !.undo = "whole", !.lock = TRUE]
\* A custom domain; the address of the account is DomainAddress.
CustomDomain == [Tab EXCEPT !.saved = {"takes"}]
\* Access is switched by a request of its own, before the rest is saved.
CustomerEdit == [Tab EXCEPT !.saved = {"leaves"}, !.parts = 2, !.skips = TRUE]
ClientEdit == CustomerEdit

Tabs == {GeneralSettings, AccountSettings, RadiusSettings, RadiusNas, NotificationsSettings,
         AiAssistantSettings, OperatorAlertsSettings, LoyaltySettings, EmailSettings,
         CaptivePortalSettings, CaptiveRouters, ApiKeysSettings, ModulesSettings, CustomDomain,
         CustomerEdit, ClientEdit}

-----------------------------------------------------------------------------
VARIABLES
    tab,        \* the tab that is open
    stored,     \* what the server holds: [text, on]
    form,       \* the text typed
    base,       \* the text it is compared with
    on,         \* the switches shown as on, the rows shown
    stage,      \* "reading", "ready", "blank", "stuck", "left"
    saving,     \* the mark of Save
    locked,     \* the switch that is locked, 0 for none
    calls,      \* requests under way, oldest first
    tally       \* edits, saves and turns so far, rows added

vars == <<tab, stored, form, base, on, stage, saving, locked, calls, tally>>

\* A text is in two parts, those a save of two requests sends apart.
Blank == <<"", "">>
Call(kind, part, text, s, to) ==
    [kind |-> kind, part |-> part, text |-> text, s |-> s, to |-> to, was |-> on,
     done |-> FALSE, ok |-> FALSE, read |-> [text |-> Blank, on |-> {}]]
Load == [Call("load", 1, Blank, 0, FALSE) EXCEPT !.was = {}]

Init ==
    /\ tab \in Tabs
    /\ stored = [text |-> <<"x", "x">>, on |-> {1}]
    /\ form = Blank /\ base = Blank /\ on = {} /\ stage = "reading"
    /\ saving = FALSE /\ locked = 0 /\ calls = <<Load>>
    /\ tally = [edits |-> 0, saves |-> 0, turns |-> 0, added |-> 0]

Open == stage \in {"ready", "blank"}
Room == Len(calls) < MaxOut
Waits == Patient => calls = <<>>

\* Faulty variant: a form that was never read counts as changed.
DirtyUnread == form # base

Dirty == stage = "ready" /\ form # base

-----------------------------------------------------------------------------
Type(p) ==
    /\ Open /\ p <= tab.parts /\ tally.edits < MaxEdits
    /\ form' = [form EXCEPT ![p] = IF @ = "y" THEN "x" ELSE "y"]
    /\ tally' = [tally EXCEPT !.edits = @ + 1]
    /\ UNCHANGED <<tab, stored, base, on, stage, saving, locked, calls>>

Reset ==
    /\ Open /\ tab.bar /\ Dirty /\ ~saving
    /\ form' = base
    /\ UNCHANGED <<tab, stored, base, on, stage, saving, locked, calls, tally>>

Save ==
    /\ Open /\ ~saving /\ tab.parts > 0 /\ Room /\ (tab.bar => Dirty) /\ tally.saves < MaxSaves
    /\ saving' = TRUE
    /\ LET part == IF tab.skips /\ form[1] = base[1] THEN 2 ELSE 1
       IN calls' = Append(calls, Call("save", part, form, 0, FALSE))
    /\ tally' = [tally EXCEPT !.saves = @ + 1]
    /\ UNCHANGED <<tab, stored, form, base, on, stage, locked>>

\* A switch is shown as it was turned at once, a row is gone at once.
Turn(s) ==
    /\ Open /\ tab.undo # "none" /\ Room /\ Waits /\ tally.turns < MaxTurns
    /\ (tab.adds => s \in on) /\ (tab.lock => locked # s)
    /\ LET to == s \notin on
       IN /\ on' = IF to THEN on \cup {s} ELSE on \ {s}
          /\ calls' = Append(calls, Call("turn", 1, Blank, s, to))
    /\ locked' = IF tab.lock THEN s ELSE locked
    /\ tally' = [tally EXCEPT !.turns = @ + 1]
    /\ UNCHANGED <<tab, stored, form, base, stage, saving>>

\* A row is shown with its answer.  Here too what else a tab orders.
Order(kind) ==
    /\ Open /\ Room /\ Waits /\ tally.turns < MaxTurns
    /\ IF kind = "add" THEN tab.adds ELSE kind = "also" /\ tab.also
    /\ calls' = Append(calls, Call(kind, 1, Blank, 0, FALSE))
    /\ tally' = [tally EXCEPT !.turns = @ + 1]
    /\ UNCHANGED <<tab, stored, form, base, on, stage, saving, locked>>

-----------------------------------------------------------------------------
\* What the server holds after a request.
Done(c) ==
    CASE c.kind = "save" ->
           [stored EXCEPT !.text = IF tab.parts = 1 THEN c.text
                                   ELSE [@ EXCEPT ![c.part] = c.text[c.part]]]
      [] c.kind = "turn" -> [stored EXCEPT !.on = IF c.to THEN @ \cup {c.s} ELSE @ \ {c.s}]
      [] c.kind = "add" -> [stored EXCEPT !.on = @ \cup {3 + tally.added}]
      [] OTHER -> stored

Serve(i) ==
    LET c == calls[i]
        gone == c.kind = "turn" /\ tab.adds /\ c.s \notin stored.on
    IN /\ ~c.done
       /\ \/ /\ ~gone
             /\ stored' = Done(c)
             /\ calls' = [calls EXCEPT ![i] =
                   [c EXCEPT !.done = TRUE, !.ok = TRUE, !.read = stored',
                             !.s = IF c.kind = "add" THEN 3 + tally.added ELSE @]]
             /\ tally' = [tally EXCEPT !.added = @ + (IF c.kind = "add" THEN 1 ELSE 0)]
          \/ /\ Refusals \/ gone
             /\ calls' = [calls EXCEPT ![i] = [c EXCEPT !.done = TRUE]]
             /\ UNCHANGED <<stored, tally>>
       /\ UNCHANGED <<tab, form, base, on, stage, saving, locked>>

Arrived(i, kind) ==
    (Ordered => i = 1) /\ stage # "left" /\ calls[i].kind = kind /\ calls[i].done
Rest(i) == RemoveAt(calls, i)

LoadAnswered(i) ==
    LET c == calls[i] IN
    /\ Arrived(i, "load")
    /\ calls' = Rest(i)
    /\ IF c.ok
         THEN form' = c.read.text /\ base' = c.read.text /\ on' = c.read.on /\ stage' = "ready"
         ELSE /\ stage' = IF stage # "reading" THEN stage ELSE IF tab.blank THEN "blank" ELSE "stuck"
              /\ UNCHANGED <<form, base, on>>
    /\ UNCHANGED <<tab, stored, saving, locked, tally>>

\* Faulty variant: what is typed by now becomes the base, not what was saved.
BaseTyped(c) ==
    IF "rebase" \in tab.saved THEN form ELSE IF "takes" \in tab.saved THEN c.read.text ELSE base

\* The text of the click is the new base, or the answer is.
Base(c) ==
    IF "rebase" \in tab.saved THEN c.text ELSE IF "takes" \in tab.saved THEN c.read.text ELSE base

SaveAnswered(i) ==
    LET c == calls[i] IN
    /\ Arrived(i, "save")
    /\ IF c.ok /\ c.part < tab.parts
         THEN /\ calls' = Append(Rest(i), Call("save", 2, c.text, 0, FALSE))
              /\ UNCHANGED <<form, base, stage, saving>>
         ELSE /\ saving' = FALSE
              /\ calls' = IF c.ok /\ "loads" \in tab.saved THEN Append(Rest(i), Load) ELSE Rest(i)
              /\ base' = IF c.ok THEN Base(c) ELSE base
              /\ form' = IF c.ok /\ "takes" \in tab.saved THEN c.read.text ELSE form
              /\ stage' = IF c.ok /\ "leaves" \in tab.saved THEN "left" ELSE stage
    /\ UNCHANGED <<tab, stored, on, locked, tally>>

\* Faulty variant: a switch that was refused stays as it was turned.
UndoneNot(c) == on

\* Back to how the switch was, or all switches were, when it was turned.
Undone(c) ==
    CASE tab.undo = "value" -> IF c.to THEN on \ {c.s} ELSE on \cup {c.s}
      [] tab.undo = "whole" -> c.was
      [] OTHER -> on

TurnAnswered(i) ==
    LET c == calls[i] IN
    /\ Arrived(i, "turn")
    /\ locked' = 0
    /\ on' = IF c.ok THEN on ELSE Undone(c)
    /\ calls' = IF ~c.ok /\ tab.undo = "reload" THEN Append(Rest(i), Load) ELSE Rest(i)
    /\ UNCHANGED <<tab, stored, form, base, stage, saving, tally>>

OrderAnswered(i) ==
    LET c == calls[i] IN
    /\ Arrived(i, "add") \/ Arrived(i, "also")
    /\ on' = IF c.ok /\ c.kind = "add" THEN on \cup {c.s} ELSE on
    /\ calls' = IF c.ok /\ c.kind = "also" THEN Append(Rest(i), Load) ELSE Rest(i)
    /\ UNCHANGED <<tab, stored, form, base, stage, saving, locked, tally>>

Next ==
    \/ \E p \in {1, 2} : Type(p)
    \/ \E s \in on \cup {1, 2} : Turn(s)
    \/ \E kind \in {"add", "also"} : Order(kind)
    \/ Reset \/ Save
    \/ \E i \in DOMAIN calls :
         Serve(i) \/ LoadAnswered(i) \/ SaveAnswered(i) \/ TurnAnswered(i) \/ OrderAnswered(i)

Spec == Init /\ [][Next]_vars

-----------------------------------------------------------------------------
Under(kind) == \E i \in DOMAIN calls : calls[i].kind = kind

\* The variables have their types; and Save turns while its request is under
\* way and no longer, a switch is locked only while its own is.
TypeOK ==
    /\ tab \in Tabs /\ {stored.text, form, base} \subseteq {"", "x", "y"} \X {"", "x", "y"}
    /\ stored.on \cup on \subseteq 1..(2 + MaxTurns)
    /\ stage \in {"reading", "ready", "blank", "stuck", "left"}
    /\ saving <=> Under("save")
    /\ locked # 0 => Under("turn")

\* Where Save comes and goes with a change, a text that does not count as
\* changed is the one the server holds, refusals included: this is of the tabs
\* that learn from a save what is stored, and save in one request.
UnchangedIsStored ==
    calls = <<>> /\ stage = "ready" /\ tab.bar /\ tab.parts = 1
        /\ tab.saved \cap {"rebase", "takes"} # {} /\ ~Dirty
        => form = stored.text

\* Switches turned one at a time are at rest shown as the server has them,
\* whatever it refused, if the tab undoes them by itself.
SwitchesAreStored ==
    Patient /\ calls = <<>> /\ stage = "ready" /\ tab.undo # "reload" => on = stored.on

\* A first read that failed saves no blanks over what was stored: the form is
\* not shown, or offers no Save.  RadiusSettings is left out.
NothingBlankIsSaved == (tab.blank => tab.bar) => "" \notin {stored.text[1], stored.text[2]}

-----------------------------------------------------------------------------
\* Said in the sources and not so in the code: no run checks what follows, and
\* the README tells how each of them is broken.

\* The same of all tabs with the bar, those that save in two requests or learn
\* what is stored only from a further read.
UnchangedIsAlwaysStored ==
    calls = <<>> /\ stage = "ready" /\ tab.bar /\ ~Dirty => form = stored.text

\* "optimistic, with rollback": switches are at rest as the server has them,
\* turned in whatever order.
SwitchesAreAlwaysStored == calls = <<>> /\ stage = "ready" => on = stored.on

\* And of every form: a read that failed saves nothing.
BlankIsNeverSaved == "" \notin {stored.text[1], stored.text[2]}

\* What is typed while a save or a read is under way stays in the form.
TypedIsKept ==
    [][(\E i \in DOMAIN calls : SaveAnswered(i) \/ LoadAnswered(i)) /\ stage = "ready"
           => form' = form \/ form = stored.text]_vars
=============================================================================
