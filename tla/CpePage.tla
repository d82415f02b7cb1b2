------------------------------ MODULE CpePage ------------------------------
(***************************************************************************)
(* The page of one CPE (components/tr069/Tr069DevicePage.jsx): what it      *)
(* shows of the row and its queue, the WiFi form it fills from the row, and *)
(* the orders it queues. The device applies the queue later and on its own  *)
(* (CpeTasks has the sessions); the row learns of it only by a read.        *)
(***************************************************************************)
EXTENDS Naturals, Sequences, FiniteSets

CONSTANTS
    Names,      \* network names
    MaxOrders,  \* bound: tasks the page queues
    Lossy       \* answers may be lost, requests may fail

CpePageAssumption == MaxOrders \in Nat /\ Lossy \in BOOLEAN

VARIABLES
    queue,      \* the tasks: [kind, ssid, pass, open]
    air,        \* the network name the device has
    known,      \* CpeDevice.ssid
    active,     \* CpeDevice.status is "active"
    dev,        \* the row as shown: {} while loading or after a failure
    shown,      \* the task list as shown: which indices are open
    form,       \* wifi: [ssid, pass]
    dialog,     \* the question asked: "none", "reboot", "reset"
    req,        \* the request out: [op, task, done], op "none" when idle
    retyped,    \* history: a password was typed since the last order answered
    nothing     \* history: "Nothing changed" was just told

vars == <<queue, air, known, active, dev, shown, form, dialog, req, retyped, nothing>>
server == <<queue, air, known, active>>
page == <<dev, shown, form, dialog, retyped>>

NoTask == [kind |-> "none", ssid |-> "none", pass |-> FALSE, open |-> FALSE]
Task == [kind : {"wifi", "reboot", "reset", "read", "none"},
         ssid : Names \cup {"none"}, pass : BOOLEAN, open : BOOLEAN]
Idle == [op |-> "none", task |-> NoTask, id |-> 0, done |-> FALSE]
Request(op, task, id) == [op |-> op, task |-> task, id |-> id, done |-> FALSE]
OpenIds(q) == {i \in DOMAIN q : q[i].open}

Init ==
    /\ queue = <<>>
    /\ air \in Names
    /\ known = air
    /\ active \in BOOLEAN
    /\ dev = {}
    /\ shown = {}
    /\ form = [ssid |-> "none", pass |-> FALSE]
    /\ dialog = "none"
    /\ req = Request("load", NoTask, 0)
    /\ retyped = FALSE
    /\ nothing = FALSE

\* The page is drawn (dev is known) and nothing it asked for is out: busy and
\* loading keep every button off.
Ready == dev # {} /\ req.op = "none" /\ dialog = "none"
ShownActive == \A d \in dev : d.active

\* runAction: busy, and the request is out.
Send(op, task, id) == req' = Request(op, task, id)

-----------------------------------------------------------------------------
(* The operator. *)

TypeName ==
    /\ Ready
    /\ \E n \in Names : form' = [form EXCEPT !.ssid = n]
    /\ nothing' = FALSE
    /\ UNCHANGED <<server, dev, shown, dialog, req, retyped>>

TypePassword ==
    /\ Ready
    /\ form' = [form EXCEPT !.pass = TRUE]
    /\ retyped' = TRUE
    /\ nothing' = FALSE
    /\ UNCHANGED <<server, dev, shown, dialog, req>>

\* The fields that go out: a name that differs from the one shown, a password
\* when there is one.
WifiTask ==
    LET ssid == IF form.ssid \in {d.ssid : d \in dev} THEN "none" ELSE form.ssid
    IN [kind |-> "wifi", ssid |-> ssid, pass |-> form.pass, open |-> TRUE]

SaveWifi ==
    /\ Ready /\ ShownActive
    /\ IF WifiTask.ssid = "none" /\ ~WifiTask.pass
         THEN nothing' = TRUE /\ UNCHANGED req
         ELSE nothing' = FALSE /\ Send("order", WifiTask, 0)
    /\ UNCHANGED <<server, page>>

Refresh ==
    /\ Ready /\ ShownActive
    /\ Send("order", [NoTask EXCEPT !.kind = "read", !.open = TRUE], 0)
    /\ nothing' = FALSE
    /\ UNCHANGED <<server, page>>

Ask ==
    /\ Ready /\ ShownActive
    /\ dialog' \in {"reboot", "reset"}
    /\ nothing' = FALSE
    /\ UNCHANGED <<server, dev, shown, form, req, retyped>>

AnswerDialog ==
    /\ dialog # "none"
    /\ dialog' = "none"
    /\ \/ UNCHANGED req
       \/ Send("order", [NoTask EXCEPT !.kind = dialog, !.open = TRUE], 0)
    /\ nothing' = FALSE
    /\ UNCHANGED <<server, dev, shown, form, retyped>>

CancelTask ==
    /\ Ready
    /\ \E i \in shown : Send("cancel", NoTask, i)
    /\ nothing' = FALSE
    /\ UNCHANGED <<server, page>>

-----------------------------------------------------------------------------
(* The server and the device. *)

\* Orders are refused unless the row is active, a cancellation unless the task
\* is still open; a read of the page needs nothing.
Accepted ==
    CASE req.op = "order"  -> active /\ Len(queue) < MaxOrders
      [] req.op = "cancel" -> queue[req.id].open
      [] OTHER -> TRUE

Serve ==
    /\ req.op # "none" /\ ~req.done /\ Accepted
    /\ req' = [req EXCEPT !.done = TRUE]
    /\ queue' = CASE req.op = "order"  -> Append(queue, req.task)
                  [] req.op = "cancel" -> [queue EXCEPT ![req.id].open = FALSE]
                  [] OTHER -> queue
    /\ UNCHANGED <<air, known, active, page, nothing>>

\* The oldest task is delivered: a setting changes the device and not the row,
\* a read brings the row up to date, a reset restores the factory's name.
Deliver ==
    /\ active /\ OpenIds(queue) # {}
    /\ LET i == CHOOSE j \in OpenIds(queue) : \A k \in OpenIds(queue) : j <= k
           t == queue[i]
       IN /\ queue' = [queue EXCEPT ![i].open = FALSE]
          /\ IF t.kind = "reset" THEN air' \in Names
             ELSE air' = IF t.kind = "wifi" /\ t.ssid # "none" THEN t.ssid ELSE air
          /\ known' = IF t.kind = "read" THEN air ELSE known
    /\ UNCHANGED <<active, page, req, nothing>>

\* Other operators approve or disable the device.
Other ==
    /\ active' = ~active
    /\ UNCHANGED <<queue, air, known, page, req, nothing>>

-----------------------------------------------------------------------------
(* The answers. *)

\* load hides the page and fills it, form included, from what it read.
StartLoad ==
    /\ req' = Request("load", NoTask, 0)
    /\ dev' = {}
    /\ UNCHANGED <<shown, form, dialog>>

Answered ==
    /\ req.done
    /\ CASE req.op = "order" -> StartLoad /\ retyped' = FALSE
         [] req.op = "cancel" ->
              /\ shown' = OpenIds(queue)
              /\ req' = Idle
              /\ UNCHANGED <<dev, form, dialog, retyped>>
         [] OTHER ->
              /\ dev' = {[ssid |-> known, active |-> active]}
              /\ shown' = OpenIds(queue)
              /\ form' = [ssid |-> known, pass |-> FALSE]
              /\ req' = Idle
              /\ UNCHANGED <<dialog, retyped>>
    /\ nothing' = FALSE
    /\ UNCHANGED server

\* Refused, or failed on the way there or back: only a toast, but a page that
\* was loading is left without a row.
Fails ==
    /\ req.op # "none"
    /\ Lossy \/ (~req.done /\ ~Accepted)
    /\ req' = Idle
    /\ nothing' = FALSE
    /\ UNCHANGED <<server, page>>

\* Only by opening the page anew does a row that failed to load come back.
Reopen ==
    /\ req.op = "none" /\ dialog = "none"
    /\ StartLoad
    /\ nothing' = FALSE
    /\ UNCHANGED <<server, retyped>>

Next ==
    \/ TypeName \/ TypePassword \/ SaveWifi \/ Refresh \/ Ask \/ AnswerDialog \/ CancelTask
    \/ Serve \/ Deliver \/ Other
    \/ Answered \/ Fails \/ Reopen

Spec == Init /\ [][Next]_vars

-----------------------------------------------------------------------------
TypeOK ==
    /\ queue \in Seq({t \in Task : t.kind # "none"}) /\ Len(queue) <= MaxOrders
    /\ {air, known} \subseteq Names
    /\ active \in BOOLEAN
    /\ dev \subseteq [ssid : Names, active : BOOLEAN] /\ Cardinality(dev) <= 1
    /\ shown \subseteq 1..MaxOrders
    /\ form \in [ssid : Names \cup {"none"}, pass : BOOLEAN]
    /\ dialog \in {"none", "reboot", "reset"}
    /\ req \in [op : {"none", "load", "order", "cancel"}, task : Task,
                id : 0..MaxOrders, done : BOOLEAN]
    /\ {retyped, nothing} \subseteq BOOLEAN

\* Every task still waiting that this page queued is in the list it shows and in
\* the banner's count, whenever the page is drawn and idle and every answer arrived.
WaitingIsShown == Ready => OpenIds(queue) \subseteq shown

\* A password goes out with one order: the form is blank once an order was
\* answered, so "leave blank to keep" is what a later change of name does.
PasswordGoesOnce ==
    \A i \in DOMAIN queue' \ DOMAIN queue : queue'[i].pass => retyped

-----------------------------------------------------------------------------
\* Said in the sources and not so in the code: no run checks what follows, and
\* the README tells how each of them is broken.

\* "Nothing changed" (Tr069DevicePage.jsx:127): the name in the form is the one
\* the device has, or will have once its queue is empty.
NothingChangedIsTrue ==
    nothing' /\ ~nothing =>
         LET named == {i \in OpenIds(queue) : queue[i].ssid # "none"}
         IN form.ssid = IF named = {} THEN air
                        ELSE queue[CHOOSE i \in named : \A j \in named : j <= i].ssid
=============================================================================
