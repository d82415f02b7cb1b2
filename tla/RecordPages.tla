---------------------------- MODULE RecordPages ----------------------------
(***************************************************************************)
(* The pages that list records of the server and work on one at a time:    *)
(* customers, routers, sessions, payments, tickets and the rest.  They are  *)
(* written alike and differ in a few choices.  A page is the record of its  *)
(* choices, those its functions make and those its screen makes; the steps  *)
(* below do what a page does that chose so.                                 *)
(***************************************************************************)
EXTENDS Naturals, Sequences, SequencesExt, FiniteSets, Functions, TLC

CONSTANTS
    Ordered,    \* answers arrive in the order of the requests
    Lossy,      \* requests may fail
    MaxOut, MaxOrders, MaxViews, MaxPolls   \* bounds

RecordPagesAssumption ==
    {Ordered, Lossy} \subseteq BOOLEAN /\ {MaxOut, MaxOrders, MaxViews, MaxPolls} \subseteq Nat

-----------------------------------------------------------------------------
\* What the functions of a page choose.  A list that is read whole and filtered
\* as it is shown, emptied by a failed read, and read again after an order.
List == [
    find |-> "here",        \* "asked": the filter is part of the request
    pause |-> FALSE,        \* a request waits for a timer that typing resets
    late |-> FALSE,         \* and the filter changes only then
    polls |-> FALSE,        \* read again by a timer
    again |-> {"rows"},     \* what turns during a further read: "rows", "icon"
    fails |-> {"empties"},  \* what a failed read does: "empties", "keeps", "leaves" the page
    does |-> {},            \* orders: flip, sync, test, remove, make, edit
    asks |-> {},            \* orders that are confirmed first
    marks |-> {},           \* orders that mark their row as busy
    after |-> "reads",      \* an order done is followed by a read, or "takes" its answer
    gone |-> "reads",       \* a removal: "reads", "drops" the row, "leaves" the page
    one |-> FALSE]          \* shows a single record

\* What the screen of a page chooses.
Screen == [
    hides |-> TRUE,     \* no rows while they are read
    off |-> {},         \* orders that are off on a busy row
    whole |-> FALSE,    \* and on every row
    form |-> TRUE,      \* a record is made in a form
    once |-> FALSE,     \* Save is off while it is under way
    stays |-> "no",     \* the question stays until the removal is "done", or "over"
    drawer |-> FALSE,   \* orders are given in the drawer of a row
    reload |-> "off"]   \* Refresh: "none", "free", "off" during a read

CustomersPage ==
    [List EXCEPT !.find = "asked", !.pause = TRUE, !.fails = {"keeps"},
                 !.does = {"flip", "remove"}, !.asks = {"remove"}, !.marks = {"flip"}]
CustomersScreen == [Screen EXCEPT !.off = {"flip"}, !.stays = "done"]

MikrotikPage ==
    [List EXCEPT !.does = {"sync", "test", "remove", "make"}, !.asks = {"remove"},
                 !.marks = {"sync", "test", "remove"}]
MikrotikScreen == [Screen EXCEPT !.off = {"sync", "test", "remove"}, !.once = TRUE]

OnlineUsersPage ==
    [List EXCEPT !.find = "asked", !.pause = TRUE, !.late = TRUE, !.polls = TRUE,
                 !.again = {"icon"}, !.fails = {"keeps"}, !.does = {"remove"}, !.marks = {"remove"}]
OnlineUsersScreen == [Screen EXCEPT !.off = {"remove"}]

CustomerKycPage ==
    [List EXCEPT !.find = "asked", !.pause = TRUE, !.does = {"flip", "remove"},
                 !.asks = {"remove"}, !.marks = {"flip", "remove"}]
CustomerKycScreen ==
    [Screen EXCEPT !.off = {"flip", "remove"}, !.whole = TRUE, !.drawer = TRUE]

DeviceDetailPage ==
    [List EXCEPT !.again = {}, !.fails = {"keeps"}, !.does = {"sync", "remove"},
                 !.asks = {"remove"}, !.marks = {"sync"}, !.gone = "leaves", !.one = TRUE]
DeviceDetailScreen == [Screen EXCEPT !.off = {"sync"}, !.whole = TRUE, !.reload = "none"]

FupMonitorPage ==
    [List EXCEPT !.find = "asked", !.pause = TRUE, !.late = TRUE, !.polls = TRUE,
                 !.again = {"icon"}, !.fails = {"keeps"}]
FupMonitorScreen == Screen

\* The dialog that collects a payment is InvoiceDesk's.
PaymentsPage == [List EXCEPT !.find = "asked", !.fails = {"keeps", "empties"}]
PaymentsScreen == Screen

\* The servers, and the peers of the one that is chosen, which catches no failure.
WireGuardServers ==
    [List EXCEPT !.fails = {"keeps"}, !.does = {"make"}]
WireGuardServersScreen == [Screen EXCEPT !.hides = FALSE, !.reload = "free"]
WireGuardPeers ==
    [List EXCEPT !.find = "asked", !.again = {}, !.fails = {"keeps"}, !.does = {"remove"},
                 !.asks = {"remove"}]
WireGuardPeersScreen == [Screen EXCEPT !.hides = FALSE, !.reload = "none"]

EquipmentPage ==
    [List EXCEPT !.does = {"make", "edit", "remove"}, !.asks = {"remove"}, !.gone = "dropsReads"]
EquipmentScreen == [Screen EXCEPT !.once = TRUE, !.reload = "none"]

TransactionsPage == [List EXCEPT !.fails = {"keeps", "empties"}]
TransactionsScreen == Screen

\* Read once, when the page opens.
VouchersPage == [List EXCEPT !.fails = {"keeps", "empties"}]
VouchersScreen == [Screen EXCEPT !.reload = "none"]

FinanceExpensesPage ==
    [List EXCEPT !.find = "asked", !.fails = {"keeps", "empties"}, !.does = {"make"}]
FinanceExpensesScreen == [Screen EXCEPT !.once = TRUE]

SubscriptionsPage ==
    [List EXCEPT !.find = "asked", !.pause = TRUE, !.fails = {"keeps", "empties"}]
SubscriptionsScreen == Screen

\* A check, a sync and an upgrade: what the router then runs is read again.
DeviceFirmwarePage == [List EXCEPT !.does = {"sync"}, !.marks = {"sync"}]
DeviceFirmwareScreen == [Screen EXCEPT !.off = {"sync"}]

DeviceStatusPage ==
    [List EXCEPT !.polls = TRUE, !.does = {"flip", "sync"}, !.marks = {"flip", "sync"}]
DeviceStatusScreen == [Screen EXCEPT !.off = {"flip", "sync"}]

RadiusPage ==
    [List EXCEPT !.find = "asked", !.pause = TRUE, !.fails = {"keeps"},
                 !.does = {"make", "edit", "remove", "test"}, !.asks = {"remove"}, !.marks = {"test"}]
RadiusScreen == [Screen EXCEPT !.off = {"test"}]

SystemUsersPage ==
    [List EXCEPT !.fails = {"keeps"}, !.does = {"flip", "make", "edit", "remove"},
                 !.asks = {"remove"}, !.marks = {"flip", "remove"}]
SystemUsersScreen == [Screen EXCEPT !.off = {"flip"}, !.once = TRUE, !.reload = "free"]

VpnPage ==
    [List EXCEPT !.fails = {"keeps"}, !.does = {"make", "edit", "remove"}, !.asks = {"remove"}]
VpnScreen == Screen

IspsPage ==
    [List EXCEPT !.find = "asked", !.pause = TRUE, !.does = {"make", "edit", "remove"},
                 !.asks = {"remove"}]
IspsScreen == [Screen EXCEPT !.once = TRUE]

\* The backups of the router that is chosen.
DeviceBackupPage ==
    [List EXCEPT !.find = "asked", !.does = {"make", "remove"}, !.asks = {"remove"}, !.gone = "drops"]
DeviceBackupScreen == [Screen EXCEPT !.hides = FALSE, !.form = FALSE, !.reload = "none"]

FinanceLeadsPage ==
    [List EXCEPT !.find = "asked", !.pause = TRUE, !.fails = {"keeps", "empties"}]
FinanceLeadsScreen == Screen

SnmpPage ==
    [List EXCEPT !.does = {"make", "edit", "remove", "test"}, !.asks = {"remove"}, !.marks = {"test"}]
SnmpScreen == [Screen EXCEPT !.off = {"test"}]

LdapPage ==
    [List EXCEPT !.does = {"make", "edit", "remove", "test"}, !.asks = {"remove"}, !.marks = {"test"}]
LdapScreen == [Screen EXCEPT !.off = {"test"}]

EapPage ==
    [List EXCEPT !.does = {"make", "edit", "remove", "test"}, !.asks = {"remove"}, !.marks = {"test"}]
EapScreen == [Screen EXCEPT !.off = {"test"}]

TicketsPage ==
    [List EXCEPT !.find = "asked", !.pause = TRUE, !.does = {"make"}]
TicketsScreen == [Screen EXCEPT !.once = TRUE, !.reload = "free"]

TicketDrawer ==
    [List EXCEPT !.again = {}, !.does = {"flip", "remove"}, !.asks = {"remove"},
                 !.after = "takes", !.gone = "leaves", !.one = TRUE]
TicketDrawerScreen == [Screen EXCEPT !.reload = "none"]

\* A customer: access is given and taken, a peer is made or sent to the router.
CustomerDetail ==
    [List EXCEPT !.fails = {"leaves"}, !.does = {"flip", "sync", "remove"}, !.asks = {"remove"},
                 !.marks = {"flip", "sync"}, !.gone = "leaves", !.one = TRUE]
CustomerDetailScreen ==
    [Screen EXCEPT !.off = {"flip", "sync"}, !.whole = TRUE, !.stays = "over", !.reload = "none"]

\* The ports of a router; which of them are watched is left out.
DevicePortsPanel ==
    [List EXCEPT !.fails = {"keeps"}, !.does = {"flip"}, !.marks = {"flip"}, !.after = "takes"]
DevicePortsScreen == [Screen EXCEPT !.hides = FALSE, !.off = {"flip"}]

AccessControlPage ==
    [List EXCEPT !.fails = {"keeps"}, !.does = {"make", "remove"}, !.asks = {"remove"},
                 !.marks = {"remove"}]
AccessControlScreen == [Screen EXCEPT !.off = {"remove"}, !.once = TRUE, !.reload = "free"]

AccountingPage ==
    [List EXCEPT !.find = "asked", !.pause = TRUE, !.late = TRUE, !.again = {}, !.fails = {"keeps"},
                 !.does = {"remove"}, !.asks = {"remove"}, !.marks = {"remove"}]
AccountingScreen == [Screen EXCEPT !.off = {"remove"}, !.reload = "free"]

\* Pages that only read: by themselves in time, on the page of a number, under
\* a word, or once more when told to.
SystemLogsPage ==
    [List EXCEPT !.find = "asked", !.pause = TRUE, !.late = TRUE, !.fails = {"keeps"}]
SystemLogsScreen == [Screen EXCEPT !.reload = "free"]
RadiusUsersPage ==
    [List EXCEPT !.find = "asked", !.pause = TRUE, !.late = TRUE, !.fails = {"keeps"}]
RadiusUsersScreen == [Screen EXCEPT !.reload = "free"]
RadiusGroupsPage == [List EXCEPT !.fails = {"keeps"}]
RadiusGroupsScreen == [Screen EXCEPT !.reload = "free"]
DeviceStatsPage == [List EXCEPT !.polls = TRUE, !.again = {}, !.fails = {"keeps"}]
DeviceStatsScreen == [Screen EXCEPT !.reload = "free"]
TrafficPage == [List EXCEPT !.polls = TRUE, !.again = {}, !.fails = {"keeps"}]
TrafficScreen == [Screen EXCEPT !.reload = "free"]
AlertsPage == [List EXCEPT !.polls = TRUE, !.again = {}, !.fails = {"keeps"}]
AlertsScreen == [Screen EXCEPT !.reload = "free"]
FinanceReportsPage == [List EXCEPT !.fails = {"keeps", "empties"}]
FinanceReportsScreen == Screen
\* The numbers of one router or of all: hidden during the first read alone.
Dashboard ==
    [List EXCEPT !.find = "asked", !.polls = TRUE, !.again = {"icon"}, !.fails = {"keeps", "empties"}]
DashboardScreen == [Screen EXCEPT !.hides = FALSE]

Page(logic, screen) == [logic |-> logic, screen |-> screen]
Pages ==
    {Page(CustomersPage, CustomersScreen), Page(MikrotikPage, MikrotikScreen),
     Page(OnlineUsersPage, OnlineUsersScreen), Page(CustomerKycPage, CustomerKycScreen),
     Page(DeviceDetailPage, DeviceDetailScreen), Page(FupMonitorPage, FupMonitorScreen),
     Page(PaymentsPage, PaymentsScreen), Page(WireGuardServers, WireGuardServersScreen),
     Page(WireGuardPeers, WireGuardPeersScreen), Page(EquipmentPage, EquipmentScreen),
     Page(TransactionsPage, TransactionsScreen), Page(VouchersPage, VouchersScreen),
     Page(FinanceExpensesPage, FinanceExpensesScreen), Page(SubscriptionsPage, SubscriptionsScreen),
     Page(DeviceFirmwarePage, DeviceFirmwareScreen), Page(DeviceStatusPage, DeviceStatusScreen),
     Page(RadiusPage, RadiusScreen), Page(SystemUsersPage, SystemUsersScreen),
     Page(VpnPage, VpnScreen), Page(IspsPage, IspsScreen), Page(DeviceBackupPage, DeviceBackupScreen),
     Page(FinanceLeadsPage, FinanceLeadsScreen), Page(SnmpPage, SnmpScreen),
     Page(LdapPage, LdapScreen), Page(EapPage, EapScreen), Page(TicketsPage, TicketsScreen),
     Page(TicketDrawer, TicketDrawerScreen),
     Page(CustomerDetail, CustomerDetailScreen), Page(DevicePortsPanel, DevicePortsScreen),
     Page(AccessControlPage, AccessControlScreen), Page(AccountingPage, AccountingScreen),
     Page(SystemLogsPage, SystemLogsScreen), Page(RadiusUsersPage, RadiusUsersScreen),
     Page(RadiusGroupsPage, RadiusGroupsScreen), Page(DeviceStatsPage, DeviceStatsScreen),
     Page(TrafficPage, TrafficScreen), Page(AlertsPage, AlertsScreen),
     Page(FinanceReportsPage, FinanceReportsScreen), Page(Dashboard, DashboardScreen)}

-----------------------------------------------------------------------------
VARIABLES
    page,       \* the page that is open: [logic, screen]
    held,       \* the server's records: id -> "on", "off"
    shown,      \* the records the page has
    view,       \* the filter typed or chosen: "all", "on"
    due,        \* {} or the filter still in force while the timer runs
    loading,    \* what turns: "rows" instead of the rows, "icon" beside them
    calls,      \* requests under way, oldest first
    busy,       \* the row marked as busy, 0 for none
    panel,      \* what lies over the page: [kind, row, was]
    tally       \* orders, filters and polls so far, forms opened, records made

vars == <<page, held, shown, view, due, loading, calls, busy, panel, tally>>

Logic == page.logic
Face == page.screen

None == [kind |-> "none", row |-> 0, was |-> "on"]
Left == [None EXCEPT !.kind = "left"]
Chosen(rs, v) == {r \in DOMAIN rs : (v = "all" \/ rs[r] = v) /\ (Logic.one => r = 1)}
Filtered(rs, v) == Restrict(rs, Chosen(rs, v))
Visible == IF Logic.find = "here" THEN Filtered(shown, view) ELSE shown
InForce == IF Logic.late /\ due # {} THEN CHOOSE v \in due : TRUE ELSE view

Call(kind, row, to, v, turns) ==
    [kind |-> kind, row |-> row, to |-> to, view |-> v, turns |-> turns,
     done |-> FALSE, ok |-> FALSE, rows |-> <<>>]
\* A read asks for the filter of the render its function was made in.
Load(v, turns) == Call("load", 0, "on", IF Logic.find = "here" THEN "all" ELSE v, turns)

Room == Len(calls) < MaxOut
Reads(v, turns) == calls' = Append(calls, Load(v, turns)) /\ loading' = loading \cup turns

Init ==
    /\ page \in Pages
    /\ held = (1 :> "on" @@ 2 :> "off") /\ shown = <<>>
    /\ view = "all" /\ due = {}
    /\ loading = {"rows"} /\ calls = <<Load("all", {"rows"})>>
    /\ busy = 0 /\ panel = None
    /\ tally = [orders |-> 0, views |-> 0, polls |-> 0, forms |-> 0, made |-> 0]

-----------------------------------------------------------------------------
\* A word in the search, a tab, a router in a list.
Choose ==
    /\ panel.kind = "none" /\ tally.views < MaxViews
    /\ view' = IF view = "all" THEN "on" ELSE "all"
    /\ tally' = [tally EXCEPT !.views = @ + 1]
    /\ IF Logic.find = "here" THEN UNCHANGED <<due, loading, calls>>
       ELSE IF Logic.pause THEN due' = {InForce} /\ UNCHANGED <<loading, calls>>
       ELSE Room /\ Reads(view', IF Face.hides THEN {"rows"} ELSE Logic.again) /\ UNCHANGED due
    /\ UNCHANGED <<page, held, shown, busy, panel>>

Pause ==
    /\ due # {} /\ Room /\ panel.kind # "left"
    /\ due' = {}
    /\ Reads(view, {"rows"})
    /\ UNCHANGED <<page, held, shown, view, busy, panel, tally>>

Refresh ==
    /\ Face.reload # "none" /\ Room /\ panel.kind = "none"
    /\ Face.reload = "off" => loading \cap Logic.again = {}
    /\ tally.polls < MaxPolls /\ tally' = [tally EXCEPT !.polls = @ + 1]
    /\ Reads(InForce, Logic.again)
    /\ UNCHANGED <<page, held, shown, view, due, busy, panel>>

Poll ==
    /\ Logic.polls /\ Room
    /\ tally.polls < MaxPolls /\ tally' = [tally EXCEPT !.polls = @ + 1]
    /\ Reads(InForce, Logic.again)
    /\ UNCHANGED <<page, held, shown, view, due, busy, panel>>

\* The drawer of a row, and closing whatever is open.
OpenDrawer(r) ==
    /\ Face.drawer /\ panel.kind = "none" /\ r \in DOMAIN Visible
    /\ Face.hides => "rows" \notin loading
    /\ panel' = [kind |-> "drawer", row |-> r, was |-> Visible[r]]
    /\ UNCHANGED <<page, held, shown, view, due, loading, calls, busy, tally>>

Stays == Face.stays # "no"
UnderWay(kinds) == \E i \in DOMAIN calls : calls[i].kind \in kinds

Dismiss ==
    /\ panel.kind \in {"drawer", "form", "sure"}
    /\ panel.kind = "sure" /\ Stays => ~UnderWay({"remove"})
    /\ panel' = IF panel.kind = "sure" /\ Face.drawer
                  THEN [panel EXCEPT !.kind = "drawer"] ELSE None
    /\ UNCHANGED <<page, held, shown, view, due, loading, calls, busy, tally>>

-----------------------------------------------------------------------------
Locked(r) == IF Face.whole THEN busy # 0 ELSE busy = r

Order(kind, r, to) ==
    /\ Room /\ tally.orders < MaxOrders
    /\ tally' = [tally EXCEPT !.orders = @ + 1]
    /\ calls' = Append(calls, Call(kind, r, to, InForce, {}))
    /\ busy' = IF kind \in Logic.marks THEN r ELSE busy

Flipped(s) == IF s = "on" THEN "off" ELSE "on"

\* A button of a row.  A switch sends the opposite of what its row showed.
Press(kind, r) ==
    /\ kind \in Logic.does \cap {"flip", "sync", "test", "remove"}
    /\ r \in DOMAIN Visible /\ (Face.hides => "rows" \notin loading)
    /\ IF Face.drawer THEN panel.kind = "drawer" /\ panel.row = r ELSE panel.kind = "none"
    /\ kind \in Face.off => ~Locked(r)
    /\ IF kind \in Logic.asks
         THEN panel' = [kind |-> "sure", row |-> r, was |-> Visible[r]]
              /\ UNCHANGED <<calls, busy, tally>>
         ELSE Order(kind, r, Flipped(Visible[r])) /\ UNCHANGED panel
    /\ UNCHANGED <<page, held, shown, view, due, loading>>

Confirm ==
    /\ panel.kind = "sure"
    /\ Stays => ~UnderWay({"remove"})
    /\ Order("remove", panel.row, "off")
    /\ panel' = IF Stays THEN panel
                ELSE IF Face.drawer THEN [panel EXCEPT !.kind = "drawer"] ELSE None
    /\ UNCHANGED <<page, held, shown, view, due, loading>>

\* The form of a new record, or of one as it was shown.
OpenForm(r) ==
    /\ Face.form /\ panel.kind = "none"
    /\ IF r = 0 THEN "make" \in Logic.does
       ELSE "edit" \in Logic.does /\ r \in DOMAIN Visible /\ (Face.hides => "rows" \notin loading)
    /\ tally.forms < MaxOrders /\ tally.orders < MaxOrders
    /\ tally' = [tally EXCEPT !.forms = @ + (IF r = 0 THEN 1 ELSE 0)]
    /\ panel' = [kind |-> "form", row |-> r, was |-> IF r = 0 THEN "on" ELSE Visible[r]]
    /\ UNCHANGED <<page, held, shown, view, due, loading, calls, busy>>

Submit ==
    /\ panel.kind = "form"
    /\ Face.once => ~UnderWay({"make", "edit"})
    /\ Order(IF panel.row = 0 THEN "make" ELSE "edit", panel.row, panel.was)
    /\ UNCHANGED <<page, held, shown, view, due, loading, panel>>

\* A record is made at the press of a button.
Make ==
    /\ ~Face.form /\ "make" \in Logic.does /\ panel.kind = "none"
    /\ Order("make", 0, "on")
    /\ UNCHANGED <<page, held, shown, view, due, loading, panel>>

-----------------------------------------------------------------------------
\* The server's part of a request: routes/equipment.py, in whose place the other records
\* have handlers of their own.  What one of them checks and refuses is a request that fails
\* before it is served.
Serve(i) ==
    LET c == calls[i]
        there == c.row \in DOMAIN held
        served(ok, rs) == calls' = [calls EXCEPT ![i].done = TRUE, ![i].ok = ok, ![i].rows = rs]
    IN /\ ~c.done
       /\ \/ /\ c.kind = "load" /\ served(TRUE, Filtered(held, c.view))
             /\ UNCHANGED <<held, tally>>
          \/ c.kind = "test" /\ served(there, <<>>) /\ UNCHANGED <<held, tally>>
          \/ c.kind \in {"flip", "edit"} /\ there
             /\ held' = [held EXCEPT ![c.row] = c.to]
             /\ served(TRUE, c.row :> c.to) /\ UNCHANGED tally
          \/ c.kind = "sync" /\ there
             /\ \E s \in {"on", "off"} : held' = [held EXCEPT ![c.row] = s]
             /\ served(TRUE, <<>>) /\ UNCHANGED tally
          \/ c.kind = "remove" /\ there
             /\ held' = Restrict(held, DOMAIN held \ {c.row})
             /\ served(TRUE, <<>>) /\ UNCHANGED tally
          \/ c.kind = "make"
             /\ held' = (3 + tally.made) :> "on" @@ held
             /\ tally' = [tally EXCEPT !.made = @ + 1] /\ served(TRUE, <<>>)
          \/ c.kind \in {"flip", "edit", "sync", "remove"} /\ ~there
             /\ served(FALSE, <<>>) /\ UNCHANGED <<held, tally>>
       /\ UNCHANGED <<page, shown, view, due, loading, busy, panel>>

Arrived(i) == (Ordered => i = 1) /\ panel.kind # "left"
Over(c) == IF c.kind \in Logic.marks THEN 0 ELSE busy

\* Whatever read is answered last is what is shown, and any ends the turning.
LoadAnswered(i) ==
    /\ Arrived(i) /\ calls[i].kind = "load" /\ calls[i].done
    /\ shown' = calls[i].rows /\ loading' = {}
    /\ calls' = RemoveAt(calls, i)
    /\ UNCHANGED <<page, held, view, due, busy, panel, tally>>

LoadFailed(i) ==
    /\ Lossy /\ Arrived(i) /\ calls[i].kind = "load"
    /\ \E f \in Logic.fails :
         /\ shown' = IF f = "empties" THEN <<>> ELSE shown
         /\ panel' = IF f = "leaves" THEN Left ELSE panel
    /\ loading' = {}
    /\ calls' = RemoveAt(calls, i)
    /\ UNCHANGED <<page, held, view, due, busy, tally>>

\* What an order that was done leaves on the page.
Panel(c) ==
    IF c.kind = "remove" /\ Logic.gone = "leaves" THEN Left
    ELSE IF c.kind \in {"make", "edit"} /\ panel.kind = "form" THEN None
    ELSE IF c.kind = "remove" /\ Stays THEN None
    ELSE IF Face.drawer THEN [kind |-> "drawer", row |-> c.row, was |-> c.to]
    ELSE panel
Kept(c) ==
    IF c.kind = "remove" /\ Logic.gone \in {"drops", "dropsReads"}
      THEN Restrict(shown, DOMAIN shown \ {c.row})
    ELSE IF c.kind = "flip" /\ Logic.after = "takes" THEN c.rows @@ shown
    ELSE shown
ReadsAgain(c) ==
    /\ c.kind # "test"
    /\ c.kind = "remove" => Logic.gone \in {"reads", "dropsReads"}
    /\ c.kind = "flip" => Logic.after = "reads"

OrderAnswered(i) ==
    LET c == calls[i] IN
    /\ Arrived(i) /\ c.kind # "load" /\ c.done /\ c.ok
    /\ busy' = Over(c) /\ panel' = Panel(c) /\ shown' = Kept(c)
    /\ IF ReadsAgain(c)
         THEN /\ calls' = Append(RemoveAt(calls, i), Load(c.view, Logic.again))
              /\ loading' = loading \cup Logic.again
         ELSE calls' = RemoveAt(calls, i) /\ UNCHANGED loading
    /\ UNCHANGED <<page, held, view, due, tally>>

\* A refusal is told; a form stays open, and a question that does not close with it.
OrderFailed(i) ==
    LET c == calls[i] IN
    /\ Arrived(i) /\ c.kind # "load" /\ ((c.done /\ ~c.ok) \/ Lossy)
    /\ busy' = Over(c)
    /\ calls' = RemoveAt(calls, i)
    /\ panel' = IF c.kind = "remove" /\ Face.stays = "over" THEN None ELSE panel
    /\ UNCHANGED <<page, held, shown, view, due, loading, tally>>

Next ==
    \/ Choose \/ Pause \/ Refresh \/ Poll \/ Dismiss \/ Confirm \/ Submit \/ Make
    \/ \E r \in DOMAIN Visible : OpenDrawer(r)
    \/ \E r \in DOMAIN Visible, kind \in Logic.does : Press(kind, r)
    \/ \E r \in DOMAIN Visible \cup {0} : OpenForm(r)
    \/ \E i \in DOMAIN calls :
         Serve(i) \/ LoadAnswered(i) \/ LoadFailed(i) \/ OrderAnswered(i) \/ OrderFailed(i)

Spec == Init /\ [][Next]_vars

-----------------------------------------------------------------------------
Records == 1..(2 + MaxOrders)
IsRows(rs) == DOMAIN rs \subseteq Records /\ \A r \in DOMAIN rs : rs[r] \in {"on", "off"}

\* The variables have their types; and the marks are never left behind: rows
\* are hidden only while a read is under way and a row is marked as busy only
\* while its order is.
TypeOK ==
    /\ page \in Pages /\ IsRows(held) /\ IsRows(shown)
    /\ view \in {"all", "on"} /\ due \subseteq {"all", "on"}
    /\ "rows" \in loading => UnderWay({"load"})
    /\ busy # 0 => \E i \in DOMAIN calls : calls[i].row = busy /\ calls[i].kind \in Logic.marks

\* With nothing under way a page shows what the server holds under its filter:
\* every order is followed by a read, or leaves on the page what it did to the
\* record.  This is of pages that filter what they have, or give no orders, and
\* do not mix answers taken with reads.
ShownIsHeld ==
    calls = <<>> /\ due = {} /\ panel.kind # "left"
        /\ (Logic.find = "here" \/ Logic.does \subseteq {"test"})
        /\ (Logic.after = "reads" \/ Face.reload = "none")
        => Visible = Filtered(held, view)

\* Where Save is off while it is under way, a form makes one record at most.
OneRecordPerForm == Face.once => tally.made <= tally.forms

-----------------------------------------------------------------------------
\* Said in the sources and not so in the code: no run checks what follows, and
\* the README tells how each of them is broken.

\* The same of every page, those that ask for what they show under a filter.
ShownIsAlwaysHeld == calls = <<>> /\ due = {} /\ panel.kind # "left" => Visible = Filtered(held, view)

\* And of every form: one press too many makes no second record.
OneRecordOfAnyForm == Face.form => tally.made <= tally.forms

\* CustomerKycPage: a drawer stays the one of the row it was opened for.
DrawerStays == [][panel.kind = "drawer" /\ panel'.kind = "drawer" => panel'.row = panel.row]_vars
=============================================================================
