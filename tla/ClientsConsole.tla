--------------------------- MODULE ClientsConsole ---------------------------
(***************************************************************************)
(* ClientsPage: the list of subscribers under a type and a status, its     *)
(* rows read in pages that answer in any order, and deleting many of them  *)
(* at once, which the server does only for as many as were agreed to.      *)
(* Search narrows the list as a status does, and is folded into it.        *)
(***************************************************************************)
EXTENDS Naturals, FiniteSets

CONSTANTS Clients,     \* numbers: the newest subscriber is the largest
          TypeOf,      \* the connection type of each
          Offered,     \* the statuses it can be narrowed to
          PageSize,    \* rows of a page
          TypingFrom,  \* a selection of this many is confirmed by typing
          MaxLoads,    \* bound: reads of the list under way
          MaxEvents    \* bound: changes from elsewhere

VARIABLES
    db,        \* server: the status of each client, or gone
    events,    \* changes from elsewhere so far
    view,      \* connectionType and statusFilter
    list,      \* clients and totalMatching
    loading,   \* the spinner in place of the rows
    due,       \* the timer of the next read
    flights,   \* reads under way
    selected,  \* selectedIds
    everything,\* selectAllMatching
    asked,     \* the deletion being confirmed, as its handler sees it
    bulk       \* the bulk deletion under way, and its answer

pageVars == <<view, list, loading, due, flights, selected, everything, asked, bulk>>
vars == <<db, events, pageVars>>

Types == {TypeOf[c] : c \in Clients}
Statuses == {"active", "suspended"}
Views == [type : Types \cup {"all"}, status : Offered \cup {"all"}]
Whole == [type |-> "all", status |-> "all"]

ClientsAssumption ==
    /\ Clients \subseteq Nat /\ IsFiniteSet(Clients) /\ DOMAIN TypeOf = Clients /\ {PageSize, TypingFrom} \subseteq Nat \ {0}
    /\ Offered \subseteq Statuses /\ {MaxLoads, MaxEvents} \subseteq Nat

Fits(c, v) == /\ v.type \in {"all", TypeOf[c]}
              /\ v.status \in {"all", db[c]}
Present == {c \in Clients : db[c] # "gone"}
Matching(v) == {c \in Present : Fits(c, v)}

\* The newest PageSize of them, with their status.
Page(v) ==
    LET all == Matching(v)
    IN  {[id |-> c, status |-> db[c]] : c \in {d \in all : Cardinality({e \in all : e > d}) < PageSize}}

List == [rows : SUBSET [id : Clients, status : Statuses], total : 0 .. Cardinality(Clients)]
NoList == [rows |-> {}, total |-> 0]
Deletion == [ids : SUBSET Clients, filtered : BOOLEAN, view : Views,
             count : 0 .. Cardinality(Clients), typed : BOOLEAN]
NoDeletion == [ids |-> {}, filtered |-> FALSE, view |-> Whole, count |-> 0, typed |-> FALSE]

TypeOK ==
    /\ db \in [Clients -> Statuses \cup {"gone"}] /\ events \in 0 .. MaxEvents
    /\ view \in Views /\ list \in List /\ loading \in BOOLEAN /\ due \in BOOLEAN
    /\ flights \subseteq [served : BOOLEAN, of : Views, list : List] /\ Cardinality(flights) <= MaxLoads
    /\ selected \subseteq Clients /\ everything \in BOOLEAN
    /\ asked \in Deletion /\ bulk \in [at : {"none", "sent", "done", "refused"}, of : Deletion]
    /\ asked # NoDeletion => bulk.at = "none"
    /\ everything => selected # {}

Init ==
    /\ db \in [Clients -> Statuses \cup {"gone"}] /\ events = 0
    /\ view = Whole /\ list = NoList /\ loading = TRUE /\ due = TRUE /\ flights = {}
    /\ selected = {} /\ everything = FALSE /\ asked = NoDeletion
    /\ bulk = [at |-> "none", of |-> NoDeletion]

-----------------------------------------------------------------------------
\* Reading the list: the timer of the effect, or a call of loadClients.
Request == flights \cup {[served |-> FALSE, of |-> view, list |-> NoList]}

Load ==
    /\ due /\ due' = FALSE /\ Cardinality(flights) < MaxLoads
    /\ flights' = Request /\ loading' = TRUE
    /\ UNCHANGED <<db, events, view, list, selected, everything, asked, bulk>>

ServeLoad(f) ==
    /\ ~f.served
    /\ flights' = (flights \ {f}) \cup
         {[served |-> TRUE, of |-> Whole,
           list |-> [rows |-> Page(f.of), total |-> Cardinality(Matching(f.of))]]}
    /\ UNCHANGED <<db, events, view, list, loading, due, selected, everything, asked, bulk>>

\* Whatever answers last is the list.  (A served answer no longer needs its view.)
Arrive(f) ==
    /\ f.served /\ flights' = flights \ {f} /\ list' = f.list /\ loading' = FALSE
    /\ UNCHANGED <<db, events, view, due, selected, everything, asked, bulk>>

LoadFails(f) ==
    /\ flights' = flights \ {f} /\ loading' = FALSE
    /\ UNCHANGED <<db, events, view, list, due, selected, everything, asked, bulk>>

Visible ==
    {r \in list.rows : \/ view.status = "all"
                       \/ view.status = "active" /\ r.status = "active"
                       \/ view.status = "suspended" /\ r.status # "active"}
Ids(rows) == {r.id : r \in rows}

\* What can be clicked: not under the spinner, and not in the moment between a
\* change of the view and the timer of its read.
Showing == IF loading \/ due THEN {} ELSE Visible

-----------------------------------------------------------------------------
\* What is shown changes: the selection goes, and the list is read again.
Show(v) ==
    /\ view' = v /\ due' = TRUE /\ selected' = {} /\ everything' = FALSE
    /\ UNCHANGED <<db, events, list, loading, flights, asked, bulk>>

\* The tabs, or Back in the browser, which a dialog does not hold up.
ChangeType(t) == t # view.type /\ Show([type |-> t, status |-> "all"])

ChangeStatus(s) == s # view.status /\ asked = NoDeletion /\ Show([view EXCEPT !.status = s])

ToggleOne(c) ==
    /\ asked = NoDeletion /\ c \in Ids(Showing)
    /\ everything' = FALSE
    /\ selected' = IF c \in selected THEN selected \ {c} ELSE selected \cup {c}
    /\ UNCHANGED <<db, events, view, list, loading, due, flights, asked, bulk>>

AllVisibleSelected == Visible # {} /\ Ids(Visible) \subseteq selected

ToggleAllVisible ==
    /\ asked = NoDeletion /\ Showing # {}
    /\ everything' = FALSE
    /\ selected' = IF AllVisibleSelected THEN {} ELSE Ids(Visible)
    /\ UNCHANGED <<db, events, view, list, loading, due, flights, asked, bulk>>

\* "Select all ... subscribers", when there are more than the page holds.
SelectEverything ==
    /\ asked = NoDeletion /\ ~everything /\ AllVisibleSelected
    /\ list.total > Cardinality(Visible) /\ everything' = TRUE
    /\ UNCHANGED <<db, events, view, list, loading, due, flights, selected, asked, bulk>>

ClearSelection ==
    /\ asked = NoDeletion /\ bulk.at = "none" /\ selected # {}
    /\ selected' = {} /\ everything' = FALSE
    /\ UNCHANGED <<db, events, view, list, loading, due, flights, asked, bulk>>

SelectedCount == IF everything THEN list.total ELSE Cardinality(selected)

\* The dialog; the handler goes on with the values it was made with.
MustType ==
    \/ view = Whole /\ SelectedCount >= list.total /\ list.total > 0
    \/ everything
    \/ SelectedCount >= TypingFrom

AskBulkDelete ==
    /\ asked = NoDeletion /\ bulk.at = "none" /\ SelectedCount > 0
    /\ asked' = [ids |-> selected, filtered |-> everything, view |-> view,
                 count |-> SelectedCount, typed |-> MustType]
    /\ UNCHANGED <<db, events, view, list, loading, due, flights, selected, everything, bulk>>

Confirm ==
    /\ asked # NoDeletion /\ asked' = NoDeletion
    /\ bulk' = [at |-> "sent", of |-> asked]
    /\ UNCHANGED <<db, events, view, list, loading, due, flights, selected, everything>>

Cancel ==
    /\ asked # NoDeletion /\ asked' = NoDeletion
    /\ UNCHANGED <<db, events, view, list, loading, due, flights, selected, everything, bulk>>

Targets(d) == IF d.filtered THEN Matching(d.view) ELSE d.ids \cap Present

\* Faulty variant: fewer than agreed to are refused, more are not.
ServeBulkShort ==
    /\ bulk.at = "sent"
    /\ IF Targets(bulk.of) = {} \/ Cardinality(Targets(bulk.of)) < bulk.of.count
       THEN bulk' = [bulk EXCEPT !.at = "refused"] /\ UNCHANGED db
       ELSE /\ bulk' = [bulk EXCEPT !.at = "done"]
            /\ \E failed \in SUBSET Targets(bulk.of) :
                  db' = [c \in Clients |-> IF c \in Targets(bulk.of) \ failed THEN "gone" ELSE db[c]]
    /\ UNCHANGED <<events, view, list, loading, due, flights, selected, everything, asked>>

\* bulk_delete_customers: each of them in a transaction of its own, some fail.
ServeBulk ==
    /\ bulk.at = "sent"
    /\ IF Targets(bulk.of) = {} \/ Cardinality(Targets(bulk.of)) # bulk.of.count
       THEN bulk' = [bulk EXCEPT !.at = "refused"] /\ UNCHANGED db
       ELSE /\ bulk' = [bulk EXCEPT !.at = "done"]
            /\ \E failed \in SUBSET Targets(bulk.of) :
                  db' = [c \in Clients |-> IF c \in Targets(bulk.of) \ failed THEN "gone" ELSE db[c]]
    /\ UNCHANGED <<events, view, list, loading, due, flights, selected, everything, asked>>

BulkAnswered ==
    /\ bulk.at \in {"done", "refused"}
    /\ bulk' = [at |-> "none", of |-> NoDeletion]
    /\ IF bulk.at = "done" /\ Cardinality(flights) < MaxLoads
       THEN /\ selected' = {} /\ everything' = FALSE
            /\ flights' = Request /\ loading' = TRUE
       ELSE /\ bulk.at = "refused" /\ UNCHANGED <<selected, everything, flights, loading>>
    /\ UNCHANGED <<db, events, view, list, due, asked>>

\* No answer: the server may have deleted them or not.
BulkLost ==
    /\ bulk.at \in {"sent", "done"}
    /\ bulk' = [at |-> "none", of |-> NoDeletion]
    /\ UNCHANGED <<db, events, view, list, loading, due, flights, selected, everything, asked>>

-----------------------------------------------------------------------------
\* Connect or Disconnect, by the status the row shows; the list is read again.
ToggleConnection(r) ==
    /\ r \in Showing /\ asked = NoDeletion /\ db[r.id] # "gone" /\ Cardinality(flights) < MaxLoads
    /\ db' = [db EXCEPT ![r.id] = IF r.status = "active" THEN "suspended" ELSE "active"]
    /\ flights' = Request /\ loading' = TRUE
    /\ UNCHANGED <<events, view, list, due, selected, everything, asked, bulk>>

\* Signups, payments, expiry, and other staff.
Elsewhere(c, s) ==
    /\ events < MaxEvents /\ events' = events + 1
    /\ db[c] # s /\ db' = [db EXCEPT ![c] = s]
    /\ UNCHANGED pageVars

Next ==
    \/ Load
    \/ \E f \in flights : ServeLoad(f) \/ Arrive(f) \/ LoadFails(f)
    \/ \E t \in Types \cup {"all"} : ChangeType(t)
    \/ \E s \in Offered \cup {"all"} : ChangeStatus(s)
    \/ \E c \in Clients : ToggleOne(c) \/ \E s \in Statuses \cup {"gone"} : Elsewhere(c, s)
    \/ ToggleAllVisible \/ SelectEverything \/ ClearSelection
    \/ AskBulkDelete \/ Confirm \/ Cancel \/ ServeBulk \/ BulkAnswered \/ BulkLost
    \/ \E r \in Showing : ToggleConnection(r)

Spec == Init /\ [][Next]_vars

-----------------------------------------------------------------------------
Deleted == {c \in Present : db'[c] = "gone"}
BulkStep == bulk.at = "sent" /\ bulk'.at = "done"

\* bulk_delete_customers: a set that changed since it was confirmed is refused
\* "rather than deleting more than was agreed to"; and ids that were not ticked
\* are never touched.
NeverMoreThanAgreed ==
    BulkStep => /\ Cardinality(Deleted) <= bulk.of.count
                /\ ~bulk.of.filtered => Deleted \subseteq bulk.of.ids

\* A selection is of rows that were shown under the view on screen: changing
\* the view drops what was ticked before it.
SelectionGoesWithView == view' # view => selected' = {} /\ ~everything'

\* A deletion by filter has been typed for, however the list changed meanwhile.
FilteredIsTyped == bulk.of.filtered => bulk.of.typed

-----------------------------------------------------------------------------
\* Said in the sources and not so in the code: no run checks what follows, and
\* the README tells how each of them is broken.

\* ClientsPage: "a selection made under one filter must not be acted on under
\* another".
DeletesTypeShown ==
    BulkStep => \A c \in Deleted : view.type \in {"all", TypeOf[c]}

\* ClientsPage: "Wiping a whole list is the one action worth making
\* deliberately slow, so it always requires typing".
WholeListIsTyped ==
    BulkStep /\ Deleted = Present /\ Cardinality(Present) > 1 => bulk.of.typed
=============================================================================
