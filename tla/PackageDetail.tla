---------------------------- MODULE PackageDetail ----------------------------
(***************************************************************************)
(* The page of one package (components/plans/PlanDetail.jsx) and its rows   *)
(* (routes/plans.py): two switches that the server flips, a deletion it     *)
(* refuses while clients or hotspot codes use the package, and a count of   *)
(* subscribers taken from the first page of them.                           *)
(***************************************************************************)
EXTENDS Naturals, FiniteSets, FiniteSetsExt

CONSTANTS
    MaxClients,     \* bound: clients of the package
    PageSize,       \* per_page of getPlanCustomers
    Others,         \* other operators flip the same switches
    Lossy           \* answers may be lost, requests may fail

PackageDetailAssumption == {MaxClients, PageSize} \subseteq Nat /\ PageSize > 0

Switches == {"active", "popular"}

VARIABLES
    exists,     \* the row is there
    on,         \* the switches that are on
    clients,    \* customers with this service_plan_id
    codes,      \* hotspot codes of the package were issued
    deleting,   \* a deletion has passed its checks and not committed
    plan,       \* the package shown: {} or {[on]}
    counted,    \* customers shown and counted
    loading,
    req,        \* request of an action: "none", a switch, "delete"
    done,       \* served, its answer on the way
    wish        \* history: the switch as the pressed button says it will be

vars == <<exists, on, clients, codes, deleting, plan, counted, loading, req, done, wish>>
server == <<exists, on, clients, codes, deleting>>
page == <<plan, counted, loading>>

Init ==
    /\ exists = TRUE
    /\ on \in SUBSET Switches
    /\ clients \in 0..MaxClients
    /\ codes \in BOOLEAN
    /\ deleting = FALSE
    /\ plan = {} /\ counted = 0 /\ loading = TRUE
    /\ req = "none" /\ done = FALSE
    /\ wish = FALSE

-----------------------------------------------------------------------------
(* The page. *)

\* Package and customers are asked for together; the customers are one page.
Loaded ==
    /\ loading /\ exists
    /\ loading' = FALSE
    /\ plan' = {[on |-> on]}
    /\ counted' = Min({clients, PageSize})
    /\ UNCHANGED <<server, req, done, wish>>

\* The package itself, or only the customers; what was shown before stays.
LoadFails ==
    /\ loading
    /\ loading' = FALSE
    /\ \/ (Lossy \/ ~exists) /\ UNCHANGED plan
       \/ Lossy /\ exists /\ plan' = {[on |-> on]}
    /\ UNCHANGED <<server, counted, req, done, wish>>

Ready == ~loading /\ plan # {} /\ req = "none"

\* "Deactivate Plan" or "Activate Plan", "Mark as Popular" or "Remove".
Flip(s) ==
    /\ Ready
    /\ req' = s
    /\ wish' = (\A p \in plan : s \notin p.on)
    /\ UNCHANGED <<server, page, done>>

AskDelete ==
    /\ Ready
    /\ req' = "delete"
    /\ UNCHANGED <<server, page, done, wish>>

Reopen ==
    /\ ~loading /\ req = "none"
    /\ loading' = TRUE
    /\ UNCHANGED <<server, plan, counted, req, done, wish>>

\* The answer carries the row as it is now, and the page shows that.
FlipAnswered ==
    /\ req \in Switches /\ done
    /\ plan' = {[on |-> on]}
    /\ req' = "none" /\ done' = FALSE
    /\ UNCHANGED <<server, counted, loading, wish>>

\* Deleted: back to the list.
DeleteAnswered ==
    /\ req = "delete" /\ done
    /\ plan' = {} /\ req' = "none" /\ done' = FALSE
    /\ UNCHANGED <<server, counted, loading, wish>>

Fails ==
    /\ req # "none"
    /\ Lossy \/ (~done /\ ~exists)
    /\ req' = "none" /\ done' = FALSE
    /\ UNCHANGED <<server, page, wish>>

-----------------------------------------------------------------------------
(* The server. *)

Flipped(s) == IF s \in on THEN on \ {s} ELSE on \cup {s}

ServeFlip ==
    /\ req \in Switches /\ ~done /\ exists
    /\ on' = Flipped(req)
    /\ done' = TRUE
    /\ UNCHANGED <<exists, clients, codes, deleting, page, req, wish>>

MayDelete == clients = 0 /\ ~codes

CheckDelete ==
    /\ req = "delete" /\ ~done /\ exists /\ ~deleting
    /\ IF MayDelete THEN deleting' = TRUE /\ UNCHANGED req
                    ELSE deleting' = FALSE /\ req' = "none"
    /\ UNCHANGED <<exists, on, clients, codes, page, done, wish>>

\* The foreign keys of customers and codes hold the row; the error is told and
\* the RADIUS group comes back with the rollback.
HeldByRows == clients > 0 \/ codes

CommitDelete ==
    /\ deleting
    /\ deleting' = FALSE
    /\ IF HeldByRows THEN req' = "none" /\ UNCHANGED <<exists, done>>
                     ELSE exists' = FALSE /\ done' = (req = "delete") /\ UNCHANGED req
    /\ UNCHANGED <<on, clients, codes, page, wish>>

\* A client is given the package or leaves it, a code is issued.
Assign ==
    /\ exists
    /\ \/ clients < MaxClients /\ clients' = clients + 1 /\ UNCHANGED codes
       \/ clients > 0 /\ clients' = clients - 1 /\ UNCHANGED codes
       \/ codes' = TRUE /\ UNCHANGED clients
    /\ UNCHANGED <<exists, on, deleting, page, req, done, wish>>

OtherFlip ==
    /\ Others /\ exists
    /\ \E s \in Switches : on' = Flipped(s)
    /\ UNCHANGED <<exists, clients, codes, deleting, page, req, done, wish>>

Next ==
    \/ Loaded \/ LoadFails \/ Reopen
    \/ \E s \in Switches : Flip(s)
    \/ AskDelete \/ FlipAnswered \/ DeleteAnswered \/ Fails
    \/ ServeFlip \/ CheckDelete \/ CommitDelete \/ Assign \/ OtherFlip

Spec == Init /\ [][Next]_vars

-----------------------------------------------------------------------------
TypeOK ==
    /\ {exists, codes, deleting, loading, done, wish} \subseteq BOOLEAN
    /\ on \subseteq Switches
    /\ clients \in 0..MaxClients /\ counted \in 0..PageSize
    /\ plan \subseteq [on : SUBSET Switches] /\ Cardinality(plan) <= 1
    /\ req \in Switches \cup {"none", "delete"}

\* No client and no code is ever left with a package that is gone, also when
\* they were given it between the checks and the commit.
UsersKeepPackage == (clients > 0 \/ codes) => exists

\* The switches shown are the stored ones whenever the page rests, with one
\* operator and no answer lost.
ShownIsStored == Ready => plan = {[on |-> on]}

\* A button does what it says (PlanDetail.jsx:241): the switch it flips ends the
\* way its label announced.
ButtonDoesAsItSays == \A s \in Switches : (req = s /\ ~done /\ done') => (s \in on') = wish

\* "subscribers" (PlanDetail.jsx:206) and the revenue worked out from them
\* count every client of the package.
AllAreCounted == loading /\ ~loading' /\ exists => counted' = clients
=============================================================================
