---------------------------- MODULE PackageShelf ----------------------------
(***************************************************************************)
(* The list of packages (components/plans/ServicePlansPage.jsx): the rows   *)
(* of the filter in force and the cards with the totals are read by         *)
(* requests of their own, and a deletion reloads both, the rows with the    *)
(* filter of the render in which Delete was pressed.                        *)
(***************************************************************************)
EXTENDS Naturals, FiniteSets, Sequences, SequencesExt

CONSTANTS
    Plans,
    MaxOut,     \* bound: requests out together
    Patient,    \* the operator lets a deletion finish before choosing a filter
    Others,     \* other operators work on the same packages
    Ordered,    \* requests are answered in the order they were sent
    Lossy       \* requests may fail

Filters == {"all", "active", "inactive"}
PackageShelfAssumption == MaxOut \in Nat /\ {Patient, Others, Ordered, Lossy} \subseteq BOOLEAN

VARIABLES
    plans,      \* the packages: plan -> "none", "active", "inactive"
    filter,     \* tabs, status and search together
    list,       \* the rows shown
    stats,      \* the total on the cards, 0 also after a failure
    asked,      \* the deletion under way: {} or {[plan, filter, sent]}
    reqs,       \* requests out, oldest first: [kind, filter, rows, done]
    loading

vars == <<plans, filter, list, stats, asked, reqs, loading>>

Exist == {p \in Plans : plans[p] # "none"}
Rows(f) == {p \in Exist : f = "all" \/ plans[p] = f}
Request(kind, f) == [kind |-> kind, filter |-> f, rows |-> {}, done |-> FALSE]

Init ==
    /\ plans \in [Plans -> {"none", "active", "inactive"}]
    /\ filter = "all"
    /\ list = {} /\ stats = 0
    /\ asked = {}
    /\ reqs = <<Request("list", "all"), Request("stats", "all")>>
    /\ loading = TRUE

\* loadPlans and loadStats together: Refresh, and a deletion that went well.
ReloadBoth(f, out) ==
    reqs' = out \o <<Request("list", f), Request("stats", "all")>> /\ loading' = TRUE

-----------------------------------------------------------------------------
\* A tab, a status or a word in the search: loadPlans changes with it, and its
\* effect asks for the rows alone.
Choose(f) ==
    /\ Len(reqs) < MaxOut
    /\ \A a \in asked : a.sent /\ ~Patient
    /\ filter' = f /\ f # filter
    /\ reqs' = Append(reqs, Request("list", f))
    /\ loading' = TRUE
    /\ UNCHANGED <<plans, list, stats, asked>>

Refresh ==
    /\ ~loading /\ Len(reqs) < MaxOut
    /\ ReloadBoth(filter, reqs)
    /\ UNCHANGED <<plans, filter, list, stats, asked>>

\* The bin of a row, and the question; other rows' bins are off meanwhile.
AskDelete(p) ==
    /\ asked = {} /\ ~loading /\ p \in list
    /\ asked' = {[plan |-> p, filter |-> filter, sent |-> FALSE]}
    /\ UNCHANGED <<plans, filter, list, stats, reqs, loading>>

AnswerDelete ==
    \E a \in asked :
        /\ ~a.sent
        /\ asked' \in {{}, {[a EXCEPT !.sent = TRUE]}}
        /\ UNCHANGED <<plans, filter, list, stats, reqs, loading>>

\* delete_plan; its refusals are those of PackageDetail.
Delete ==
    \E a \in asked :
        /\ a.sent /\ Len(reqs) < MaxOut
        /\ asked' = {}
        /\ \/ /\ plans[a.plan] # "none"
              /\ plans' = [plans EXCEPT ![a.plan] = "none"]
              /\ ReloadBoth(a.filter, reqs)
           \/ plans[a.plan] = "none" /\ UNCHANGED <<plans, reqs, loading>>
        /\ UNCHANGED <<filter, list, stats>>

DeleteFails ==
    /\ Lossy
    /\ \E a \in asked : a.sent
    /\ asked' = {}
    /\ UNCHANGED <<plans, filter, list, stats, reqs, loading>>

-----------------------------------------------------------------------------
Serve(i) ==
    /\ ~reqs[i].done
    /\ Ordered => \A j \in 1..(i - 1) : reqs[j].done
    /\ reqs' = [reqs EXCEPT ![i].done = TRUE,
                            ![i].rows = Rows(reqs[i].filter)]
    /\ UNCHANGED <<plans, filter, list, stats, asked, loading>>

\* Whatever answer comes last is what is shown; no request is given up.
Answer(i) ==
    /\ reqs[i].done
    /\ Ordered => i = 1
    /\ reqs' = RemoveAt(reqs, i)
    /\ IF reqs[i].kind = "list"
         THEN list' = reqs[i].rows /\ loading' = FALSE /\ UNCHANGED stats
         ELSE stats' = Cardinality(reqs[i].rows) /\ UNCHANGED <<list, loading>>
    /\ UNCHANGED <<plans, filter, asked>>

\* "Clear them so a failed refresh can't leave stale totals": both are emptied.
Fail(i) ==
    /\ Lossy /\ (Ordered => i = 1)
    /\ reqs' = RemoveAt(reqs, i)
    /\ IF reqs[i].kind = "list"
         THEN list' = {} /\ loading' = FALSE /\ UNCHANGED stats
         ELSE stats' = 0 /\ UNCHANGED <<list, loading>>
    /\ UNCHANGED <<plans, filter, asked>>

OtherWork ==
    /\ Others
    /\ \E p \in Plans : plans' \in {[plans EXCEPT ![p] = s] : s \in {"none", "active", "inactive"}}
    /\ UNCHANGED <<filter, list, stats, asked, reqs, loading>>

Next ==
    \/ \E f \in Filters : Choose(f)
    \/ Refresh
    \/ \E p \in Plans : AskDelete(p)
    \/ AnswerDelete \/ Delete \/ DeleteFails
    \/ \E i \in DOMAIN reqs : Serve(i) \/ Answer(i) \/ Fail(i)
    \/ OtherWork

Spec == Init /\ [][Next]_vars

-----------------------------------------------------------------------------
TypeOK ==
    /\ plans \in [Plans -> {"none", "active", "inactive"}]
    /\ filter \in Filters
    /\ list \subseteq Plans /\ stats \in 0..Cardinality(Plans)
    /\ asked \subseteq [plan : Plans, filter : Filters, sent : BOOLEAN]
    /\ Cardinality(asked) <= 1
    /\ loading \in BOOLEAN

\* At rest the rows shown are those of the filter in force.
RowsAreOfFilter == (reqs = <<>> /\ asked = {}) => list = Rows(filter)

\* The spinner over the rows ends with the last request for them.
LoadingEnds == loading => \E i \in DOMAIN reqs : reqs[i].kind = "list"

\* No totals above rows read after them (ServicePlansPage.jsx:83): at rest the
\* cards count what exists, or nothing at all.
TotalsAreCurrent == reqs = <<>> => stats \in {0, Cardinality(Exist)}

\* "the cards on the page always add up to the rows underneath them"
\* (routes/plans.py:539): at rest, unfiltered, the total is the number of rows.
CardsAddUp == (reqs = <<>> /\ filter = "all") => stats = Cardinality(list)
=============================================================================
