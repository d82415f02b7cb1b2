------------------------------ MODULE ImportPlan ------------------------------
(***************************************************************************)
(* What an import run makes of the operator's decisions: the packages and  *)
(* their prices, the billing anchor, the preview of it, and the clients    *)
(* and packages the commit leaves.  The commit is one step here; its       *)
(* threads and batches are ImportRun.                                      *)
(***************************************************************************)
EXTENDS Naturals, FiniteSets

CONSTANTS Profiles,  \* profiles of the router
          Clients,   \* subscribers the scan found
          ProfileOf, \* the profile of each
          Static,    \* clients with a queue and no login
          Past,      \* clients whose comment gives a date that has passed
          Other,     \* a package the tenant has already
          Price,     \* what Other costs
          MaxPrice,  \* bound: prices typed
          Reloads,   \* the page may be opened anew before the commit
          Skips,     \* the operator may skip a package
          MaxReverts \* bound: runs reverted

PlanAssumption ==
    /\ ProfileOf \in [Clients -> Profiles] /\ Static \subseteq Clients /\ Past \subseteq Clients
    /\ Other \notin Profiles /\ MaxPrice \in Nat /\ Price \in 0 .. MaxPrice
    /\ Reloads \in BOOLEAN /\ Skips \in BOOLEAN /\ MaxReverts \in Nat

VARIABLES
    drafts,   \* page: price and decision of each package
    anchor,   \* page: the billing anchor
    preview,  \* page: the dates shown, or NoPreview
    banner,   \* page: the result shown, or NoBanner
    request,  \* the request under way, or Idle
    options,  \* server: the decisions stored with the run, or Unset
    plans,    \* server: packages: their price, or None
    bought,   \* server: the package of each client imported, or "none"
    ends,     \* server: the expiry of each client imported
    state,    \* server: open, completed or reverted
    agreed,   \* the drafts and the anchor the last commit was sent with
    reverts

vars == <<drafts, anchor, preview, banner, request, options, plans, bought, ends, state, agreed, reverts>>
page == <<drafts, anchor, preview, banner>>
server == <<options, plans, bought, ends, state, agreed, reverts>>

Anchors == {"uniform", "mined", "none"}
Prices == 0 .. MaxPrice
None == MaxPrice + 1
Draft == [price : Prices, decision : {"create", "skip", "map"}]
Derived == [p \in Profiles |-> [price |-> 0, decision |-> "create"]]
NoPreview == [anchor |-> "unseen"]
NoBanner == [made |-> "nothing"]
Idle == [kind |-> "idle"]
Unset == [anchor |-> "unset"]

TypeOK ==
    /\ drafts \in [Profiles -> Draft] /\ anchor \in Anchors
    /\ preview = NoPreview \/ preview.anchor \in Anchors
    /\ request.kind \in {"idle", "plan", "commit", "revert"}
    /\ plans \in [Profiles \cup {Other} -> Prices \cup {None}]
    /\ bought \in [Clients -> Profiles \cup {Other, "none"}]
    /\ ends \in [Clients -> {"none", "grace", "past"}] /\ state \in {"open", "completed", "reverted"}

Init ==
    /\ drafts = Derived /\ anchor = "uniform" /\ preview = NoPreview /\ banner = NoBanner /\ request = Idle
    /\ options = Unset /\ plans = [p \in Profiles \cup {Other} |-> IF p = Other THEN Price ELSE None]
    /\ bought = [c \in Clients |-> "none"] /\ ends = [c \in Clients |-> "none"] /\ state = "open"
    /\ agreed = Unset /\ reverts = 0

-----------------------------------------------------------------------------
Editable == state # "completed" /\ request = Idle

SetPrice(p, n) ==
    /\ Editable /\ drafts' = [drafts EXCEPT ![p].price = n]
    /\ UNCHANGED <<anchor, preview, banner, request, server>>

Decide(p, d) ==
    /\ Editable /\ (d = "skip" => Skips) /\ drafts' = [drafts EXCEPT ![p].decision = d]
    /\ UNCHANGED <<anchor, preview, banner, request, server>>

ChooseAnchor(a) ==
    /\ Editable /\ a # anchor /\ anchor' = a
    /\ UNCHANGED <<drafts, preview, banner, request, server>>

\* The page opened anew: get_run derives the drafts from the scan again.
Reopen ==
    /\ Reloads /\ request = Idle
    /\ drafts' = Derived /\ anchor' = "uniform" /\ preview' = NoPreview /\ banner' = NoBanner
    /\ UNCHANGED <<request, server>>

Ask(r) == request = Idle /\ request' = r /\ UNCHANGED <<page, server>>

Sent == [drafts |-> drafts, anchor |-> anchor]
AskPreview == state # "completed" /\ anchor # "none" /\ Ask([kind |-> "plan", sent |-> Sent])

\* "Import anyway" is there when the preview shown is blocking.
Blocks == preview # NoPreview /\ preview.past # {}
AskCommit(force) ==
    /\ state # "completed" /\ (force => Blocks)
    /\ Ask([kind |-> "commit", sent |-> Sent, force |-> force])

AskRevert == state = "completed" /\ reverts < MaxReverts /\ Ask([kind |-> "revert"])

-----------------------------------------------------------------------------
\* resolve_anchor
End(c, a) ==
    IF a = "none" THEN "none" ELSE IF a = "mined" /\ c \in Past THEN "past" ELSE "grace"

\* expiry_preview: any client that would arrive expired is too many of so few.
PastDated(cs, a) == {c \in cs : End(c, a) = "past"}

\* plan_run: the preview counts every candidate marked for import.
StorePlan ==
    /\ request.kind = "plan" /\ options' = request.sent
    /\ preview' = [anchor |-> request.sent.anchor, past |-> PastDated(Clients, request.sent.anchor),
                   total |-> Clients]
    /\ request' = Idle /\ UNCHANGED <<drafts, anchor, banner, plans, bought, ends, state, agreed, reverts>>

\* A request that fails shows an error; after a commit that began, the run is loaded again.
Fails ==
    /\ request # Idle /\ request' = Idle
    /\ drafts' \in (IF request.kind = "commit" THEN {drafts, Derived} ELSE {drafts})
    /\ UNCHANGED <<anchor, preview, banner, server>>

Importable == {c \in Clients \ Static : bought[c] = "none"}

\* start_commit: past dates are refused unless the operator insists.
Guarded(r) == PastDated(Importable, r.sent.anchor) # {} /\ ~r.force

CommitRefused ==
    /\ request.kind = "commit" /\ Guarded(request) /\ request' = Idle
    /\ UNCHANGED <<page, server>>

\* create_packages, then process_import's own packages for names that match
\* nothing, which are free of charge.
Created(d) == [p \in Profiles \cup {Other} |->
    IF plans[p] # None THEN plans[p]
    ELSE IF d[p].decision = "create" THEN d[p].price
    ELSE IF d[p].decision = "skip" /\ \E c \in Importable : ProfileOf[c] = p THEN 0 ELSE None]

\* candidate_to_row
Package(c, d) == IF d[ProfileOf[c]].decision = "map" THEN Other ELSE ProfileOf[c]

Commit ==
    /\ request.kind = "commit" /\ ~Guarded(request)
    /\ plans' = Created(request.sent.drafts)
    /\ bought' = [c \in Clients |-> IF c \in Importable THEN Package(c, request.sent.drafts) ELSE bought[c]]
    /\ ends' = [c \in Clients |-> IF c \in Importable THEN End(c, request.sent.anchor) ELSE ends[c]]
    /\ state' = "completed" /\ agreed' = request
    /\ banner' = [made |-> Importable, skipped |-> {}] /\ drafts' = Derived /\ request' = Idle
    /\ UNCHANGED <<anchor, preview, options, reverts>>

\* revert_run: the clients go, the packages stay.
DoRevert ==
    /\ request.kind = "revert" /\ state' = "reverted" /\ reverts' = reverts + 1
    /\ bought' = [c \in Clients |-> "none"] /\ ends' = [c \in Clients |-> "none"]
    /\ banner' = NoBanner /\ drafts' = Derived /\ request' = Idle /\ agreed' = Unset
    /\ UNCHANGED <<anchor, preview, options, plans>>

Next ==
    \/ \E p \in Profiles, n \in Prices : SetPrice(p, n)
    \/ \E p \in Profiles, d \in {"create", "skip", "map"} : Decide(p, d)
    \/ \E a \in Anchors : ChooseAnchor(a)
    \/ \E force \in BOOLEAN : AskCommit(force)
    \/ Reopen \/ AskPreview \/ AskRevert
    \/ StorePlan \/ Fails \/ CommitRefused \/ Commit \/ DoRevert

Spec == Init /\ [][Next]_vars

-----------------------------------------------------------------------------
Imported == {c \in Clients : bought[c] # "none"}

\* The past-dated guard: nobody arrives expired unless the operator insisted.
NobodyArrivesExpired == (\E c \in Imported : ends[c] = "past") => agreed.force

\* A client is on the package the operator chose, and pays what it was given.
PriceIsAsSet ==
    \A c \in Imported : LET d == agreed.sent.drafts[ProfileOf[c]] IN
        CASE d.decision = "create" -> bought[c] = ProfileOf[c] /\ plans[bought[c]] = d.price
          [] d.decision = "map" -> bought[c] = Other
          [] OTHER -> TRUE

\* No import changes what a package already there costs.
PackagesKeepPrice == \A p \in DOMAIN plans : plans[p] # None => plans'[p] = plans[p]

-----------------------------------------------------------------------------
\* Said in the sources and not so in the code: no run checks what follows, and
\* the README tells how each of them is broken.

\* "Store the operator's pricing ... decisions on the run": a page opened later
\* starts from them.
StoredIsShown == options # Unset /\ Reopen => drafts' = options.drafts /\ anchor' = options.anchor

\* "its own auto-create path never fires for a router import"
NoAutoCreate == \A p \in Profiles : plans[p] = None /\ plans'[p] # None =>
                       request.sent.drafts[p].decision = "create"

\* "What the anchor policy would do, before it does it"
PreviewIsOfAnchor == (preview # NoPreview /\ state # "completed") => preview.anchor = anchor

\* and for whom: the clients it counts are those the commit takes.
PreviewIsOfImport == (preview # NoPreview /\ state = "open") => preview.total = Importable

\* "static/queue clients were skipped" is said when there were any.
StaticIsTold == banner # NoBanner => banner.skipped = Static
=============================================================================
