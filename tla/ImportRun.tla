------------------------------ MODULE ImportRun ------------------------------
(***************************************************************************)
(* One router import from review to revert: the run page of each console   *)
(* starts the commit, a background thread of the server makes the clients  *)
(* one batch at a time, and the page polls the run until it leaves         *)
(* "importing".  A batch is one candidate; what happens inside a batch is  *)
(* FileImport.                                                             *)
(***************************************************************************)
EXTENDS Naturals, FiniteSets

CONSTANTS Consoles,   \* run pages open on this run
          Candidates, \* subscribers the scan found, marked for import
          Workers,    \* bound: threads a server may start
          MaxTries,   \* polls before a page gives up
          Careful,    \* nobody imports or reverts a run that is importing
          Restarts    \* the server may be restarted

RunAssumption == MaxTries \in Nat \ {0} /\ Careful \in BOOLEAN /\ Restarts \in BOOLEAN

VARIABLES
    status,   \* server: the run's status
    cand,     \* server: each candidate's status
    linked,   \* server: candidates with a customer_id
    clients,  \* server: candidates whose client exists
    paid,     \* server: clients with a payment
    counts,   \* server: clients made, as the run's counts say
    worker,   \* server: threads: how far, candidates left, clients made
    view,     \* the run as each page shows it
    phase,    \* what each page is doing
    tries,    \* polls of the commit under way
    result    \* clients the result banner says were made, or NoResult

vars == <<status, cand, linked, clients, paid, counts, worker, view, phase, tries, result>>
server == <<status, cand, linked, clients, paid, counts, worker>>
page == <<view, phase, tries, result>>

Statuses == {"scanned", "importing", "completed", "failed", "reverted"}
NoResult == Cardinality(Candidates) + 1
Off == [at |-> "off", left |-> {}, made |-> 0]

TypeOK ==
    /\ status \in Statuses /\ cand \in [Candidates -> {"new", "created", "error"}]
    /\ clients \subseteq Candidates /\ linked \subseteq Candidates /\ paid \subseteq clients
    /\ counts \in 0 .. Cardinality(Candidates)
    /\ worker \in [Workers -> [at : {"off", "started", "working"}, left : SUBSET Candidates,
                               made : 0 .. Cardinality(Candidates)]]
    /\ view \in [Consoles -> Statuses]
    /\ phase \in [Consoles -> {"loading", "ready", "committing", "polling", "reverting"}]
    /\ tries \in [Consoles -> 0 .. MaxTries] /\ result \in [Consoles -> 0 .. NoResult]

Init ==
    /\ status = "scanned" /\ cand = [c \in Candidates |-> "new"] /\ linked = {} /\ clients = {}
    /\ paid = {} /\ counts = 0 /\ worker = [w \in Workers |-> Off]
    /\ view = [p \in Consoles |-> "scanned"] /\ phase = [p \in Consoles |-> "loading"]
    /\ tries = [p \in Consoles |-> 0] /\ result = [p \in Consoles |-> NoResult]

-----------------------------------------------------------------------------
Moves(p, from, to) == phase[p] = from /\ phase' = [phase EXCEPT ![p] = to]

\* load: the run and its candidates.
Loaded(p) ==
    /\ Moves(p, "loading", "ready") /\ view' = [view EXCEPT ![p] = status]
    /\ UNCHANGED <<server, tries, result>>

\* The error is shown over the run as it was.
LoadFails(p) == Moves(p, "loading", "ready") /\ UNCHANGED <<server, view, tries, result>>

\* The page is opened anew; a poll of the page before it shows nothing any more.
Reopen(p) ==
    /\ phase[p] \in {"ready", "polling"} /\ phase' = [phase EXCEPT ![p] = "loading"]
    /\ result' = [result EXCEPT ![p] = NoResult] /\ tries' = [tries EXCEPT ![p] = 0]
    /\ UNCHANGED <<server, view>>

\* The button is there unless the run shown is completed.
Import(p) ==
    /\ view[p] # "completed" /\ Moves(p, "ready", "committing")
    /\ Careful => view[p] # "importing" /\ status # "importing"
    /\ UNCHANGED <<server, view, tries, result>>

\* revert, confirmed: only a completed run shows the button.
Revert(p) ==
    /\ view[p] = "completed" /\ Moves(p, "ready", "reverting") /\ (Careful => status # "importing")
    /\ UNCHANGED <<server, view, tries, result>>

-----------------------------------------------------------------------------
\* commit_run_route and start_commit: only a completed run is refused.
Start(p, w) ==
    /\ Moves(p, "committing", "polling") /\ status # "completed" /\ worker[w] = Off
    /\ status' = "importing" /\ worker' = [worker EXCEPT ![w].at = "started"]
    /\ tries' = [tries EXCEPT ![p] = 0]
    /\ UNCHANGED <<cand, linked, clients, paid, counts, view, result>>

Refused(p) ==
    /\ Moves(p, "committing", "ready")
    /\ UNCHANGED <<server, view, tries, result>>

\* commit_run: the rows to import are chosen once.
Choose(w) ==
    /\ worker[w].at = "started" /\ status' = "importing"
    /\ worker' = [worker EXCEPT ![w] = [at |-> "working", made |-> 0,
                                        left |-> {c \in Candidates : cand[c] \in {"new", "error"}}]]
    /\ UNCHANGED <<cand, linked, clients, paid, counts, page>>

\* process_import on a batch: a login in use is an error, like a row that fails.
Batch(w, c, ok) ==
    LET fresh == ok /\ c \notin clients
        made  == worker[w].made + (IF fresh THEN 1 ELSE 0)
    IN /\ worker[w].at = "working" /\ c \in worker[w].left
       /\ clients' = IF fresh THEN clients \cup {c} ELSE clients
       /\ linked' = IF fresh THEN linked \cup {c} ELSE linked
       /\ cand' = [cand EXCEPT ![c] = IF fresh THEN "created" ELSE "error"]
       /\ worker' = [worker EXCEPT ![w].left = @ \ {c}, ![w].made = made] /\ counts' = made
       /\ UNCHANGED <<status, paid, page>>

Finish(w) ==
    /\ worker[w].at = "working" /\ worker[w].left = {}
    /\ status' = "completed" /\ worker' = [worker EXCEPT ![w] = Off]
    /\ UNCHANGED <<cand, linked, clients, paid, counts, page>>

\* An exception lands on the run.
Crash(w) ==
    /\ worker[w].at # "off" /\ status' = "failed" /\ worker' = [worker EXCEPT ![w] = Off]
    /\ UNCHANGED <<cand, linked, clients, paid, counts, page>>

\* The threads are daemons and nothing resumes them.
Restart ==
    /\ Restarts /\ \E w \in Workers : worker[w] # Off
    /\ worker' = [w \in Workers |-> Off]
    /\ UNCHANGED <<status, cand, linked, clients, paid, counts, page>>

\* A client of the import pays.
Pay(c) ==
    /\ c \in clients \ paid /\ paid' = paid \cup {c}
    /\ UNCHANGED <<status, cand, linked, clients, counts, worker, page>>

\* revert_run keeps the clients that have a payment or an invoice.
Go == linked \ paid

\* The candidates of deleted clients can be imported again.
Fresh == [c \in Candidates |-> IF c \in Go THEN "new" ELSE cand[c]]

DoRevert(p) ==
    /\ Moves(p, "reverting", "loading") /\ status' = "reverted"
    /\ cand' = Fresh /\ clients' = clients \ Go /\ paid' = paid \ Go /\ linked' = linked \ Go
    /\ result' = [result EXCEPT ![p] = NoResult]
    /\ UNCHANGED <<counts, worker, view, tries>>

RevertFails(p) == Moves(p, "reverting", "ready") /\ UNCHANGED <<server, view, tries, result>>

-----------------------------------------------------------------------------
\* awaitCommit, while the run is importing.
PollAgain(p) ==
    /\ phase[p] = "polling" /\ status = "importing" /\ tries[p] < MaxTries
    /\ tries' = [tries EXCEPT ![p] = @ + 1]
    /\ UNCHANGED <<server, view, phase, result>>

\* Out of tries, or the request failed: an error, and load.
GiveUp(p) ==
    /\ Moves(p, "polling", "loading") /\ tries[p] = MaxTries
    /\ UNCHANGED <<server, view, tries, result>>

LostContact(p) == Moves(p, "polling", "loading") /\ UNCHANGED <<server, view, tries, result>>

\* Any status but importing and failed is taken for a success.
Settles == status \notin {"importing", "failed"}

Settled(p) ==
    /\ Moves(p, "polling", "loading") /\ Settles
    /\ result' = [result EXCEPT ![p] = counts]
    /\ UNCHANGED <<server, view, tries>>

RunFailed(p) ==
    /\ Moves(p, "polling", "loading") /\ status = "failed"
    /\ UNCHANGED <<server, view, tries, result>>

-----------------------------------------------------------------------------
Next ==
    \/ \E p \in Consoles :
        \/ Loaded(p) \/ LoadFails(p) \/ Reopen(p) \/ Import(p) \/ Revert(p) \/ Refused(p)
        \/ \E w \in Workers : Start(p, w)
        \/ DoRevert(p) \/ RevertFails(p)
        \/ PollAgain(p) \/ GiveUp(p) \/ LostContact(p) \/ Settled(p) \/ RunFailed(p)
    \/ \E w \in Workers : Choose(w) \/ Finish(w) \/ Crash(w)
    \/ \E w \in Workers, c \in Candidates, ok \in BOOLEAN : Batch(w, c, ok)
    \/ \E c \in Candidates : Pay(c)
    \/ Restart

Spec == Init /\ [][Next]_vars

\* What goes on by itself: a thread that lives, and a page that polls.
Work == \E w \in Workers :
            Choose(w) \/ Finish(w) \/ \E c \in Candidates, ok \in BOOLEAN : Batch(w, c, ok)
Asks == \E p \in Consoles : PollAgain(p) \/ GiveUp(p) \/ Settled(p) \/ RunFailed(p)

-----------------------------------------------------------------------------
\* "Clients with payments are kept": no step takes a client with a payment away.
PaidStay == paid \subseteq clients'

\* A candidate says created exactly when its client exists: a revert makes it
\* new again, and an error made nothing.
MarkedIsReal == \A c \in Candidates : cand[c] = "created" <=> c \in clients

\* The banner's "Created n clients" is what this run made, and the run stands.
ResultIsTrue ==
    \A p \in Consoles : phase[p] = "ready" /\ result[p] # NoResult =>
        status = "completed" /\ result[p] = counts

\* "a failure must land on the row, not vanish": a run does not stay importing.
ImportSettles == status # "importing"

\* A page stops polling by itself.
PollingEnds == \A p \in Consoles : phase[p] # "polling"

-----------------------------------------------------------------------------
\* Said in the sources and not so in the code: no run checks what follows, and
\* the README tells how each of them is broken.

\* A reverted run has no clients but those kept for their payments.
RevertedIsEmpty == status = "reverted" => clients \subseteq paid

\* The banner appears on a completed run.
BannerIsOfCompleted ==
    \A p \in Consoles : result'[p] \notin {result[p], NoResult} => status = "completed"

\* A completed run has dealt with every candidate: it takes no second commit.
NoneLeftBehind == status = "completed" => \A c \in Candidates : cand[c] # "new"
=============================================================================
