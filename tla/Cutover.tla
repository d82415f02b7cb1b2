-------------------------------- MODULE Cutover --------------------------------
(***************************************************************************)
(* Moving imported subscribers off the router's own secrets: the cutover   *)
(* page makes a script for a batch, or one that takes everything back, and *)
(* the operator runs scripts on the router when he likes.  RouterOS looks  *)
(* at its own enabled secrets first and asks RADIUS for the others.        *)
(***************************************************************************)
EXTENDS Naturals, FiniteSets

CONSTANTS Runs,       \* completed imports
          Subscribers,\* 1 .. n, in the order of their rows
          RunOf,      \* the import of each, all of one router
          Refused,    \* subscribers the import could not create
          Suspended,  \* subscribers whose secret was disabled before
          NoPassword, \* subscribers whose password the scan could not read
          Adopts,     \* the router is adopted before anyone is moved
          Reverts,    \* runs are reverted
          MaxScripts  \* bound: scripts made

CutoverAssumption ==
    /\ Subscribers \subseteq Nat /\ IsFiniteSet(Subscribers) /\ RunOf \in [Subscribers -> Runs]
    /\ Refused \cup Suspended \cup NoPassword \subseteq Subscribers
    /\ Adopts \in BOOLEAN /\ Reverts \in BOOLEAN /\ MaxScripts \in Nat

VARIABLES
    enabled,  \* router: subscribers whose secret is enabled
    adopted,  \* router: Infora is among its RADIUS servers
    clients,  \* server: subscribers with a client
    completed,\* server: runs that are completed
    listed,   \* page: the runs it offers
    chosen,   \* page: the run chosen, or "none"
    limit,    \* page: the batch size
    request,  \* page: the script being made, or Idle
    script,   \* page: the script shown, or NoScript
    copies,   \* scripts kept to be run
    scripts

vars == <<enabled, adopted, clients, completed, listed, chosen, limit, request, script, copies, scripts>>
router == <<enabled, adopted>>
server == <<clients, completed>>
page == <<listed, chosen, limit, request, script>>

None == "none"
Idle == [kind |-> "idle"]
NoScript == [kind |-> "none"]
Limits == 1 .. Cardinality(Subscribers)
Of(r) == {s \in Subscribers : RunOf[s] = r}

TypeOK ==
    /\ enabled \subseteq Subscribers /\ adopted \in BOOLEAN /\ clients \subseteq Subscribers
    /\ completed \subseteq Runs /\ listed \subseteq Runs /\ chosen \in Runs \cup {None}
    /\ limit \in Limits /\ request.kind \in {"idle", "cutover", "rollback"}
    /\ script.kind \in {"none", "cutover", "rollback"} /\ scripts \in 0 .. MaxScripts
    /\ \A c \in copies : c.of \subseteq Subscribers

\* The page is open on the history it read.
Init ==
    /\ enabled = Subscribers \ Suspended /\ adopted = FALSE /\ clients = Subscribers \ Refused
    /\ completed = Runs /\ listed = Runs /\ chosen \in Runs /\ limit \in Limits
    /\ request = Idle /\ script = NoScript /\ copies = {} /\ scripts = 0

-----------------------------------------------------------------------------
Choose(r) ==
    /\ r \in listed /\ r # chosen /\ chosen' = r
    /\ UNCHANGED <<router, server, listed, limit, request, script, copies, scripts>>

SetLimit(n) ==
    /\ n # limit /\ request = Idle /\ limit' = n
    /\ UNCHANGED <<router, server, listed, chosen, request, script, copies, scripts>>

\* The page opened anew.
Open ==
    /\ listed' = completed /\ chosen' \in (IF completed = {} THEN {None} ELSE completed)
    /\ request' = Idle /\ script' = NoScript
    /\ UNCHANGED <<router, server, limit, copies, scripts>>

Generate(kind) ==
    /\ chosen # None /\ request = Idle /\ scripts < MaxScripts /\ scripts' = scripts + 1
    /\ request' = [kind |-> kind, run |-> chosen, limit |-> limit]
    /\ UNCHANGED <<router, server, listed, chosen, limit, script, copies>>

\* Faulty variant: every candidate of the run.
MovableAll(r) == Of(r)
\* cutover_script: candidates whose client was created.
Movable(r) == Of(r) \cap clients

\* The first of the query, and the same ones each time.
Batch(r, n) == {s \in Movable(r) : Cardinality({t \in Movable(r) : t <= s}) <= n}

\* rollback_script names every candidate of the run.
Script(q) == [kind |-> q.kind, run |-> q.run,
              of |-> IF q.kind = "cutover" THEN Batch(q.run, q.limit) ELSE Of(q.run)]

Answer ==
    /\ request # Idle /\ (request.kind = "cutover" => Movable(request.run) # {})
    /\ script' = Script(request) /\ request' = Idle
    /\ UNCHANGED <<router, server, listed, chosen, limit, copies, scripts>>

Fails ==
    /\ request # Idle /\ request' = Idle
    /\ UNCHANGED <<router, server, listed, chosen, limit, script, copies, scripts>>

Copy ==
    /\ script # NoScript /\ script \notin copies /\ copies' = copies \cup {script}
    /\ UNCHANGED <<router, server, page, scripts>>

-----------------------------------------------------------------------------
\* The adoption script of a run.
Adopt ==
    /\ ~adopted /\ adopted' = TRUE
    /\ UNCHANGED <<enabled, server, page, copies, scripts>>

\* build_retire_secrets_script
Move(c) ==
    /\ c.kind = "cutover" /\ (Adopts => adopted) /\ enabled' = enabled \ c.of
    /\ UNCHANGED <<adopted, server, page, copies, scripts>>

\* build_rollback_script
TakeBack(c) ==
    /\ c.kind = "rollback" /\ enabled' = enabled \cup c.of /\ adopted' = FALSE
    /\ UNCHANGED <<server, page, copies, scripts>>

\* revert_run, on the run's page.
Revert(r) ==
    /\ Reverts /\ r \in completed
    /\ completed' = completed \ {r} /\ clients' = clients \ Of(r)
    /\ UNCHANGED <<router, page, copies, scripts>>

Next ==
    \/ \E r \in Runs : Choose(r) \/ Revert(r)
    \/ \E n \in Limits : SetLimit(n)
    \/ \E kind \in {"cutover", "rollback"} : Generate(kind)
    \/ Open \/ Answer \/ Fails \/ Copy \/ Adopt
    \/ \E c \in copies : Move(c) \/ TakeBack(c)

Spec == Init /\ [][Next]_vars

-----------------------------------------------------------------------------
\* A subscriber comes online by his own secret, or by RADIUS with his client
\* and the password his device has.
ByRadius == IF adopted THEN clients \ (NoPassword \cup Suspended) ELSE {}
Online(s) == s \in enabled \cup ByRadius

\* "Scanning never changes the router", and moving cuts nobody off: who had
\* service keeps it.
ServiceIsKept == \A s \in Subscribers \ Suspended : Online(s)

\* A subscriber the import could not create is left to the router.
RefusedStay == Refused \ Suspended \subseteq enabled

\* The router goes on without Infora once everything was taken back.
TakenBackIsWhole ==
    adopted /\ ~adopted' => \E c \in copies : c.kind = "rollback" /\ c.of \subseteq enabled'

-----------------------------------------------------------------------------
\* Said in the sources and not so in the code: no run checks what follows, and
\* the README tells how each of them is broken.

\* "Undo an adoption": who was cut off before the migration is so after it.
SuspendedStayOff == \A s \in Suspended : ~Online(s)

\* "Roll forward in batches": a script made for a batch moves somebody, while
\* there is somebody to move.
BatchMoves ==
    script' # script /\ script'.kind = "cutover" /\ enabled \cap Movable(script'.run) # {} =>
           script'.of \cap enabled # {}

\* The script shown is of the run chosen.
ScriptIsOfChosen == (script # NoScript /\ request = Idle) => script.run = chosen

\* "a one-command rollback at every step": whoever was moved can be moved back.
RollbackAtHand == \A s \in Subscribers \ Suspended : s \notin enabled => RunOf[s] \in completed
=============================================================================
