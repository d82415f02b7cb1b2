------------------------------ MODULE RouterScan ------------------------------
(***************************************************************************)
(* Reading a router's subscribers: over SSH by a thread of the server, or  *)
(* by a script pasted into the router that uploads its findings in chunks. *)
(* The scan page polls an SSH scan; the run page opens any run by its      *)
(* address and imports it.                                                 *)
(***************************************************************************)
EXTENDS Naturals, FiniteSets, Sequences

CONSTANTS Runs,      \* scans started
          Chunks,    \* uploads of the agent's script before its last
          MaxTries,  \* polls before the page gives up
          Lossy,     \* an upload of the agent may fail
          Direct     \* a run page is opened other than from the scan page

ScanAssumption ==
    /\ "none" \notin Runs /\ Chunks \in Nat \ {0} /\ MaxTries \in Nat \ {0}
    /\ Lossy \in BOOLEAN /\ Direct \in BOOLEAN

VARIABLES
    run,       \* server: each run's source and status
    thread,    \* server: runs read by a thread now
    readable,  \* router: whether the scan gets the subscribers' passwords
    stored,    \* server: chunks of an agent's run
    found,     \* server: chunks the run's subscribers were read from
    blocked,   \* server: the fingerprint says that nothing can be imported
    next,      \* router: the upload the script is at, 0 if it is not running
    token,     \* server: runs whose upload token still counts
    shown,     \* scan page: the run whose findings are shown, or "none"
    polled,    \* scan page: the run polled, or "none"
    tries, committed

vars == <<run, thread, readable, stored, found, blocked, next, token, shown, polled, tries, committed>>
agent == <<stored, next, token>>
page == <<shown, polled, tries>>

None == "none"
All == 1 .. Chunks
Absent == [source |-> "none", status |-> "none"]

TypeOK ==
    /\ run \in [Runs -> {Absent} \cup [source : {"ssh", "agent", "export"},
                                       status : {"scanning", "scanned", "failed", "completed"}]]
    /\ thread \subseteq Runs /\ readable \in BOOLEAN /\ token \subseteq Runs /\ blocked \subseteq Runs
    /\ stored \in [Runs -> SUBSET All] /\ found \in [Runs -> SUBSET All]
    /\ next \in [Runs -> 0 .. Chunks + 1]
    /\ shown \in Runs \cup {None} /\ polled \in Runs \cup {None} /\ tries \in 0 .. MaxTries
    /\ committed \subseteq Runs

Init ==
    /\ run = [r \in Runs |-> Absent] /\ thread = {} /\ readable \in BOOLEAN
    /\ stored = [r \in Runs |-> {}] /\ found = [r \in Runs |-> {}] /\ blocked = {}
    /\ next = [r \in Runs |-> 0] /\ token = {} /\ shown = None /\ polled = None /\ tries = 0
    /\ committed = {}

Created(r, source) == run[r] = Absent /\ run' = [run EXCEPT ![r] = [source |-> source, status |-> "scanning"]]

-----------------------------------------------------------------------------
\* runScan over SSH, and start_device_scan.
ScanOverSsh(r) ==
    /\ polled = None /\ Created(r, "ssh") /\ thread' = thread \cup {r}
    /\ shown' = None /\ polled' = r /\ tries' = 0
    /\ UNCHANGED <<readable, stored, found, blocked, next, token, committed>>

\* persist_inventory: the findings and their fingerprint.
Persist(r, chunks) ==
    /\ found' = [found EXCEPT ![r] = chunks]
    /\ blocked' = IF readable THEN blocked \ {r} ELSE blocked \cup {r}

\* Faulty variant: a failure is not written on the run.
ThreadDies(r) ==
    /\ r \in thread /\ thread' = thread \ {r}
    /\ UNCHANGED <<run, readable, found, blocked, agent, page, committed>>

ThreadFails(r) ==
    /\ r \in thread /\ thread' = thread \ {r} /\ run' = [run EXCEPT ![r].status = "failed"]
    /\ UNCHANGED <<readable, found, blocked, agent, page, committed>>

ThreadEnds(r) ==
    /\ r \in thread /\ thread' = thread \ {r} /\ run' = [run EXCEPT ![r].status = "scanned"]
    /\ Persist(r, All) /\ UNCHANGED <<readable, agent, page, committed>>

\* uploadExport: parsed while the request waits.
ScanExport(r) ==
    /\ polled = None /\ run[r] = Absent
    /\ run' = [run EXCEPT ![r] = [source |-> "export", status |-> "scanned"]]
    /\ Persist(r, All) /\ shown' = r
    /\ UNCHANGED <<thread, readable, agent, polled, tries, committed>>

-----------------------------------------------------------------------------
\* fetchAgentScript, and agent_script.
AgentScript(r) ==
    /\ polled = None /\ Created(r, "agent") /\ token' = token \cup {r}
    /\ UNCHANGED <<thread, readable, stored, found, blocked, next, page, committed>>

\* The script is pasted: once more if the operator likes.
Paste(r) ==
    /\ run[r].source = "agent" /\ next[r] = 0 /\ next' = [next EXCEPT ![r] = 1]
    /\ UNCHANGED <<run, thread, readable, stored, found, blocked, token, page, committed>>

Onwards(r) == next' = [next EXCEPT ![r] = IF @ > Chunks THEN 0 ELSE @ + 1]

\* ingest_agent_chunk: a chunk takes its own place.
Stored(r) == [stored EXCEPT ![r] = @ \cup {next[r]}]

Upload(r) ==
    /\ next[r] \in All /\ r \in token /\ stored' = Stored(r) /\ Onwards(r)
    /\ UNCHANGED <<run, thread, readable, found, blocked, token, page, committed>>

\* Every fetch is guarded by on-error={}: the script goes on.
UploadLost(r) ==
    /\ next[r] # 0 /\ (Lossy \/ r \notin token) /\ Onwards(r)
    /\ UNCHANGED <<run, thread, readable, stored, found, blocked, token, page, committed>>

\* ingest_agent, __done__.
Done(r) ==
    /\ next[r] = Chunks + 1 /\ r \in token /\ Onwards(r)
    /\ run' = [run EXCEPT ![r].status = "scanned"] /\ token' = token \ {r}
    /\ Persist(r, stored[r])
    /\ UNCHANGED <<thread, readable, stored, page, committed>>

\* An hour passes.
TokenExpires(r) ==
    /\ Lossy /\ r \in token /\ token' = token \ {r}
    /\ UNCHANGED <<run, thread, readable, stored, found, blocked, next, page, committed>>

-----------------------------------------------------------------------------
\* awaitScan
PollAgain ==
    /\ polled # None /\ run[polled].status = "scanning" /\ tries < MaxTries /\ tries' = tries + 1
    /\ UNCHANGED <<run, thread, readable, found, blocked, agent, shown, polled, committed>>

Good(s) == s \notin {"scanning", "failed"}

Settled ==
    /\ polled # None /\ Good(run[polled].status) /\ shown' = polled /\ polled' = None
    /\ UNCHANGED <<run, thread, readable, found, blocked, agent, tries, committed>>

\* Out of tries, or the run failed, or the request did: an error is shown.
PollEnds ==
    /\ polled # None /\ (tries = MaxTries \/ run[polled].status = "failed") /\ polled' = None
    /\ UNCHANGED <<run, thread, readable, found, blocked, agent, shown, tries, committed>>

LostContact ==
    /\ polled # None /\ polled' = None
    /\ UNCHANGED <<run, thread, readable, found, blocked, agent, shown, tries, committed>>

\* The server starts anew, and its threads are gone.
Restart ==
    /\ Lossy /\ thread # {} /\ thread' = {}
    /\ UNCHANGED <<run, readable, found, blocked, agent, page, committed>>

\* "Review, price and import" is there for findings that do not block.
Leads(r) == shown = r /\ r \notin blocked

\* The link under the script and the history lead to any run, whose page imports it:
\* commit_run_route refuses only a completed one.
Opened(r) == Leads(r) \/ (Direct /\ run[r] # Absent)

Import(r) ==
    /\ Opened(r) /\ run[r].status # "completed"
    /\ run' = [run EXCEPT ![r].status = "completed"] /\ committed' = committed \cup {r}
    /\ UNCHANGED <<thread, readable, found, blocked, agent, page>>

Next ==
    \/ \E r \in Runs : ScanOverSsh(r) \/ ThreadFails(r) \/ ThreadEnds(r) \/ ScanExport(r)
    \/ \E r \in Runs : AgentScript(r) \/ Paste(r) \/ Upload(r) \/ UploadLost(r) \/ Done(r) \/ TokenExpires(r)
    \/ PollAgain \/ Settled \/ PollEnds \/ LostContact \/ Restart
    \/ \E r \in Runs : Import(r)

Spec == Init /\ [][Next]_vars

\* What goes on by itself: threads, and the page that polls.
Work == \E r \in Runs : ThreadEnds(r) \/ ThreadFails(r)
Asks == PollAgain \/ Settled \/ PollEnds

-----------------------------------------------------------------------------
\* The findings on the scan page are those of a scan that ended well.
ShownIsFound == shown # None => found[shown] = All

\* A subscriber is found for every chunk: what the agent could not send is missed.
ScannedIsWhole == \A r \in Runs : run[r].status = "scanned" => found[r] = All

\* "This scan cannot be imported as-is": no run that blocks is imported.
BlockedStays == committed \cap blocked = {}

\* Only what was scanned is imported.
ImportedIsScanned == \A r \in committed' \ committed : run[r].status = "scanned"

\* "a failure must land on the row, not vanish": no scan over SSH stays scanning.
ScanSettles == \A r \in Runs : run[r] # [source |-> "ssh", status |-> "scanning"]

\* The button is free again.
PollingEnds == polled = None
=============================================================================
