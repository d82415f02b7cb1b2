------------------------------ MODULE FileImport ------------------------------
(***************************************************************************)
(* Importing subscribers from a file: the page reads the file, asks for a  *)
(* dry run, lets the operator map the packages the file names, and asks    *)
(* for the import; the server goes through the rows, each in a savepoint   *)
(* of one transaction.                                                     *)
(***************************************************************************)
EXTENDS Naturals, FiniteSets

CONSTANTS Files,     \* files the operator has
          LoginsOf,  \* the subscribers of each
          Foreign,   \* subscribers whose package the tenant does not have
          Bad,       \* subscribers whose creation raises
          Overlap,   \* files are chosen while another is read or a request runs
          Edits,     \* choices are changed without previewing again
          MaxPicks,  \* bound: files chosen
          MaxJobs    \* bound: dry runs and imports

Logins == UNION {LoginsOf[f] : f \in Files}

FileAssumption ==
    /\ DOMAIN LoginsOf = Files /\ Foreign \subseteq Logins /\ Bad \subseteq Logins
    /\ Overlap \in BOOLEAN /\ Edits \in BOOLEAN /\ MaxPicks \in Nat /\ MaxJobs \in Nat

VARIABLES
    name,     \* page: the file named
    csv,      \* page: the file whose text is held
    readers,  \* page: files being read
    choice,   \* page: "create", or "map" to a package there is
    preview,  \* page: the dry run shown, or NoSummary
    result,   \* page: the import shown, or NoSummary
    busy,     \* page: a request runs
    job,      \* server: the request being worked on, or NoJob
    clients,  \* server: clients of each login
    mapped,   \* server: clients put on the package they were mapped to
    placeholder, \* server: the file's package exists
    picks, jobs

vars == <<name, csv, readers, choice, preview, result, busy, job, clients, mapped, placeholder, picks, jobs>>
page == <<name, csv, readers, choice, preview, result, busy>>
store == <<clients, mapped, placeholder>>

None == "none"
NoSummary == [of |-> "none"]
NoJob == [at |-> "none"]

TypeOK ==
    /\ name \in Files \cup {None} /\ csv \in Files \cup {None} /\ readers \subseteq Files
    /\ choice \in {"create", "map"} /\ busy \in BOOLEAN
    /\ clients \in [Logins -> 0 .. 2] /\ mapped \subseteq Logins /\ placeholder \in BOOLEAN
    /\ job = NoJob \/ (job.left \subseteq Logins /\ job.flushed \subseteq Logins /\ job.made \subseteq Logins)

Init ==
    /\ name = None /\ csv = None /\ readers = {} /\ choice = "create" /\ preview = NoSummary /\ result = NoSummary
    /\ busy = FALSE /\ job = NoJob /\ clients = [l \in Logins |-> 0] /\ mapped = {} /\ placeholder = FALSE
    /\ picks = 0 /\ jobs = 0

-----------------------------------------------------------------------------
\* onPickFile
Pick(f) ==
    /\ picks < MaxPicks /\ (Overlap \/ (readers = {} /\ ~busy)) /\ picks' = picks + 1
    /\ name' = f /\ preview' = NoSummary /\ result' = NoSummary /\ readers' = readers \cup {f}
    /\ UNCHANGED <<csv, choice, busy, job, store, jobs>>

\* onload: whichever file is read last is the text.
Read(f) ==
    /\ f \in readers /\ readers' = readers \ {f} /\ csv' = f
    /\ UNCHANGED <<name, choice, preview, result, busy, job, store, picks, jobs>>

\* onerror
ReadFails(f) ==
    /\ f \in readers /\ readers' = readers \ {f}
    /\ UNCHANGED <<name, csv, choice, preview, result, busy, job, store, picks, jobs>>

Resolutions == preview # NoSummary /\ preview.unknown # {}

\* The package select; without Edits the preview that follows is part of it.
Choose(c) ==
    /\ Resolutions /\ result = NoSummary /\ (~busy \/ Overlap) /\ c # choice /\ choice' = c
    /\ preview' = IF Edits THEN preview ELSE NoSummary
    /\ UNCHANGED <<name, csv, readers, result, busy, job, store, picks, jobs>>

Ask(dry) ==
    /\ ~busy /\ csv # None /\ jobs < MaxJobs /\ (Overlap \/ readers = {})
    /\ busy' = TRUE /\ jobs' = jobs + 1
    /\ job' = [at |-> "asked", of |-> csv, choice |-> choice, dry |-> dry,
               left |-> LoginsOf[csv], flushed |-> {}, made |-> {}, raised |-> {}, package |-> FALSE]

RunPreview ==
    /\ Ask(TRUE) /\ result' = NoSummary
    /\ UNCHANGED <<name, csv, readers, choice, preview, store, picks>>

\* The button is there while a dry run is shown that has rows to create.
RunCommit ==
    /\ preview # NoSummary /\ result = NoSummary /\ preview.made # {} /\ Ask(FALSE)
    /\ UNCHANGED <<name, csv, readers, choice, preview, result, store, picks>>

-----------------------------------------------------------------------------
\* process_import: the packages no name matches are made first.
Start ==
    /\ job.at = "asked"
    /\ job' = [job EXCEPT !.at = "rows", !.package = placeholder \/
               (~job.dry /\ job.choice = "create" /\ LoginsOf[job.of] \cap Foreign # {})]
    /\ UNCHANGED <<page, store, picks, jobs>>

\* _clean_and_validate
Taken(l) == clients[l] > 0 \/ l \in job.flushed

\* The row's package went with the transaction that made it.
Orphan(l) == l \in Foreign /\ job.choice = "create" /\ ~job.package
Raises(l) == l \in Bad \/ Orphan(l)

InvalidRow(l) ==
    /\ job.at = "rows" /\ l \in job.left /\ Taken(l)
    /\ job' = [job EXCEPT !.left = @ \ {l}]
    /\ UNCHANGED <<page, store, picks, jobs>>

ValidRow(l) ==
    /\ job.at = "rows" /\ l \in job.left /\ ~Taken(l)
    /\ job.dry \/ ~Raises(l)
    /\ job' = [job EXCEPT !.left = @ \ {l}, !.made = @ \cup {l},
                          !.flushed = IF job.dry THEN @ ELSE @ \cup {l}]
    /\ UNCHANGED <<page, store, picks, jobs>>

\* A row that raises: session.rollback() ends the whole transaction.
FailedRow(l) ==
    /\ job.at = "rows" /\ l \in job.left /\ ~Taken(l) /\ ~job.dry /\ Raises(l)
    /\ job' = [job EXCEPT !.left = @ \ {l}, !.raised = @ \cup {l}, !.flushed = {}, !.package = placeholder]
    /\ UNCHANGED <<page, store, picks, jobs>>

Summary == [of |-> job.of, choice |-> job.choice, made |-> job.made, raised |-> job.raised,
            unknown |-> IF job.choice = "map" \/ placeholder THEN {} ELSE LoginsOf[job.of] \cap Foreign]

\* Faulty variant: a dry run writes as well.
WrittenAlways == job.made
\* What the transaction holds at its end.
Written == job.flushed

\* commit, and the answer.
Finish ==
    /\ job.at = "rows" /\ job.left = {}
    /\ clients' = [l \in Logins |-> clients[l] + (IF l \in Written THEN 1 ELSE 0)]
    /\ mapped' = IF job.choice = "map" THEN mapped \cup (Written \cap Foreign) ELSE mapped
    /\ placeholder' = IF job.dry THEN placeholder ELSE job.package
    /\ preview' = IF job.dry THEN Summary ELSE preview
    /\ result' = IF job.dry THEN result ELSE Summary
    /\ busy' = FALSE /\ job' = NoJob /\ UNCHANGED <<name, csv, readers, choice, picks, jobs>>

\* An error, before anything is written.
Fails ==
    /\ job # NoJob /\ job' = NoJob /\ busy' = FALSE
    /\ UNCHANGED <<name, csv, readers, choice, preview, result, store, picks, jobs>>

\* A client entered elsewhere.
Entered(l) ==
    /\ clients[l] = 0 /\ job = NoJob /\ clients' = [clients EXCEPT ![l] = 1]
    /\ UNCHANGED <<page, job, mapped, placeholder, picks, jobs>>

Next ==
    \/ \E f \in Files : Pick(f) \/ Read(f) \/ ReadFails(f)
    \/ \E c \in {"create", "map"} : Choose(c)
    \/ RunPreview \/ RunCommit \/ Start \/ Finish \/ Fails
    \/ \E l \in Logins : InvalidRow(l) \/ ValidRow(l) \/ FailedRow(l) \/ Entered(l)

Spec == Init /\ [][Next]_vars

-----------------------------------------------------------------------------
\* A subscriber who is in two files, or was entered by hand, has one client.
OneClientEach == \A l \in Logins : clients[l] <= 1

\* "Created n": the clients the result lists exist.
ReportedIsStored == result # NoSummary => \A l \in result.made : clients[l] > 0

\* "no writes": a dry run leaves nothing behind.
DryRunsWriteNothing == job # NoJob /\ job.dry => UNCHANGED store

\* The import is of the file and choices that were previewed.
ImportedIsPreviewed == (result # NoSummary /\ ~busy) =>
                           preview.of = result.of /\ preview.choice = result.choice

\* The dry run shown is of the text the button imports.
PreviewIsOfText == (readers = {} /\ preview # NoSummary) => preview.of = csv

-----------------------------------------------------------------------------
\* Said in the sources and not so in the code: no run checks what follows, and
\* the README tells how each of them is broken.

\* "each row is created in its own SAVEPOINT so one bad row can't roll back the rest"
BadRowsAlone == result' # result /\ result' # NoSummary => result'.raised \subseteq Bad

\* The text is the text of the file named.
TextIsOfFile == (readers = {} /\ csv # None) => csv = name
=============================================================================
