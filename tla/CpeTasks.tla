------------------------------ MODULE CpeTasks ------------------------------
(***************************************************************************)
(* The queue of CWMP tasks of one CPE: the operators' requests of           *)
(* routes/cpe.py, the sessions of routes/tr069.py and services/tr069/       *)
(* session.py. A CPE is never called; it opens a session (Inform), is       *)
(* given one RPC per turn, and may fall silent at any point, before or      *)
(* after it has carried out what it was given.  Its messages name no task:  *)
(* any of them may come in any turn.                                        *)
(***************************************************************************)
EXTENDS Naturals, Sequences, FiniteSetsExt, SequencesExt

CONSTANTS
    MaxTasks,       \* bound: rows of cpe_tasks in one life of the device row
    MaxAttempts     \* CpeTask.max_attempts

CpeTasksAssumption == MaxTasks \in Nat \ {0} /\ MaxAttempts \in Nat \ {0}

VARIABLES
    status,     \* CpeDevice.status, "absent" when there is no row
    tasks,      \* the device's CpeTask rows in the order of created_at
    session,    \* "none", "told" (Inform answered), "busy" (an RPC is with the
                \* CPE), "ran" (carried out, not yet answered)
    rpc,        \* the task whose RPC is with the CPE, 0 for none
    approved    \* history: an operator approved this row

vars == <<status, tasks, session, rpc, approved>>

States == {"queued", "sent", "done", "failed", "expired"}
Open == {"queued", "sent"}
\* History: how often the device carried it out, that it was cancelled before it was
\* handed out, and that it was called done by a message that answers no RPC.
Task == [state : States, attempts : 0..(MaxAttempts + 1), ran : Nat, unsent : BOOLEAN, claimed : BOOLEAN]
New == [state |-> "queued", attempts |-> 0, ran |-> 0, unsent |-> FALSE, claimed |-> FALSE]

Init ==
    /\ status = "absent"
    /\ tasks = <<>>
    /\ session = "none"
    /\ rpc = 0
    /\ approved = FALSE

OpenTasks(ts) == {i \in DOMAIN ts : ts[i].state \in Open}
Sent(ts) == {i \in DOMAIN ts : ts[i].state = "sent"}

Queue(ts) == IF Len(ts) < MaxTasks THEN Append(ts, New) ELSE ts

\* Faulty variant: what was sent is forgotten for the next in the queue.
NextTaskForgetsSent(ts) ==
    LET queued == {i \in DOMAIN ts : ts[i].state = "queued"}
    IN IF queued = {} THEN 0 ELSE Min(queued)

IssueUncapped(ts, k) ==
    LET t == IF OpenTasks(ts) = {} THEN 0 ELSE Min(OpenTasks(ts))
    IN IF status # "active" \/ t = 0
         THEN tasks' = ts /\ session' = "none" /\ rpc' = 0
       ELSE /\ tasks' = [ts EXCEPT ![t].state = "sent", ![t].attempts = @ + 1]
            /\ session' = "busy" /\ rpc' = t

-----------------------------------------------------------------------------
(* The operators. *)

Approve ==
    /\ status \in {"pending", "disabled", "active"}
    /\ Len(tasks) < MaxTasks
    /\ status' = "active"
    /\ tasks' = Queue(tasks)
    /\ approved' = TRUE
    /\ UNCHANGED <<session, rpc>>

\* Settings, reboot, factory reset and refresh, refused unless the row is active.
Order ==
    /\ status = "active"
    /\ Len(tasks) < MaxTasks
    /\ tasks' = Queue(tasks)
    /\ UNCHANGED <<status, session, rpc, approved>>

Cancel(i) ==
    /\ i \in OpenTasks(tasks)
    /\ tasks' = [tasks EXCEPT ![i].state = "expired",
                              ![i].unsent = tasks[i].state = "queued"]
    /\ UNCHANGED <<status, session, rpc, approved>>

\* PUT with a status; only the ones that stop the device (Approve covers the rest).
Disable ==
    /\ status = "active"
    /\ status' = "disabled"
    /\ UNCHANGED <<tasks, session, rpc, approved>>

\* The row goes with its tasks and sessions: the token of a session that is
\* open no longer resumes.
Reject ==
    /\ status # "absent"
    /\ status' = "absent" /\ tasks' = <<>> /\ approved' = FALSE
    /\ session' = "none" /\ rpc' = 0

\* POST /enrollment writes an active row before the device is seen.
Enroll ==
    /\ status = "absent"
    /\ status' = "active"
    /\ approved' = TRUE
    /\ UNCHANGED <<tasks, session, rpc>>

-----------------------------------------------------------------------------
(* The device. *)

\* A new session; whatever was outstanding in the last one stays "sent".
Inform ==
    /\ session = "none"
    /\ session' = "told"
    /\ rpc' = 0
    /\ IF status = "absent"
         THEN status' = "pending" /\ tasks' = Queue(tasks)
         ELSE UNCHANGED <<status, tasks>>
    /\ UNCHANGED approved

\* complete_task on the task sent first, whatever the message is; a task cancelled
\* meanwhile is not among them.
Closed(ts, result) ==
    IF Sent(ts) = {} THEN ts
    ELSE [ts EXCEPT ![Min(Sent(ts))].state = result,
                    ![Min(Sent(ts))].claimed = result = "done" /\ session # "ran"]

Expired(ts, k) ==
    [i \in DOMAIN ts |-> IF i <= k /\ ts[i].state \in Open
                         THEN [ts[i] EXCEPT !.state = "expired"] ELSE ts[i]]

\* The index of the task to deliver: the oldest that is queued or was sent in
\* a session that was given up; 0 for none.
NextTask(ts) == IF OpenTasks(ts) = {} THEN 0 ELSE Min(OpenTasks(ts))

\* The rest of a turn once the answer is recorded: ts are the rows by then, k
\* the last row older than its lifetime.
Issue(ts, k) ==
    LET live == Expired(ts, k)
        t == NextTask(live)
    IN IF status # "active" \/ t = 0
         THEN /\ tasks' = IF status = "active" THEN live ELSE ts
              /\ session' = "none" /\ rpc' = 0
       ELSE IF live[t].attempts + 1 > MaxAttempts
         THEN /\ tasks' = [live EXCEPT ![t].state = "failed", ![t].attempts = @ + 1]
              /\ session' = "none" /\ rpc' = 0
       ELSE /\ tasks' = [live EXCEPT ![t].state = "sent", ![t].attempts = @ + 1]
            /\ session' = "busy" /\ rpc' = t

\* The empty POST closes nothing; a Fault and every other message close a task, also
\* right after the Inform, when what is closed was sent in a session that was given up.
Heard(message) ==
    CASE message = "empty" -> tasks
      [] message = "fault" -> Closed(tasks, "failed")
      [] message = "other" -> Closed(tasks, "done")

Turn ==
    /\ session # "none"
    /\ \E message \in {"empty", "fault", "other"}, k \in 0..Len(tasks) : Issue(Heard(message), k)
    /\ UNCHANGED <<status, approved>>

\* A TransferComplete closes the task its command key names, in whatever state, and leaves
\* the session to go on; the key may come in the session of another device.
TransferComplete(i, result) ==
    /\ i \in DOMAIN tasks
    /\ tasks' = [tasks EXCEPT ![i].state = result, ![i].claimed = result = "done"]
    /\ UNCHANGED <<status, session, rpc, approved>>

Run ==
    /\ session = "busy"
    /\ session' = "ran"
    /\ tasks' = [tasks EXCEPT ![rpc].ran = @ + 1]
    /\ UNCHANGED <<status, rpc, approved>>

\* The device or the line goes silent; also a session past SESSION_MAX_AGE.
Drop ==
    /\ session # "none"
    /\ session' = "none"
    /\ rpc' = 0
    /\ UNCHANGED <<status, tasks, approved>>

Next ==
    \/ Approve \/ Order \/ Disable \/ Reject \/ Enroll
    \/ \E i \in 1..MaxTasks : Cancel(i) \/ \E result \in {"done", "failed"} : TransferComplete(i, result)
    \/ Inform \/ Turn \/ Run \/ Drop

Spec == Init /\ [][Next]_vars

\* What goes on by itself: the device informs periodically and runs what it was
\* given; it does not drop every one of its sessions before the first turn.
Asks == Inform
Work == Run
Turns == Turn

-----------------------------------------------------------------------------
TypeOK ==
    /\ status \in {"absent", "pending", "active", "disabled"}
    /\ tasks \in Seq(Task) /\ Len(tasks) <= MaxTasks
    /\ session \in {"none", "told", "busy", "ran"}
    /\ rpc \in 0..MaxTasks
    /\ approved \in BOOLEAN

\* An answer names no task, so it is credited to the one that is "sent": there
\* is never more than one, and while a session waits for an answer no other
\* task than the one handed out, also after sessions that broke off and messages
\* that answer nothing.
AnswerFindsItsTask ==
    /\ Cardinality(Sent(tasks)) <= 1
    /\ session \in {"busy", "ran"} => Sent(tasks) \subseteq {rpc}

\* A task that an answer closed as done was carried out: no answer is credited to
\* another task.  What a message that answers nothing, or a TransferComplete, calls
\* done may never have run.
AnsweredWasRun == \A i \in DOMAIN tasks : tasks[i].state = "done" => tasks[i].ran > 0 \/ tasks[i].claimed

\* Nothing queued or left over is carried out by a device no operator approved,
\* also after a rejected device has come back.
ApprovedFirst == (\E i \in DOMAIN tasks : tasks[i].ran > 0) => approved

\* A task cancelled before it was handed out is never carried out.
CancelledUnsentStays == \A i \in DOMAIN tasks : tasks[i].unsent => tasks[i].ran = 0

\* Tasks are carried out in the order they were queued: when one runs, every
\* earlier one is closed.
InOrder ==
    \A i \in DOMAIN tasks :
         (i \in DOMAIN tasks' /\ tasks'[i].ran > tasks[i].ran)
             => \A j \in 1..(i - 1) : tasks[j].state \notin Open

\* While the device stays active and goes on informing, a queued task is closed
\* one way or another: retries are counted.
QueuedIsClosed == status = "active" => OpenTasks(tasks) = {}

-----------------------------------------------------------------------------
\* Said in the sources and not so in the code: no run checks what follows, and
\* the README tells how each of them is broken.

\* session.py next_task: a task sent in an abandoned session "never ran", so
\* handing it out again carries it out once.
RunsOnce == \A i \in DOMAIN tasks : tasks[i].ran <= 1

\* session.py complete_task: "Record a CPE response against the task that caused it."
DoneWasRun == \A i \in DOMAIN tasks : tasks[i].state = "done" => tasks[i].ran > 0
=============================================================================
