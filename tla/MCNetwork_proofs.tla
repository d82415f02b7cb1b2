------------------------- MODULE MCNetwork_proofs --------------------------
(***************************************************************************)
(* Proofs about MCNetwork, for any values of its constants: the queue of a *)
(* CPE, its page and the list of units; the linking of a router and the    *)
(* services of its ports; the nodes of the plant, the ports of a node and  *)
(* the map; the imports of a router and of a file; and the cutover.  Every *)
(* step of the hub is one of the part it is about, so each part has an     *)
(* inductive invariant of its own, and a theorem joins those it speaks of. *)
(***************************************************************************)
EXTENDS MCNetwork, FiniteSetTheorems, SequenceTheorems, WellFoundedInduction, TLAPS

-----------------------------------------------------------------------------
(*                       What a step of the hub is                         *)

LEMMA TasksSteps ==
    part = "tasks" /\ [Next]_vars => part' = "tasks" /\ [Tasks!Next]_(Tasks!vars)
BY DEF Next, vars, Tasks!vars

LEMMA UnitSteps ==
    part = "unit" /\ [Next]_vars => part' = "unit" /\ [Unit!Next]_(Unit!vars)
BY DEF Next, vars, Unit!vars

LEMMA FleetSteps ==
    part = "fleetHasty" /\ [Next]_vars
        => part' = "fleetHasty" /\ [HastyFleet!Next]_(HastyFleet!vars)
BY DEF Next, vars, HastyFleet!vars

\* No step changes what the behaviour is about.
LEMMA PartStays == [Next]_vars => part' = part
BY DEF Next, vars

-----------------------------------------------------------------------------
(*                        The rows of the queue                            *)

LEMMA LeastNumber ==
    ASSUME NEW S, S \subseteq Nat, S # {}
    PROVE  Tasks!Min(S) \in S /\ \A n \in S : Tasks!Min(S) <= n
<1> DEFINE Less == {pair \in Nat \X Nat : pair[1] < pair[2]}
<1>1. IsWellFoundedOn(Less, Nat)
  BY NatLessThanWellFounded DEF OpToRel
<1>2. PICK n \in S : \A m \in S : <<m, n>> \notin Less
  <2> HIDE DEF Less
  <2> QED
    BY <1>1, WFMin
<1>3. \A m \in S : n <= m
  <2> SUFFICES ASSUME NEW m \in S, m < n PROVE FALSE
    OBVIOUS
  <2>1. <<m, n>> \in Less
    OBVIOUS
  <2> QED
    BY <1>2, <2>1
<1>4. \E x \in S : \A y \in S : x <= y
  BY <1>2, <1>3
<1> QED
  BY <1>4 DEF Tasks!Min

\* The variables of the part, by their names in CpeTasks.
status == s1
tasks == s2
session == s3
rpc == s4
approved == s5
USE DEF status, tasks, session, rpc, approved

Row == [state : Tasks!States, attempts : Nat, ran : Nat, unsent : BOOLEAN, claimed : BOOLEAN]

Shut(r) == r.state \notin Tasks!Open

\* A row that waits was not run, nor was one that was cancelled while it waited; one
\* that is done was, or was called so by what is no answer.
RowOK(r) ==
    /\ r.state = "queued" => r.ran = 0 /\ ~r.unsent
    /\ r.unsent => r.ran = 0 /\ Shut(r)
    /\ r.state = "done" => r.ran > 0 \/ r.claimed

\* Rows are handed out oldest first: those before the one that is sent are closed.
OldestSent(ts) ==
    \A i \in DOMAIN ts : ts[i].state = "sent" => \A j \in 1..(i - 1) : Shut(ts[j])

RowsOK(ts) ==
    /\ ts \in Seq(Row)
    /\ \A i \in DOMAIN ts : RowOK(ts[i])
    /\ OldestSent(ts)

\* The CPE has the RPC of row t: no other row is sent, and t itself is no longer
\* one that waits, nor was it when it was cancelled.
Handed(ts, t) ==
    /\ t \in DOMAIN ts
    /\ ts[t].state # "queued" /\ ~ts[t].unsent
    /\ Tasks!Sent(ts) \subseteq {t}

LEMMA RowsTyped ==
    ASSUME NEW ts \in Seq(Row)
    PROVE  /\ Len(ts) \in Nat /\ DOMAIN ts = 1..Len(ts)
           /\ \A i \in DOMAIN ts : ts[i] \in Row
OBVIOUS

\* Rows rewritten one by one are rows.
LEMMA Rewritten ==
    ASSUME NEW ts \in Seq(Row), NEW us, DOMAIN us = DOMAIN ts,
           us = [i \in DOMAIN us |-> us[i]], \A i \in DOMAIN ts : us[i] \in Row
    PROVE  us \in Seq(Row) /\ Len(us) = Len(ts)
<1>1. Len(ts) \in Nat /\ DOMAIN us = 1..Len(ts)
  BY RowsTyped
<1>2. us \in [1..Len(ts) -> Row]
  BY <1>1
<1> QED
  BY <1>1, <1>2

\* us is ts with some rows closed or marked, and none sent or queued anew.
Closing(ts, us) ==
    /\ us \in Seq(Row) /\ DOMAIN us = DOMAIN ts
    /\ \A i \in DOMAIN ts :
           /\ us[i].ran = ts[i].ran
           /\ us[i].state = ts[i].state \/ Shut(us[i])
           /\ us[i].state = "done" => ts[i].ran > 0 \/ us[i].claimed
           /\ us[i].unsent => Shut(us[i]) /\ (ts[i].unsent \/ ts[i].state = "queued")

LEMMA ClosingKeeps ==
    ASSUME NEW ts, NEW us, RowsOK(ts), Closing(ts, us)
    PROVE  /\ RowsOK(us)
           /\ Tasks!Sent(us) \subseteq Tasks!Sent(ts)
           /\ Tasks!OpenTasks(us) \subseteq Tasks!OpenTasks(ts)
<1>1. \A i \in DOMAIN ts : ts[i] \in Row /\ us[i] \in Row /\ RowOK(ts[i])
  BY RowsTyped DEF RowsOK, Closing
<1>2. \A i \in DOMAIN ts : RowOK(us[i])
  BY <1>1 DEF Closing, RowOK, Shut, Tasks!Open, Row
<1>3. \A i \in DOMAIN ts : /\ us[i].state = "sent" => ts[i].state = "sent"
                           /\ Shut(ts[i]) => Shut(us[i])
  BY DEF Closing, Shut, Tasks!Open
<1>4. \A i \in DOMAIN ts : \A j \in 1..(i - 1) : j \in DOMAIN ts
  BY RowsTyped DEF RowsOK
<1>5. OldestSent(us)
  BY <1>3, <1>4 DEF OldestSent, RowsOK, Closing
<1> QED
  BY <1>2, <1>3, <1>5 DEF RowsOK, Closing, Tasks!Sent, Tasks!OpenTasks, Shut

LEMMA QueueKeeps ==
    ASSUME NEW ts, RowsOK(ts)
    PROVE  LET us == Tasks!Queue(ts) IN
           /\ RowsOK(us)
           /\ Tasks!Sent(us) = Tasks!Sent(ts)
           /\ \A i \in DOMAIN ts : i \in DOMAIN us /\ us[i] = ts[i]
           /\ \A i \in DOMAIN us : i \in DOMAIN ts \/ us[i] = Tasks!New
<1> DEFINE us == Append(ts, Tasks!New)
           n == Len(ts)
<1>1. Tasks!New \in Row /\ RowOK(Tasks!New) /\ Tasks!New.state = "queued"
  BY DEF Tasks!New, Row, RowOK, Tasks!States
<1>2. /\ ts \in Seq(Row) /\ n \in Nat /\ DOMAIN ts = 1..n /\ OldestSent(ts)
      /\ \A i \in 1..n : RowOK(ts[i])
  BY RowsTyped DEF RowsOK
<1>3. us \in Seq(Row) /\ DOMAIN us = 1..n + 1 /\ us[n + 1] = Tasks!New
  BY <1>1, <1>2
<1>4. \A i \in 1..n : us[i] = ts[i]
  BY <1>2
<1> HIDE DEF us, n
<1>5. \A i \in 1..n + 1 : i \in 1..n \/ i = n + 1
  BY <1>2
<1>6. 1..n \subseteq 1..n + 1 /\ \A i \in 1..n : \A j \in 1..(i - 1) : j \in 1..n
  BY <1>2
<1>7. OldestSent(us)
  <2> SUFFICES ASSUME NEW i \in 1..n + 1, us[i].state = "sent", NEW j \in 1..(i - 1)
               PROVE  Shut(us[j])
    BY <1>3 DEF OldestSent
  <2>1. i \in 1..n
    BY <1>1, <1>3, <1>5
  <2> QED
    BY <2>1, <1>2, <1>4, <1>6 DEF OldestSent
<1>8. \A i \in 1..n + 1 : RowOK(us[i])
  BY <1>1, <1>2, <1>3, <1>4, <1>5
<1>9. Tasks!Sent(us) = Tasks!Sent(ts)
  BY <1>1, <1>2, <1>3, <1>4, <1>5, <1>6 DEF Tasks!Sent
<1>10. CASE Tasks!Queue(ts) = us
  BY <1>10, <1>2, <1>3, <1>4, <1>5, <1>6, <1>7, <1>8, <1>9 DEF RowsOK
<1>11. CASE Tasks!Queue(ts) = ts
  BY <1>11
<1> QED
  BY <1>10, <1>11 DEF Tasks!Queue, us

LEMMA SameIsClosing ==
    ASSUME NEW ts, RowsOK(ts)
    PROVE  Closing(ts, ts)
BY RowsTyped DEF RowsOK, RowOK, Closing

\* One row is rewritten.
LEMMA OneRewritten ==
    ASSUME NEW ts \in Seq(Row), NEW i \in DOMAIN ts, NEW row \in Row
    PROVE  LET us == [ts EXCEPT ![i] = row] IN
           /\ us \in Seq(Row) /\ DOMAIN us = DOMAIN ts /\ us[i] = row
           /\ \A j \in DOMAIN ts : j # i => us[j] = ts[j]
<1> DEFINE us == [ts EXCEPT ![i] = row]
<1>1. DOMAIN us = DOMAIN ts /\ us = [j \in DOMAIN us |-> us[j]] /\ us[i] = row
  BY RowsTyped
<1>2. \A j \in DOMAIN ts : j # i => us[j] = ts[j]
  BY RowsTyped
<1>3. \A j \in DOMAIN ts : us[j] \in Row
  BY <1>1, <1>2, RowsTyped
<1> HIDE DEF us
<1>4. us \in Seq(Row)
  BY <1>1, <1>3, Rewritten
<1> QED
  BY <1>1, <1>2, <1>4 DEF us

\* A row is closed or cancelled.
LEMMA OneClosed ==
    ASSUME NEW ts, RowsOK(ts), NEW i \in DOMAIN ts, NEW row \in Row,
           row.ran = ts[i].ran, Shut(row), row.state = "done" => ts[i].ran > 0 \/ row.claimed,
           row.unsent => ts[i].unsent \/ ts[i].state = "queued"
    PROVE  Closing(ts, [ts EXCEPT ![i] = row])
<1> DEFINE us == [ts EXCEPT ![i] = row]
<1>1. ts \in Seq(Row)
  BY DEF RowsOK
<1>2. us \in Seq(Row) /\ DOMAIN us = DOMAIN ts /\ us[i] = row /\ \A j \in DOMAIN ts : j # i => us[j] = ts[j]
  BY <1>1, OneRewritten
<1>3. Closing(ts, ts)
  BY SameIsClosing
<1> HIDE DEF us
<1>4. Closing(ts, us)
  BY <1>2, <1>3 DEF Closing
<1> QED
  BY <1>4 DEF us

LEMMA ExpiredCloses ==
    ASSUME NEW ts, RowsOK(ts), NEW k \in Nat
    PROVE  Closing(ts, Tasks!Expired(ts, k))
<1> DEFINE us == Tasks!Expired(ts, k)
<1>1. ts \in Seq(Row) /\ \A i \in DOMAIN ts : ts[i] \in Row /\ RowOK(ts[i])
  BY RowsTyped DEF RowsOK
<1>2. DOMAIN us = DOMAIN ts /\ us = [i \in DOMAIN us |-> us[i]]
  BY DEF Tasks!Expired
<1>3. ASSUME NEW i \in DOMAIN ts
      PROVE  us[i] = ts[i] \/ (us[i] = [ts[i] EXCEPT !.state = "expired"] /\ ts[i].state \in Tasks!Open)
  BY DEF Tasks!Expired
<1>4. ASSUME NEW i \in DOMAIN ts
      PROVE  /\ us[i] \in Row /\ us[i].ran = ts[i].ran /\ us[i].unsent = ts[i].unsent
             /\ us[i].claimed = ts[i].claimed
             /\ \/ us[i].state = ts[i].state
                \/ us[i].state = "expired" /\ ts[i].state \in Tasks!Open
  BY <1>1, <1>3 DEF Row, Tasks!States
<1> HIDE DEF us
<1>5. us \in Seq(Row)
  BY <1>1, <1>2, <1>4, Rewritten
<1>6. ASSUME NEW i \in DOMAIN ts
      PROVE  /\ us[i].state = ts[i].state \/ Shut(us[i])
             /\ us[i].state = "done" => ts[i].ran > 0 \/ us[i].claimed
             /\ us[i].unsent => Shut(us[i]) /\ ts[i].unsent
  BY <1>1, <1>4 DEF Shut, RowOK, Tasks!Open
<1>7. Closing(ts, us)
  BY <1>2, <1>4, <1>5, <1>6 DEF Closing
<1> QED
  BY <1>7 DEF us

\* complete_task closes the row that is sent, if one is.
LEMMA ClosedCloses ==
    ASSUME NEW ts, RowsOK(ts), NEW result \in {"done", "failed"},
           session = "ran" => \A i \in Tasks!Sent(ts) : ts[i].ran > 0
    PROVE  Closing(ts, Tasks!Closed(ts, result))
<1>1. CASE Tasks!Sent(ts) = {}
  BY <1>1, SameIsClosing DEF Tasks!Closed
<1>2. CASE Tasks!Sent(ts) # {}
  <2> DEFINE i == Tasks!Min(Tasks!Sent(ts))
             row == [ts[i] EXCEPT !.state = result, !.claimed = result = "done" /\ session # "ran"]
  <2>1. Tasks!Sent(ts) \subseteq Nat
    BY RowsTyped DEF RowsOK, Tasks!Sent
  <2>2. i \in Tasks!Sent(ts)
    BY <1>2, <2>1, LeastNumber
  <2> HIDE DEF i
  <2>3. i \in DOMAIN ts /\ ts[i] \in Row /\ ts[i].state = "sent" /\ RowOK(ts[i])
    BY <2>2, RowsTyped DEF RowsOK, Tasks!Sent
  <2>4. /\ row \in Row /\ row.ran = ts[i].ran /\ row.state = result /\ ~row.unsent /\ Shut(row)
        /\ row.claimed = (result = "done" /\ session # "ran")
    BY <2>3 DEF Row, RowOK, Shut, Tasks!States, Tasks!Open
  <2> HIDE DEF row
  <2>5. Closing(ts, [ts EXCEPT ![i] = row])
    BY <2>2, <2>3, <2>4, OneClosed
  <2>6. Tasks!Closed(ts, result) = [ts EXCEPT ![i] = row]
    BY <1>2 DEF Tasks!Closed, i, row
  <2> QED
    BY <2>5, <2>6
<1> QED
  BY <1>1, <1>2

\* The oldest open row is handed out.
LEMMA HandingOut ==
    ASSUME NEW ts, RowsOK(ts), NEW t \in Tasks!OpenTasks(ts),
           \A i \in Tasks!OpenTasks(ts) : t <= i,
           NEW row \in Row, row.state = "sent", row.ran = ts[t].ran, row.unsent = ts[t].unsent
    PROVE  LET us == [ts EXCEPT ![t] = row] IN RowsOK(us) /\ Handed(us, t)
<1> DEFINE us == [ts EXCEPT ![t] = row]
<1>1. /\ ts \in Seq(Row) /\ t \in DOMAIN ts /\ DOMAIN ts = 1..Len(ts) /\ Len(ts) \in Nat
      /\ \A i \in DOMAIN ts : RowOK(ts[i])
  BY RowsTyped DEF RowsOK, Tasks!OpenTasks
<1>2. /\ us \in Seq(Row) /\ DOMAIN us = DOMAIN ts /\ us[t] = row
      /\ \A j \in DOMAIN ts : j # t => us[j] = ts[j]
  BY <1>1, OneRewritten
<1> HIDE DEF us
<1>3. ts[t].state \in Tasks!Open /\ ~ts[t].unsent
  BY <1>1 DEF Tasks!OpenTasks, Tasks!Open, RowOK, Shut
<1>4. RowOK(us[t])
  BY <1>2, <1>3 DEF RowOK
<1>5. \A j \in 1..(t - 1) : j \in DOMAIN ts /\ j # t /\ Shut(ts[j])
  BY <1>1 DEF Shut, Tasks!OpenTasks
<1>6. \A i \in DOMAIN ts : i # t /\ ts[i].state = "sent" => t < i
  BY <1>1 DEF Tasks!OpenTasks, Tasks!Open
<1>7. \A i \in DOMAIN ts : i # t => ts[i].state # "sent"
  BY <1>1, <1>3, <1>6 DEF RowsOK, OldestSent, Shut
<1>8. OldestSent(us)
  <2> SUFFICES ASSUME NEW i \in DOMAIN us, us[i].state = "sent", NEW j \in 1..(i - 1)
               PROVE  Shut(us[j])
    BY DEF OldestSent
  <2>1. i = t
    BY <1>2, <1>7
  <2> QED
    BY <2>1, <1>2, <1>5
<1>9. RowsOK(us)
  BY <1>1, <1>2, <1>4, <1>8 DEF RowsOK
<1>10. Handed(us, t)
  BY <1>1, <1>2, <1>3, <1>7 DEF Handed, Tasks!Sent
<1> QED
  BY <1>9, <1>10 DEF us

-----------------------------------------------------------------------------
(*                      The queue and the sessions                         *)

TasksInv ==
    /\ RowsOK(tasks)
    /\ session \in {"busy", "ran"} => Handed(tasks, rpc) /\ approved
    /\ session = "ran" => tasks[rpc].ran > 0
    /\ status \in {"active", "disabled"} => approved
    /\ \A i \in DOMAIN tasks : tasks[i].ran > 0 => approved

LEMMA RowMarked ==
    ASSUME NEW r \in Row, NEW state \in Tasks!States
    PROVE  LET marked == [r EXCEPT !.state = state, !.attempts = @ + 1] IN
           marked \in Row /\ marked.ran = r.ran /\ marked.state = state /\ marked.unsent = r.unsent
<1>1. r.attempts + 1 \in Nat
  BY DEF Row
<1> DEFINE n == r.attempts + 1
<1> HIDE DEF n
<1>2. \A m \in Nat : [r EXCEPT !.state = state, !.attempts = m] \in Row
  BY DEF Row
<1> QED
  BY <1>1, <1>2 DEF Row

\* What is left of a turn once its answer is recorded.
LEMMA IssueKeeps ==
    ASSUME RowsOK(tasks), NEW ts, Closing(tasks, ts), NEW k \in Nat, Tasks!Issue(ts, k)
    PROVE  /\ RowsOK(tasks')
           /\ session' \in {"none", "busy"}
           /\ session' = "busy" => /\ Handed(tasks', rpc') /\ status = "active"
                                  /\ tasks'[rpc'].state = "sent"
           /\ \A i \in DOMAIN tasks' : i \in DOMAIN tasks /\ tasks'[i].ran = tasks[i].ran
<1> DEFINE live == Tasks!Expired(ts, k)
           t == Tasks!NextTask(live)
<1>1. RowsOK(ts) /\ DOMAIN ts = DOMAIN tasks /\ \A i \in DOMAIN tasks : ts[i].ran = tasks[i].ran
  BY ClosingKeeps DEF Closing
<1>2. Closing(ts, live)
  BY <1>1, ExpiredCloses
<1>3. RowsOK(live) /\ DOMAIN live = DOMAIN ts /\ \A i \in DOMAIN ts : live[i].ran = ts[i].ran
  BY <1>1, <1>2, ClosingKeeps DEF Closing
<1>4. ASSUME t # 0 PROVE t \in Tasks!OpenTasks(live) /\ \A i \in Tasks!OpenTasks(live) : t <= i
  <2>1. Tasks!OpenTasks(live) \subseteq Nat
    BY <1>3, RowsTyped DEF RowsOK, Tasks!OpenTasks
  <2>2. Tasks!OpenTasks(live) # {} /\ t = Tasks!Min(Tasks!OpenTasks(live))
    BY <1>4 DEF Tasks!NextTask
  <2> HIDE DEF live, t
  <2> QED
    BY <2>1, <2>2, LeastNumber
<1> DEFINE failed == [live[t] EXCEPT !.state = "failed", !.attempts = @ + 1]
           sent == [live[t] EXCEPT !.state = "sent", !.attempts = @ + 1]
<1>5. ASSUME t # 0
      PROVE  /\ t \in DOMAIN live /\ live[t] \in Row /\ RowOK(live[t]) /\ ~live[t].unsent
             /\ failed \in Row /\ failed.ran = live[t].ran /\ failed.state = "failed"
             /\ failed.unsent = live[t].unsent
             /\ sent \in Row /\ sent.ran = live[t].ran /\ sent.state = "sent"
             /\ sent.unsent = live[t].unsent
  <2>1. t \in DOMAIN live /\ live[t].state \in Tasks!Open
    BY <1>4, <1>5 DEF Tasks!OpenTasks
  <2> HIDE DEF live, t
  <2>2. live[t] \in Row /\ RowOK(live[t])
    BY <1>3, <2>1, RowsTyped DEF RowsOK
  <2>3. ~live[t].unsent
    BY <2>1, <2>2 DEF RowOK, Shut, Tasks!Open
  <2>4. "failed" \in Tasks!States /\ "sent" \in Tasks!States
    BY DEF Tasks!States
  <2> QED
    BY <2>1, <2>2, <2>3, <2>4, RowMarked
<1>6. \/ tasks' \in {live, ts} /\ session' = "none"
      \/ t # 0 /\ tasks' = [live EXCEPT ![t] = failed] /\ session' = "none"
      \/ /\ t # 0 /\ tasks' = [live EXCEPT ![t] = sent] /\ session' = "busy" /\ rpc' = t
         /\ status = "active"
  BY DEF Tasks!Issue
<1> HIDE DEF live, t, failed, sent
<1>7. CASE tasks' \in {live, ts} /\ session' = "none"
  BY <1>7, <1>1, <1>3
<1>8. CASE t # 0 /\ tasks' = [live EXCEPT ![t] = failed] /\ session' = "none"
  <2>1. Closing(live, tasks')
    BY <1>8, <1>3, <1>5, OneClosed DEF Shut, Tasks!Open
  <2>2. RowsOK(tasks')
    BY <1>3, <2>1, ClosingKeeps
  <2>3. DOMAIN tasks' = DOMAIN live /\ \A i \in DOMAIN live : tasks'[i].ran = live[i].ran
    BY <2>1 DEF Closing
  <2> QED
    BY <1>8, <1>1, <1>3, <2>2, <2>3
<1>9. CASE /\ t # 0 /\ tasks' = [live EXCEPT ![t] = sent] /\ session' = "busy" /\ rpc' = t
           /\ status = "active"
  <2>1. RowsOK(tasks') /\ Handed(tasks', t)
    BY <1>9, <1>3, <1>4, <1>5, HandingOut
  <2>2. live \in Seq(Row)
    BY <1>3 DEF RowsOK
  <2>3. /\ DOMAIN tasks' = DOMAIN live /\ tasks'[t] = sent
        /\ \A i \in DOMAIN live : i # t => tasks'[i] = live[i]
    BY <1>9, <1>5, <2>2, OneRewritten
  <2>4. \A i \in DOMAIN live : tasks'[i].ran = live[i].ran
    BY <1>5, <1>9, <2>3
  <2>5. tasks'[rpc'].state = "sent"
    BY <1>5, <1>9, <2>3
  <2> QED
    BY <1>9, <1>1, <1>3, <2>1, <2>3, <2>4, <2>5
<1> QED
  BY <1>6, <1>7, <1>8, <1>9

LEMMA TasksBegin == Tasks!Init => TasksInv
<1> SUFFICES ASSUME Tasks!Init PROVE TasksInv
  OBVIOUS
<1>1. tasks = <<>> /\ session = "none" /\ status = "absent"
  BY DEF Tasks!Init
<1>2. RowsOK(<<>>)
  BY DEF RowsOK, OldestSent
<1> QED
  BY <1>1, <1>2 DEF TasksInv

\* The rows of a device that goes on being handled grow by one.
LEMMA TasksQueued ==
    ASSUME TasksInv, tasks' = Tasks!Queue(tasks)
    PROVE  /\ RowsOK(tasks')
           /\ \A t : Handed(tasks, t) => Handed(tasks', t) /\ tasks'[t] = tasks[t]
           /\ \A i \in DOMAIN tasks' : tasks'[i].ran > 0 => approved
<1>1. RowsOK(tasks)
  BY DEF TasksInv
<1>2. /\ RowsOK(tasks') /\ Tasks!Sent(tasks') = Tasks!Sent(tasks)
      /\ \A i \in DOMAIN tasks : i \in DOMAIN tasks' /\ tasks'[i] = tasks[i]
      /\ \A i \in DOMAIN tasks' : i \in DOMAIN tasks \/ tasks'[i] = Tasks!New
  BY <1>1, QueueKeeps
<1>3. Tasks!New.ran = 0
  BY DEF Tasks!New
<1>4. \A i \in DOMAIN tasks' : tasks'[i].ran > 0 => approved
  BY <1>2, <1>3 DEF TasksInv
<1> QED
  BY <1>2, <1>4 DEF Handed

\* A message of a session, which ends in the choice of the next task.
LEMMA TurnKeeps ==
    ASSUME TasksInv, Tasks!Turn
    PROVE  /\ RowsOK(tasks')
           /\ session' \in {"none", "busy"}
           /\ session' = "busy" => /\ Handed(tasks', rpc') /\ status = "active"
                                  /\ tasks'[rpc'].state = "sent"
           /\ \A i \in DOMAIN tasks' : i \in DOMAIN tasks /\ tasks'[i].ran = tasks[i].ran
           /\ UNCHANGED <<status, approved>>
<1>1. RowsOK(tasks) /\ tasks \in Seq(Row)
  BY DEF TasksInv, RowsOK
<1>2. PICK message \in {"empty", "fault", "other"}, k \in 0..Len(tasks) :
          Tasks!Issue(Tasks!Heard(message), k)
  BY DEF Tasks!Turn
<1>3. PICK ts : Closing(tasks, ts) /\ Tasks!Issue(ts, k)
  <2>1. session = "ran" => \A i \in Tasks!Sent(tasks) : tasks[i].ran > 0
    BY DEF TasksInv, Handed
  <2>2. Closing(tasks, Tasks!Closed(tasks, "done")) /\ Closing(tasks, Tasks!Closed(tasks, "failed"))
    BY <1>1, <2>1, ClosedCloses
  <2>3. Tasks!Heard(message) \in {tasks, Tasks!Closed(tasks, "done"), Tasks!Closed(tasks, "failed")}
    BY DEF Tasks!Heard
  <2> QED
    BY <1>1, <1>2, <2>2, <2>3, SameIsClosing
<1>4. k \in Nat
  BY <1>1
<1>5. UNCHANGED <<status, approved>>
  BY DEF Tasks!Turn
<1> QED
  BY <1>1, <1>3, <1>4, <1>5, IssueKeeps

LEMMA TasksStep == TasksInv /\ [Tasks!Next]_(Tasks!vars) => TasksInv'
<1> SUFFICES ASSUME TasksInv, [Tasks!Next]_(Tasks!vars) PROVE TasksInv'
  OBVIOUS
<1>1. RowsOK(tasks) /\ tasks \in Seq(Row) /\ \A i \in DOMAIN tasks : tasks[i] \in Row
  BY RowsTyped DEF TasksInv, RowsOK
<1>2. CASE Tasks!Approve
  <2>1. tasks' = Tasks!Queue(tasks) /\ approved' /\ UNCHANGED <<session, rpc>>
    BY <1>2 DEF Tasks!Approve
  <2> QED
    BY <2>1, TasksQueued DEF TasksInv
<1>3. CASE Tasks!Order
  <2>1. tasks' = Tasks!Queue(tasks) /\ UNCHANGED <<status, session, rpc, approved>>
    BY <1>3 DEF Tasks!Order
  <2> QED
    BY <2>1, TasksQueued DEF TasksInv
<1>4. CASE Tasks!Disable
  BY <1>4 DEF TasksInv, Tasks!Disable
<1>5. CASE Tasks!Reject
  <2>1. RowsOK(<<>>)
    BY DEF RowsOK, OldestSent
  <2> QED
    BY <1>5, <2>1 DEF TasksInv, Tasks!Reject
<1>6. CASE Tasks!Enroll
  BY <1>6 DEF TasksInv, Tasks!Enroll
\* A row is closed, by a cancellation or by a TransferComplete.
<1>7. ASSUME NEW i \in DOMAIN tasks, NEW row \in Row, row.ran = tasks[i].ran, Shut(row),
             row.state = "done" => row.claimed,
             row.unsent => tasks[i].unsent \/ tasks[i].state = "queued",
             tasks' = [tasks EXCEPT ![i] = row], UNCHANGED <<status, session, rpc, approved>>
      PROVE  TasksInv'
  <2>1. Closing(tasks, tasks')
    BY <1>1, <1>7, OneClosed
  <2>2. RowsOK(tasks') /\ Tasks!Sent(tasks') \subseteq Tasks!Sent(tasks)
    BY <1>1, <2>1, ClosingKeeps
  <2>3. ASSUME session \in {"busy", "ran"} PROVE Handed(tasks', rpc)
    <3>1. Handed(tasks, rpc)
      BY <2>3 DEF TasksInv
    <3>2. /\ DOMAIN tasks' = DOMAIN tasks /\ tasks'[i] = row
          /\ \A j \in DOMAIN tasks : j # i => tasks'[j] = tasks[j]
      BY <1>1, <1>7, OneRewritten
    <3>3. tasks'[rpc].state # "queued" /\ ~tasks'[rpc].unsent
      BY <1>7, <3>1, <3>2 DEF Handed, Shut, Tasks!Open
    <3> QED
      BY <2>2, <3>1, <3>2, <3>3 DEF Handed
  <2>4. DOMAIN tasks' = DOMAIN tasks /\ \A j \in DOMAIN tasks : tasks'[j].ran = tasks[j].ran
    BY <2>1 DEF Closing
  <2>5. session \in {"busy", "ran"} => rpc \in DOMAIN tasks
    BY DEF TasksInv, Handed
  <2> QED
    BY <1>7, <2>2, <2>3, <2>4, <2>5 DEF TasksInv
<1>13. ASSUME NEW i \in 1..MaxTasks, Tasks!Cancel(i) PROVE TasksInv'
  <2> DEFINE row == [tasks[i] EXCEPT !.state = "expired", !.unsent = tasks[i].state = "queued"]
  <2>1. /\ i \in DOMAIN tasks /\ tasks' = [tasks EXCEPT ![i] = row]
        /\ UNCHANGED <<status, session, rpc, approved>>
    BY <1>13 DEF Tasks!Cancel, Tasks!OpenTasks
  <2>2. /\ row \in Row /\ row.ran = tasks[i].ran /\ row.state = "expired" /\ Shut(row)
        /\ row.unsent => tasks[i].state = "queued"
    BY <1>1, <2>1 DEF Row, Tasks!States, Shut, Tasks!Open
  <2> HIDE DEF row
  <2> QED
    BY <1>7, <2>1, <2>2
<1>14. ASSUME NEW i \in 1..MaxTasks, NEW result \in {"done", "failed"}, Tasks!TransferComplete(i, result)
       PROVE  TasksInv'
  <2> DEFINE row == [tasks[i] EXCEPT !.state = result, !.claimed = result = "done"]
  <2>1. /\ i \in DOMAIN tasks /\ tasks' = [tasks EXCEPT ![i] = row]
        /\ UNCHANGED <<status, session, rpc, approved>>
    BY <1>14 DEF Tasks!TransferComplete
  <2>2. /\ row \in Row /\ row.ran = tasks[i].ran /\ row.state = result /\ Shut(row)
        /\ row.unsent = tasks[i].unsent /\ row.claimed = (result = "done")
    BY <1>1, <2>1 DEF Row, Tasks!States, Shut, Tasks!Open
  <2> HIDE DEF row
  <2> QED
    BY <1>7, <2>1, <2>2
<1>8. CASE Tasks!Inform
  <2>1. UNCHANGED approved /\ session' = "told"
    BY <1>8 DEF Tasks!Inform
  <2>2. CASE status' = "pending" /\ tasks' = Tasks!Queue(tasks)
    BY <2>1, <2>2, TasksQueued DEF TasksInv
  <2>3. CASE UNCHANGED <<status, tasks>>
    BY <2>1, <2>3 DEF TasksInv
  <2> QED
    BY <1>8, <2>2, <2>3 DEF Tasks!Inform
<1>9. CASE Tasks!Turn
  BY <1>9, TurnKeeps DEF TasksInv
<1>10. CASE Tasks!Run
  <2> DEFINE row == [tasks[rpc] EXCEPT !.ran = @ + 1]
  <2>1. session = "busy" /\ session' = "ran" /\ UNCHANGED <<status, rpc, approved>>
    BY <1>10 DEF Tasks!Run
  <2>2. Handed(tasks, rpc) /\ approved
    BY <2>1 DEF TasksInv
  <2>3. rpc \in DOMAIN tasks /\ RowOK(tasks[rpc])
    BY <1>1, <2>2 DEF Handed, RowsOK
  <2>4. /\ row \in Row /\ row.ran = tasks[rpc].ran + 1 /\ row.state = tasks[rpc].state
        /\ row.unsent = tasks[rpc].unsent /\ tasks[rpc].ran \in Nat
    <3>1. tasks[rpc] \in Row /\ tasks[rpc].ran \in Nat /\ tasks[rpc].ran + 1 \in Nat
      BY <1>1, <2>3 DEF Row
    <3>2. \A m \in Nat : [tasks[rpc] EXCEPT !.ran = m] \in Row
      BY <3>1 DEF Row
    <3> QED
      BY <3>1, <3>2 DEF Row
  <2>5. tasks' = [tasks EXCEPT ![rpc] = row]
    BY <1>10 DEF Tasks!Run
  <2> HIDE DEF row
  <2>6. /\ tasks' \in Seq(Row) /\ DOMAIN tasks' = DOMAIN tasks /\ tasks'[rpc] = row
        /\ \A j \in DOMAIN tasks : j # rpc => tasks'[j] = tasks[j]
    BY <1>1, <2>3, <2>4, <2>5, OneRewritten
  <2>7. \A j \in DOMAIN tasks : tasks'[j].state = tasks[j].state
    BY <2>4, <2>6
  <2>8. RowOK(row)
    BY <2>2, <2>3, <2>4 DEF RowOK, Handed
  <2>9. \A i \in DOMAIN tasks : \A j \in 1..(i - 1) : j \in DOMAIN tasks
    BY <1>1
  <2>10. RowsOK(tasks')
    BY <1>1, <2>6, <2>7, <2>8, <2>9 DEF RowsOK, OldestSent, Shut
  <2>11. Handed(tasks', rpc)
    BY <2>2, <2>4, <2>6, <2>7 DEF Handed, Tasks!Sent
  <2>12. row.ran > 0
    BY <2>4
  <2> QED
    BY <2>1, <2>2, <2>6, <2>10, <2>11, <2>12 DEF TasksInv
<1>11. CASE Tasks!Drop
  BY <1>11 DEF TasksInv, Tasks!Drop
<1>12. CASE UNCHANGED Tasks!vars
  BY <1>12 DEF TasksInv, Tasks!vars
<1> QED
  BY <1>2, <1>3, <1>4, <1>5, <1>6, <1>8, <1>9, <1>10, <1>11, <1>12, <1>13, <1>14 DEF Tasks!Next

LEMMA SameCardinality == \A S : Tasks!Cardinality(S) = Cardinality(S)
BY DEF Tasks!Cardinality, Cardinality

LEMMA TasksHandled ==
    TasksInv => /\ Tasks!AnswerFindsItsTask /\ Tasks!AnsweredWasRun
                /\ Tasks!ApprovedFirst /\ Tasks!CancelledUnsentStays
<1> SUFFICES ASSUME TasksInv
             PROVE  /\ Tasks!AnswerFindsItsTask /\ Tasks!AnsweredWasRun
                    /\ Tasks!ApprovedFirst /\ Tasks!CancelledUnsentStays
  OBVIOUS
<1>1. RowsOK(tasks) /\ DOMAIN tasks \subseteq Nat
  BY RowsTyped DEF TasksInv, RowsOK
<1>2. Cardinality(Tasks!Sent(tasks)) <= 1
  <2>1. \A i, j \in Tasks!Sent(tasks) : i = j
    <3> SUFFICES ASSUME NEW i \in Tasks!Sent(tasks), NEW j \in Tasks!Sent(tasks), i < j PROVE FALSE
      BY <1>1 DEF Tasks!Sent
    <3>1. /\ i \in DOMAIN tasks /\ j \in DOMAIN tasks /\ i \in 1..(j - 1)
          /\ tasks[i].state = "sent" /\ tasks[j].state = "sent"
      BY <1>1, RowsTyped DEF Tasks!Sent, RowsOK
    <3> QED
      BY <1>1, <3>1 DEF RowsOK, OldestSent, Shut, Tasks!Open
  <2>2. CASE Tasks!Sent(tasks) = {}
    BY <2>2, FS_EmptySet
  <2>3. ASSUME NEW i \in Tasks!Sent(tasks) PROVE Cardinality(Tasks!Sent(tasks)) <= 1
    <3>1. Tasks!Sent(tasks) = {i}
      BY <2>1, <2>3
    <3> QED
      BY <3>1, FS_Singleton
  <2> QED
    BY <2>2, <2>3
<1>3. Tasks!AnswerFindsItsTask
  BY <1>2, SameCardinality DEF Tasks!AnswerFindsItsTask, TasksInv, Handed
<1>4. Tasks!AnsweredWasRun /\ Tasks!ApprovedFirst /\ Tasks!CancelledUnsentStays
  BY <1>1 DEF Tasks!AnsweredWasRun, Tasks!ApprovedFirst, Tasks!CancelledUnsentStays, TasksInv, RowsOK, RowOK
<1> QED
  BY <1>3, <1>4

-----------------------------------------------------------------------------
(*                          The page of a CPE                              *)

queue == s1
air == s2
known == s3
dev == s5
shown == s6
form == s7
dialog == s8
req == s9
USE DEF queue, air, known, dev, shown, form, dialog, req

Requests ==
    [op : {"none", "load", "order", "cancel"}, task : Unit!Task, id : Nat, done : BOOLEAN]

UnitTyped ==
    /\ queue \in Seq(Unit!Task)
    /\ air \in Ssids /\ known \in Ssids
    /\ shown \subseteq Nat
    /\ form \in [ssid : Ssids \cup {"none"}, pass : BOOLEAN]
    /\ dialog \in {"none", "reboot", "reset"}
    /\ req \in Requests

\* An order that was taken and not yet answered is the only one the page does not
\* know of, and the answer to it hides the page; when answers are lost there is no end
\* to what it does not know.
UnitInv ==
    /\ UnitTyped
    /\ dialog # "none" => req.op = "none"
    /\ part = "unit" /\ dev # {} /\ ~(req.op = "order" /\ req.done)
           => Unit!OpenIds(queue) \subseteq shown

LEMMA RequestsTyped ==
    /\ Unit!NoTask \in Unit!Task
    /\ Unit!Idle \in Requests /\ Unit!Idle.op = "none"
    /\ \A op \in {"none", "load", "order", "cancel"}, task \in Unit!Task, id \in Nat :
           LET r == Unit!Request(op, task, id) IN r \in Requests /\ r.op = op /\ ~r.done
<1>1. Unit!NoTask \in Unit!Task
  BY DEF Unit!NoTask, Unit!Task
<1> QED
  BY <1>1 DEF Unit!Idle, Unit!Request, Requests

LEMMA UnitBegin == Unit!Init => UnitInv
BY RequestsTyped DEF Unit!Init, UnitInv, UnitTyped

\* Fewer orders are open than were.
LEMMA UnitFewer ==
    ASSUME NEW q \in Seq(Unit!Task), NEW i
    PROVE  LET r == [q EXCEPT ![i].open = FALSE] IN
           r \in Seq(Unit!Task) /\ Unit!OpenIds(r) \subseteq Unit!OpenIds(q)
<1> DEFINE r == [q EXCEPT ![i].open = FALSE]
<1>1. Len(q) \in Nat /\ DOMAIN q = 1..Len(q) /\ \A j \in 1..Len(q) : q[j] \in Unit!Task
  OBVIOUS
<1>2. DOMAIN r = 1..Len(q) /\ r = [j \in 1..Len(q) |-> r[j]]
  BY <1>1
<1>3. \A j \in 1..Len(q) : r[j] = IF j = i THEN [q[j] EXCEPT !.open = FALSE] ELSE q[j]
  BY <1>1
<1> HIDE DEF r
<1>4. \A j \in 1..Len(q) : r[j] \in Unit!Task
  BY <1>1, <1>3 DEF Unit!Task
<1>5. r \in [1..Len(q) -> Unit!Task]
  BY <1>2, <1>4
<1>6. r \in Seq(Unit!Task)
  BY <1>1, <1>5
<1>7. \A j \in 1..Len(q) : r[j].open => q[j].open
  BY <1>1, <1>3 DEF Unit!Task
<1>8. Unit!OpenIds(r) \subseteq Unit!OpenIds(q)
  BY <1>1, <1>2, <1>7 DEF Unit!OpenIds
<1> QED
  BY <1>6, <1>8 DEF r

LEMMA UnitStep == UnitInv /\ part' = part /\ [Unit!Next]_(Unit!vars) => UnitInv'
<1> SUFFICES ASSUME UnitInv, part' = part, [Unit!Next]_(Unit!vars) PROVE UnitInv'
  OBVIOUS
<1> DEFINE Waits == Unit!OpenIds(queue) \subseteq shown
<1>t. UnitTyped
  BY DEF UnitInv
\* The page orders, asks, or reads again: nothing changes on the server.
<1>1. ASSUME UNCHANGED <<queue, air, known, shown>>, dev' = dev \/ dev' = {},
             form' \in [ssid : Ssids \cup {"none"}, pass : BOOLEAN],
             dialog' \in {"none", "reboot", "reset"}, dialog' # "none" => req'.op = "none",
             req' \in Requests, ~req'.done \/ req' = req, dev' = {} \/ ~(req.op = "order" /\ req.done)
      PROVE  UnitInv'
  BY <1>1, <1>t DEF UnitInv, UnitTyped
<1>2. CASE Unit!TypeName
  <2>1. form' \in [ssid : Ssids \cup {"none"}, pass : BOOLEAN]
    BY <1>2, <1>t DEF Unit!TypeName, UnitTyped
  <2> QED
    BY <1>1, <1>2, <1>t, <2>1 DEF Unit!TypeName, Unit!Ready, Unit!server, UnitTyped
<1>3. CASE Unit!TypePassword
  <2>1. form' \in [ssid : Ssids \cup {"none"}, pass : BOOLEAN]
    BY <1>3, <1>t DEF Unit!TypePassword, UnitTyped
  <2> QED
    BY <1>1, <1>3, <1>t, <2>1 DEF Unit!TypePassword, Unit!Ready, Unit!server, UnitTyped
<1>4. CASE Unit!SaveWifi
  <2>1. Unit!WifiTask \in Unit!Task
    BY <1>t DEF Unit!WifiTask, Unit!Task, UnitTyped
  <2>2. req' = req \/ req' = Unit!Request("order", Unit!WifiTask, 0)
    BY <1>4 DEF Unit!SaveWifi, Unit!Send
  <2>3. req' \in Requests /\ (req' = req \/ ~req'.done)
    BY <1>t, <2>1, <2>2, RequestsTyped DEF UnitTyped
  <2> QED
    BY <1>1, <1>4, <1>t, <2>3 DEF Unit!SaveWifi, Unit!Ready, Unit!server, Unit!page, UnitTyped
<1>5. CASE Unit!Refresh
  <2>1. [Unit!NoTask EXCEPT !.kind = "read", !.open = TRUE] \in Unit!Task
    BY RequestsTyped DEF Unit!Task
  <2>2. req' \in Requests /\ ~req'.done
    BY <1>5, <2>1, RequestsTyped DEF Unit!Refresh, Unit!Send
  <2> QED
    BY <1>1, <1>5, <1>t, <2>2 DEF Unit!Refresh, Unit!Ready, Unit!server, Unit!page, UnitTyped
<1>6. CASE Unit!Ask
  BY <1>1, <1>6, <1>t DEF Unit!Ask, Unit!Ready, Unit!server, UnitTyped
<1>7. CASE Unit!AnswerDialog
  <2>1. [Unit!NoTask EXCEPT !.kind = dialog, !.open = TRUE] \in Unit!Task
    BY <1>t, <1>7, RequestsTyped DEF Unit!AnswerDialog, Unit!Task, UnitTyped
  <2>2. req' \in Requests /\ (req' = req \/ ~req'.done)
    BY <1>7, <1>t, <2>1, RequestsTyped DEF Unit!AnswerDialog, Unit!Send, UnitTyped
  <2>3. req.op = "none"
    BY <1>7 DEF Unit!AnswerDialog, UnitInv
  <2> QED
    BY <1>1, <1>7, <1>t, <2>2, <2>3 DEF Unit!AnswerDialog, Unit!server, UnitTyped
<1>8. CASE Unit!CancelTask
  <2>1. req' \in Requests /\ ~req'.done
    BY <1>8, <1>t, RequestsTyped DEF Unit!CancelTask, Unit!Send, UnitTyped
  <2> QED
    BY <1>1, <1>8, <1>t, <2>1 DEF Unit!CancelTask, Unit!Ready, Unit!server, Unit!page, UnitTyped
<1>9. CASE Unit!Serve
  <2>1. /\ req' \in Requests /\ req'.op = req.op /\ req'.done
        /\ UNCHANGED <<air, known, dev, shown, form, dialog>>
    BY <1>9, <1>t DEF Unit!Serve, Unit!page, UnitTyped, Requests
  <2>2. dialog = "none"
    BY <1>9 DEF Unit!Serve, UnitInv
  <2>3. CASE req.op = "order"
    <3>1. queue' = Append(queue, req.task)
      BY <1>9, <2>3 DEF Unit!Serve
    <3>2. queue' \in Seq(Unit!Task)
      BY <1>t, <3>1 DEF UnitTyped, Requests
    <3> QED
      BY <1>t, <2>1, <2>2, <2>3, <3>2 DEF UnitInv, UnitTyped
  <2>4. CASE req.op # "order"
    <3>1. queue' = queue \/ queue' = [queue EXCEPT ![req.id].open = FALSE]
      BY <1>9, <2>4 DEF Unit!Serve
    <3>2. queue' \in Seq(Unit!Task) /\ Unit!OpenIds(queue') \subseteq Unit!OpenIds(queue)
      BY <1>t, <3>1, UnitFewer DEF UnitTyped
    <3> QED
      BY <1>t, <2>1, <2>2, <2>4, <3>2 DEF UnitInv, UnitTyped
  <2> QED
    BY <2>3, <2>4
<1>10. CASE Unit!Deliver
  <2> DEFINE i == CHOOSE j \in Unit!OpenIds(queue) : \A k \in Unit!OpenIds(queue) : j <= k
  <2>1. /\ queue' = [queue EXCEPT ![i].open = FALSE]
        /\ UNCHANGED <<dev, shown, form, dialog, req>>
    BY <1>10 DEF Unit!Deliver, Unit!page
  <2>2. queue' \in Seq(Unit!Task) /\ Unit!OpenIds(queue') \subseteq Unit!OpenIds(queue)
    BY <1>t, <2>1, UnitFewer DEF UnitTyped
  <2>3. air' \in Ssids /\ known' \in Ssids
    <3>1. Unit!OpenIds(queue) # {} /\ Unit!OpenIds(queue) \subseteq DOMAIN queue
      BY <1>10 DEF Unit!Deliver, Unit!OpenIds
    <3>2. PICK n \in Unit!OpenIds(queue) : \A k \in Unit!OpenIds(queue) : n <= k
      <4>1. Unit!OpenIds(queue) \subseteq Nat
        BY <1>t, <3>1 DEF UnitTyped
      <4> QED
        BY <3>1, <4>1, LeastNumber
    <3>3. i \in DOMAIN queue
      BY <3>1, <3>2
    <3> HIDE DEF i
    <3>4. queue[i].ssid \in Ssids \cup {"none"}
      <4>1. queue[i] \in Unit!Task
        BY <1>t, <3>3 DEF UnitTyped
      <4> QED
        BY <4>1 DEF Unit!Task
    <3>5. /\ air' \in Ssids \/ (air' = queue[i].ssid /\ queue[i].ssid # "none") \/ air' = air
          /\ known' = air \/ known' = known
      BY <1>10 DEF Unit!Deliver, i
    <3> QED
      BY <1>t, <3>4, <3>5 DEF UnitTyped
  <2> HIDE DEF i
  <2> QED
    BY <1>t, <2>1, <2>2, <2>3 DEF UnitInv, UnitTyped
<1>11. CASE Unit!Other
  BY <1>11 DEF Unit!Other, Unit!page, UnitInv, UnitTyped
<1>12. CASE Unit!Answered
  <2>1. UNCHANGED <<queue, air, known>> /\ req.done
    BY <1>12 DEF Unit!Answered, Unit!server
  <2>2. Unit!OpenIds(queue) \subseteq Nat
    BY <1>t, RowsTyped DEF UnitTyped, Unit!OpenIds
  <2>3. CASE req.op = "order"
    <3>1. /\ req' = Unit!Request("load", Unit!NoTask, 0) /\ dev' = {}
          /\ UNCHANGED <<shown, form, dialog>>
      BY <1>12, <2>3 DEF Unit!Answered, Unit!StartLoad
    <3>2. dialog = "none"
      BY <2>3 DEF UnitInv
    <3> QED
      BY <1>t, <2>1, <3>1, <3>2, RequestsTyped DEF UnitInv, UnitTyped
  <2>4. CASE req.op = "cancel"
    <3>1. shown' = Unit!OpenIds(queue) /\ req' = Unit!Idle /\ UNCHANGED <<dev, form, dialog>>
      BY <1>12, <2>4 DEF Unit!Answered
    <3> QED
      BY <1>t, <2>1, <2>2, <3>1, RequestsTyped DEF UnitInv, UnitTyped
  <2>5. CASE req.op \notin {"order", "cancel"}
    <3>1. /\ shown' = Unit!OpenIds(queue) /\ req' = Unit!Idle /\ UNCHANGED dialog
          /\ form' = [ssid |-> known, pass |-> FALSE]
      BY <1>12, <2>5 DEF Unit!Answered
    <3> QED
      BY <1>t, <2>1, <2>2, <3>1, RequestsTyped DEF UnitInv, UnitTyped
  <2> QED
    BY <2>3, <2>4, <2>5
<1>13. CASE Unit!Fails
  <2>1. req' = Unit!Idle /\ req.op # "none" /\ ~req.done
    BY <1>13 DEF Unit!Fails
  <2>2. req' \in Requests /\ req'.op = "none"
    BY <2>1, RequestsTyped
  <2> QED
    BY <1>13, <1>t, <2>1, <2>2 DEF Unit!Fails, Unit!server, Unit!page, UnitInv, UnitTyped
<1>14. CASE Unit!Reopen
  <2>1. /\ req' = Unit!Request("load", Unit!NoTask, 0) /\ dev' = {} /\ dialog = "none"
        /\ UNCHANGED <<queue, air, known, shown, form, dialog>>
    BY <1>14 DEF Unit!Reopen, Unit!StartLoad, Unit!server
  <2> QED
    BY <1>t, <2>1, RequestsTyped DEF UnitInv, UnitTyped
<1>15. CASE UNCHANGED Unit!vars
  BY <1>15 DEF Unit!vars, UnitInv, UnitTyped
<1> QED
  BY <1>2, <1>3, <1>4, <1>5, <1>6, <1>7, <1>8, <1>9, <1>10, <1>11, <1>12, <1>13, <1>14, <1>15
  DEF Unit!Next

LEMMA UnitShown == UnitInv /\ part = "unit" => Unit!WaitingIsShown
BY DEF UnitInv, Unit!WaitingIsShown, Unit!Ready

-----------------------------------------------------------------------------
(*                          The list of CPEs                               *)

rows == s1
loading == s3
reqs == s5
USE DEF rows, loading, reqs

FleetInv ==
    /\ rows \in [HastyFleet!Keys -> HastyFleet!Statuses]
    /\ reqs \subseteq HastyFleet!Requests
    /\ HastyFleet!LoadingEnds

LEMMA FleetRequests ==
    /\ HastyFleet!NoRows \in [HastyFleet!Keys -> HastyFleet!Statuses]
    /\ \A op \in {"load", "approve", "reject", "refresh", "enroll"} :
       \A k \in HastyFleet!Keys \cup {"none"} :
           LET r == HastyFleet!Request(op, k) IN r \in HastyFleet!Requests /\ r.op = op
<1>1. HastyFleet!NoRows \in [HastyFleet!Keys -> HastyFleet!Statuses]
  BY DEF HastyFleet!NoRows, HastyFleet!Statuses
<1> QED
  BY <1>1 DEF HastyFleet!Request, HastyFleet!Requests

LEMMA FleetBegin == HastyFleet!Init => FleetInv
BY FleetRequests DEF HastyFleet!Init, FleetInv, HastyFleet!LoadingEnds

LEMMA FleetStep == FleetInv /\ [HastyFleet!Next]_(HastyFleet!vars) => FleetInv'
<1> SUFFICES ASSUME FleetInv, [HastyFleet!Next]_(HastyFleet!vars) PROVE FleetInv'
  OBVIOUS
<1>t. /\ rows \in [HastyFleet!Keys -> HastyFleet!Statuses]
      /\ reqs \subseteq HastyFleet!Requests
      /\ loading => \E r \in reqs : r.op = "load"
  BY DEF FleetInv, HastyFleet!LoadingEnds
\* A request is sent, or one that is no load is over.
<1>1. ASSUME UNCHANGED <<rows, loading>>, reqs' \subseteq HastyFleet!Requests,
             \A r \in reqs : r.op = "load" => r \in reqs'
      PROVE  FleetInv'
  BY <1>1, <1>t DEF FleetInv, HastyFleet!LoadingEnds
\* The list is read.
<1>2. ASSUME NEW out \in SUBSET reqs, HastyFleet!Load(out), UNCHANGED rows
      PROVE  FleetInv'
  <2>1. HastyFleet!Request("load", "none") \in HastyFleet!Requests /\ HastyFleet!Request("load", "none").op = "load"
    BY FleetRequests
  <2> QED
    BY <1>2, <1>t, <2>1 DEF FleetInv, HastyFleet!LoadingEnds, HastyFleet!Load
<1>3. CASE HastyFleet!Reload
  BY <1>2, <1>3 DEF HastyFleet!Reload
<1>4. CASE HastyFleet!OpenDialog \/ HastyFleet!CloseDialog
  BY <1>1, <1>4, <1>t DEF HastyFleet!OpenDialog, HastyFleet!CloseDialog
<1>5. ASSUME NEW k \in HastyFleet!Keys, NEW op \in {"approve", "reject", "refresh"}, HastyFleet!Act(op, k)
      PROVE  FleetInv'
  <2>1. HastyFleet!Request(op, k) \in HastyFleet!Requests
    BY FleetRequests
  <2> QED
    BY <1>1, <1>5, <1>t, <2>1 DEF HastyFleet!Act
<1>6. ASSUME NEW k \in {"full", "bare"}, HastyFleet!Submit(k) PROVE FleetInv'
  <2>1. HastyFleet!Request("enroll", k) \in HastyFleet!Requests
    BY FleetRequests DEF HastyFleet!Keys
  <2> QED
    BY <1>1, <1>6, <1>t, <2>1 DEF HastyFleet!Submit
<1>7. ASSUME NEW r \in reqs, HastyFleet!Serve(r) PROVE FleetInv'
  <2> DEFINE served == [r EXCEPT !.done = TRUE, !.read = rows]
  <2>1. served \in HastyFleet!Requests /\ served.op = r.op
    BY <1>t DEF HastyFleet!Requests
  <2>2. rows' \in [HastyFleet!Keys -> HastyFleet!Statuses]
    BY <1>7, <1>t DEF HastyFleet!Serve, HastyFleet!Stored, HastyFleet!Statuses
  <2>3. reqs' = (reqs \ {r}) \cup {served} /\ UNCHANGED loading
    BY <1>7 DEF HastyFleet!Serve
  <2> HIDE DEF served
  <2> QED
    BY <1>t, <2>1, <2>2, <2>3 DEF FleetInv, HastyFleet!LoadingEnds
<1>8. ASSUME NEW r \in reqs, HastyFleet!LoadAnswered(r) PROVE FleetInv'
  BY <1>8, <1>t DEF HastyFleet!LoadAnswered, FleetInv, HastyFleet!LoadingEnds
<1>9. ASSUME NEW r \in reqs, HastyFleet!ActAnswered(r) PROVE FleetInv'
  <2>1. CASE r.op = "refresh"
    BY <1>1, <1>9, <1>t, <2>1 DEF HastyFleet!ActAnswered
  <2>2. CASE r.op # "refresh"
    BY <1>2, <1>9, <2>2 DEF HastyFleet!ActAnswered
  <2> QED
    BY <2>1, <2>2
<1>10. ASSUME NEW r \in reqs, HastyFleet!Enrolled(r) PROVE FleetInv'
  BY <1>2, <1>10 DEF HastyFleet!Enrolled
<1>11. ASSUME NEW r \in reqs, HastyFleet!Fails(r) PROVE FleetInv'
  <2>1. CASE r.op = "load"
    BY <1>11, <1>t, <2>1 DEF HastyFleet!Fails, FleetInv, HastyFleet!LoadingEnds
  <2>2. CASE r.op # "load"
    BY <1>1, <1>11, <1>t, <2>2 DEF HastyFleet!Fails
  <2> QED
    BY <2>1, <2>2
<1>12. CASE HastyFleet!Inform
  <2>1. rows' \in [HastyFleet!Keys -> HastyFleet!Statuses]
    BY <1>12, <1>t DEF HastyFleet!Inform, HastyFleet!Statuses
  <2> QED
    BY <1>12, <1>t, <2>1 DEF HastyFleet!Inform, FleetInv, HastyFleet!LoadingEnds
<1>13. CASE UNCHANGED HastyFleet!vars
  BY <1>13, <1>t DEF HastyFleet!vars, FleetInv, HastyFleet!LoadingEnds
<1> QED
  BY <1>3, <1>4, <1>5, <1>6, <1>7, <1>8, <1>9, <1>10, <1>11, <1>12, <1>13
  DEF HastyFleet!Next, HastyFleet!Answer

-----------------------------------------------------------------------------
(*                     The routers that are linked                         *)

ui == s1
routers == s4
USE DEF ui, routers

Fields == {"step", "created", "submitting", "shown", "loading", "error", "monitored", "roles",
           "toggling", "busy", "saving", "applying", "result"}

\* x is what one of the routers was given to serve.
Served(x) == \E d \in DOMAIN routers : x = {routers[d].serving}

RoutersTyped ==
    /\ \E k \in Nat : DOMAIN routers = 1..k
    /\ \A d \in DOMAIN routers :
           DOMAIN routers[d] = {"uplink", "off", "monitored", "serving"}

\* Past the first step there is a router, and so there is while a call about it runs.
Linked ==
    ui.step > 1 \/ ui.submitting = "token" \/ ui.saving # {} \/ ui.applying # {}
        => ui.created \in DOMAIN routers

\* What is being applied, and what was, is what a router serves; nothing is being applied
\* while the summary is on screen.
Applied ==
    /\ ui.applying # {} => ui.step # 5 /\ Served(ui.applying)
    /\ ui.step = 5 => Served(ui.result)

WizardInv ==
    /\ DOMAIN ui = Fields /\ ui.step \in 1..5
    /\ RoutersTyped /\ Linked /\ Applied /\ Wizard!UplinkIsSpared

\* Arriving at a step changes the step, and whether a reading runs.
LEMMA Arriving ==
    ASSUME NEW w, DOMAIN w = Fields, NEW s, Wizard!Arrive(w, s)
    PROVE  /\ DOMAIN ui' = Fields /\ ui'.step = s /\ ui'.created = w.created
           /\ ui'.submitting = w.submitting /\ ui'.saving = w.saving
           /\ ui'.applying = w.applying /\ ui'.result = w.result
<1> DEFINE u == [w EXCEPT !.step = s]
<1>1. /\ DOMAIN u = Fields /\ u.step = s /\ u.created = w.created
      /\ u.submitting = w.submitting /\ u.saving = w.saving
      /\ u.applying = w.applying /\ u.result = w.result
  BY DEF Fields
<1>2. ui' = u \/ ui' = [u EXCEPT !.loading = TRUE, !.error = FALSE]
  BY DEF Wizard!Arrive, Wizard!Load
<1> HIDE DEF u
<1> QED
  BY <1>1, <1>2 DEF Fields

LEMMA WizardBegin == Wizard!Init => WizardInv
<1> SUFFICES ASSUME Wizard!Init PROVE WizardInv
  OBVIOUS
<1>1. ui = Wizard!Opened /\ DOMAIN routers = {}
  BY DEF Wizard!Init
<1>2. 0 \in Nat /\ DOMAIN routers = 1..0
  BY <1>1
<1> QED
  BY <1>1, <1>2 DEF WizardInv, Wizard!Opened, Wizard!Nothing, Wizard!None, Fields, RoutersTyped,
     Linked, Applied, Wizard!UplinkIsSpared

\* A router gets the number after the last one's.
LEMMA FreshRouter ==
    RoutersTyped => \E k \in Nat : /\ DOMAIN routers = 1..k
                                   /\ Wizard!Cardinality(DOMAIN routers) + 1 = k + 1
<1> SUFFICES ASSUME RoutersTyped
             PROVE  \E k \in Nat : /\ DOMAIN routers = 1..k
                                   /\ Wizard!Cardinality(DOMAIN routers) + 1 = k + 1
  OBVIOUS
<1>1. PICK k \in Nat : DOMAIN routers = 1..k
  BY DEF RoutersTyped
<1>2. Cardinality(1..k) = k
  BY FS_Interval
<1>3. Wizard!Cardinality(DOMAIN routers) = k
  BY <1>1, <1>2 DEF Wizard!Cardinality, Cardinality
<1> QED
  BY <1>1, <1>3

LEMMA WizardStep == WizardInv /\ [Wizard!Next]_(Wizard!vars) => WizardInv'
<1> SUFFICES ASSUME WizardInv, [Wizard!Next]_(Wizard!vars) PROVE WizardInv'
  OBVIOUS
<1>t. /\ DOMAIN ui = Fields /\ ui.step \in 1..5
      /\ RoutersTyped /\ Linked /\ Applied /\ Wizard!UplinkIsSpared
  BY DEF WizardInv
\* The page goes on, and the routers are as they were.
<1>1. ASSUME UNCHANGED routers, DOMAIN ui' = Fields, ui'.step \in 1..4,
             ui'.created = ui.created, ui'.submitting \in {ui.submitting, "no", "create"},
             ui'.saving \in {ui.saving, {}}, ui'.applying \in {ui.applying, {}},
             ui'.step > 1 => ui.step > 1 \/ ui.submitting = "token" \/ ui.saving # {}
      PROVE  WizardInv'
  <2>1. RoutersTyped' /\ Wizard!UplinkIsSpared'
    BY <1>1, <1>t DEF RoutersTyped, Wizard!UplinkIsSpared
  <2>2. Linked'
    <3>1. CASE ui.step > 1 \/ ui.submitting = "token" \/ ui.saving # {} \/ ui.applying # {}
      BY <1>1, <1>t, <3>1 DEF Linked
    <3>2. CASE ~(ui.step > 1 \/ ui.submitting = "token" \/ ui.saving # {} \/ ui.applying # {})
      <4>1. ~(ui'.step > 1) /\ ui'.submitting # "token" /\ ui'.saving = {} /\ ui'.applying = {}
        BY <1>1, <3>2
      <4> QED
        BY <4>1 DEF Linked
    <3> QED
      BY <3>1, <3>2
  <2>3. Applied'
    BY <1>1, <1>t DEF Applied, Served
  <2> QED
    BY <1>1, <2>1, <2>2, <2>3 DEF WizardInv
\* The page stays where it is.
<1>2. ASSUME DOMAIN ui' = Fields, ui'.step = ui.step, ui'.created = ui.created,
             ui'.submitting \in {ui.submitting, "no", "create"}, ui'.saving \in {ui.saving, {}, {ui.created}},
             ui'.saving # {} => ui.saving # {} \/ ui.step > 1,
             ui'.applying \in {ui.applying, {}}, ui'.result = ui.result,
             DOMAIN routers' = DOMAIN routers, RoutersTyped', Wizard!UplinkIsSpared',
             \A d \in DOMAIN routers : routers'[d].serving = routers[d].serving
      PROVE  WizardInv'
  BY <1>2, <1>t DEF WizardInv, Linked, Applied, Served
<1>3. ASSUME UNCHANGED routers PROVE RoutersTyped' /\ Wizard!UplinkIsSpared'
  BY <1>3, <1>t DEF RoutersTyped, Wizard!UplinkIsSpared
<1>4. CASE Wizard!Register \/ Wizard!RegisterFailed
  BY <1>2, <1>3, <1>4, <1>t DEF Wizard!Register, Wizard!RegisterFailed, Fields
<1>5. CASE Wizard!DeviceCreated
  <2>1. PICK k \in Nat : DOMAIN routers = 1..k /\ Wizard!Cardinality(DOMAIN routers) + 1 = k + 1
    BY <1>t, FreshRouter
  <2>2. PICK uplink \in Wizard!Uplinks : routers' =
            [e \in DOMAIN routers \cup {k + 1} |->
                IF e = k + 1 THEN [Wizard!Router EXCEPT !.uplink = uplink] ELSE routers[e]]
    BY <1>5, <2>1 DEF Wizard!DeviceCreated
  <2>3. ui' = [ui EXCEPT !.created = k + 1, !.submitting = "token"]
    BY <1>5, <2>1 DEF Wizard!DeviceCreated
  <2>4. /\ DOMAIN routers' = 1..(k + 1) /\ k + 1 \in Nat
        /\ \A e \in DOMAIN routers : routers'[e] = routers[e]
    BY <2>1, <2>2
  <2>5. /\ routers'[k + 1].off = {} /\ routers'[k + 1].serving = {}
        /\ DOMAIN routers'[k + 1] = {"uplink", "off", "monitored", "serving"}
    BY <2>1, <2>2 DEF Wizard!Router, Wizard!Nothing
  <2>6. \A e \in DOMAIN routers' : e \in DOMAIN routers \/ e = k + 1
    BY <2>1, <2>4
  <2>7. RoutersTyped'
    BY <1>t, <2>4, <2>5, <2>6 DEF RoutersTyped
  <2>8. Wizard!UplinkIsSpared'
    BY <1>t, <2>4, <2>5, <2>6 DEF Wizard!UplinkIsSpared
  <2>9. /\ DOMAIN ui' = Fields /\ ui'.step = ui.step /\ ui'.created = k + 1
        /\ ui'.applying = ui.applying /\ ui'.result = ui.result
    BY <1>t, <2>3 DEF Fields
  <2>10. Linked' /\ Applied'
    BY <1>t, <2>1, <2>4, <2>9 DEF Linked, Applied, Served
  <2> QED
    BY <1>t, <2>7, <2>8, <2>9, <2>10 DEF WizardInv
<1>6. CASE Wizard!TokenGenerated
  BY <1>1, <1>6, <1>t DEF Wizard!TokenGenerated, Fields
<1>7. CASE Wizard!Continue
  <2>1. ui.step \in {2, 3} /\ UNCHANGED routers /\ Wizard!Arrive(ui, ui.step + 1)
    BY <1>7, <1>t DEF Wizard!Continue, Wizard!Footer
  <2> QED
    BY <1>1, <1>t, <2>1, Arriving
<1>8. CASE Wizard!Back
  <2>1. ui.step \in 2..4 /\ UNCHANGED routers /\ Wizard!Arrive(ui, ui.step - 1)
    BY <1>8 DEF Wizard!Back
  <2> QED
    BY <1>1, <1>t, <2>1, Arriving
<1>9. CASE Wizard!Retry
  BY <1>2, <1>3, <1>9, <1>t DEF Wizard!Retry, Wizard!Load, Fields
<1>10. CASE Wizard!Reopen
  <2>1. ui' = Wizard!Opened /\ UNCHANGED routers
    BY <1>10 DEF Wizard!Reopen
  <2>2. /\ DOMAIN ui' = Fields /\ ui'.step = 1 /\ ui'.submitting = "no"
        /\ ui'.saving = {} /\ ui'.applying = {}
    BY <2>1 DEF Wizard!Opened, Wizard!Nothing, Fields
  <2>3. Linked' /\ Applied'
    BY <2>2 DEF Linked, Applied
  <2> QED
    BY <1>3, <2>1, <2>2, <2>3 DEF WizardInv
<1>11. ASSUME NEW r, Wizard!Discovered(r) \/ Wizard!DiscoveryFailed(r) PROVE WizardInv'
  <2>1. CASE Wizard!Discovered(r)
    BY <1>2, <1>3, <1>t, <2>1 DEF Wizard!Discovered, Fields
  <2>2. CASE Wizard!DiscoveryFailed(r)
    BY <1>2, <1>3, <1>t, <2>2 DEF Wizard!DiscoveryFailed, Fields
  <2> QED
    BY <1>11, <2>1, <2>2
<1>12. ASSUME NEW p, Wizard!ToggleMonitored(p) PROVE WizardInv'
  BY <1>2, <1>3, <1>12, <1>t DEF Wizard!ToggleMonitored, Fields
<1>13. ASSUME NEW p, Wizard!TogglePort(p) PROVE WizardInv'
  <2>1. /\ DOMAIN ui' = Fields /\ ui'.step = ui.step /\ ui'.created = ui.created
        /\ ui'.submitting = ui.submitting /\ ui'.saving = ui.saving
        /\ ui'.applying = ui.applying /\ ui'.result = ui.result
    BY <1>13, <1>t DEF Wizard!TogglePort, Fields
  <2>2. PICK r \in Wizard!PortMap :
            IF p \notin r.off /\ p \in routers[ui.created].uplink
            THEN UNCHANGED routers
            ELSE routers' = [routers EXCEPT ![ui.created].off =
                                IF p \in r.off THEN @ \ {p} ELSE @ \cup {p}]
    BY <1>13 DEF Wizard!TogglePort
  <2>3. CASE UNCHANGED routers
    BY <1>2, <1>3, <2>1, <2>3
  <2>4. CASE p \in r.off \/ p \notin routers[ui.created].uplink
    <3>1. PICK off : /\ off \subseteq routers[ui.created].off \cup {p}
                     /\ p \in off => p \in routers[ui.created].off \/ p \notin routers[ui.created].uplink
                     /\ routers' = [routers EXCEPT ![ui.created].off = off]
      BY <2>2, <2>4
    <3>2. /\ DOMAIN routers' = DOMAIN routers
          /\ \A d \in DOMAIN routers :
                 /\ DOMAIN routers'[d] = DOMAIN routers[d]
                 /\ routers'[d].serving = routers[d].serving
                 /\ routers'[d].uplink = routers[d].uplink
                 /\ routers'[d].off = IF d = ui.created THEN off ELSE routers[d].off
      BY <1>t, <3>1 DEF RoutersTyped
    <3>3. Wizard!UplinkIsSpared'
      BY <1>t, <3>1, <3>2 DEF Wizard!UplinkIsSpared
    <3>4. RoutersTyped'
      BY <1>t, <3>2 DEF RoutersTyped
    <3> QED
      BY <1>2, <2>1, <3>2, <3>3, <3>4
  <2> QED
    BY <2>2, <2>3, <2>4
<1>14. ASSUME NEW p, Wizard!PortToggled(p) \/ Wizard!PortNotToggled(p) PROVE WizardInv'
  <2>1. CASE Wizard!PortToggled(p)
    BY <1>2, <1>3, <1>t, <2>1 DEF Wizard!PortToggled, Fields
  <2>2. CASE Wizard!PortNotToggled(p)
    BY <1>2, <1>3, <1>t, <2>2 DEF Wizard!PortNotToggled, Fields
  <2> QED
    BY <1>14, <2>1, <2>2
<1>15. ASSUME NEW p, NEW role, Wizard!SetPortRole(p, role) PROVE WizardInv'
  BY <1>2, <1>3, <1>15, <1>t DEF Wizard!SetPortRole, Fields
<1>16. CASE Wizard!SavePorts
  <2>1. /\ ui.step = 3 /\ ui' = [ui EXCEPT !.saving = {ui.created}]
        /\ routers' = [routers EXCEPT ![ui.created].monitored = ui.monitored]
    BY <1>16, <1>t DEF Wizard!SavePorts, Wizard!Footer
  <2>2. /\ DOMAIN routers' = DOMAIN routers
        /\ \A d \in DOMAIN routers :
               /\ DOMAIN routers'[d] = DOMAIN routers[d]
               /\ routers'[d].serving = routers[d].serving
               /\ routers'[d].uplink = routers[d].uplink
               /\ routers'[d].off = routers[d].off
    BY <1>t, <2>1 DEF RoutersTyped
  <2>3. RoutersTyped' /\ Wizard!UplinkIsSpared'
    BY <1>t, <2>2 DEF RoutersTyped, Wizard!UplinkIsSpared
  <2> QED
    BY <1>2, <1>t, <2>1, <2>2, <2>3 DEF Fields
<1>17. CASE Wizard!PortsSaved
  <2> DEFINE w == [ui EXCEPT !.saving = {}]
  <2>1. ui.saving # {} /\ UNCHANGED routers /\ Wizard!Arrive(w, 4)
    BY <1>17 DEF Wizard!PortsSaved, Wizard!Nothing
  <2>2. /\ DOMAIN w = Fields /\ w.created = ui.created /\ w.submitting = ui.submitting
        /\ w.saving = {} /\ w.applying = ui.applying
    BY <1>t DEF Fields
  <2> HIDE DEF w
  <2> QED
    BY <1>1, <1>t, <2>1, <2>2, Arriving
<1>18. CASE Wizard!PortsNotSaved
  BY <1>2, <1>3, <1>18, <1>t DEF Wizard!PortsNotSaved, Wizard!Nothing, Fields
<1>19. CASE Wizard!ApplyServices
  <2>1. PICK ports : /\ ports = Wizard!Accepted(Wizard!Assigned, routers[ui.created])
                     /\ routers' = [routers EXCEPT ![ui.created].serving = ports]
                     /\ ui' = [ui EXCEPT !.applying = {ports}]
    BY <1>19 DEF Wizard!ApplyServices
  <2>2. ui.step = 4 /\ ui.applying = {} /\ ui.created \in DOMAIN routers
    BY <1>19, <1>t DEF Wizard!ApplyServices, Wizard!Footer, Wizard!Nothing, Linked
  <2>3. ports \cap routers[ui.created].uplink = {}
    BY <2>1 DEF Wizard!Accepted
  <2>4. /\ DOMAIN routers' = DOMAIN routers
        /\ \A d \in DOMAIN routers :
               /\ DOMAIN routers'[d] = DOMAIN routers[d]
               /\ routers'[d].serving = IF d = ui.created THEN ports ELSE routers[d].serving
               /\ routers'[d].uplink = routers[d].uplink
               /\ routers'[d].off = routers[d].off
    BY <1>t, <2>1 DEF RoutersTyped
  <2>5. RoutersTyped' /\ Wizard!UplinkIsSpared'
    BY <1>t, <2>3, <2>4 DEF RoutersTyped, Wizard!UplinkIsSpared
  <2>6. /\ DOMAIN ui' = Fields /\ ui'.step = 4 /\ ui'.created = ui.created /\ ui'.applying = {ports}
    BY <1>t, <2>1, <2>2 DEF Fields
  <2> QED
    BY <2>2, <2>4, <2>5, <2>6 DEF WizardInv, Linked, Applied, Served
<1>20. CASE Wizard!ServicesConfigured
  <2>1. /\ DOMAIN ui' = Fields /\ ui'.step = 5 /\ ui'.created = ui.created
        /\ ui'.applying = {} /\ ui'.result = ui.applying /\ UNCHANGED routers /\ ui.applying # {}
    BY <1>20, <1>t DEF Wizard!ServicesConfigured, Wizard!Nothing, Fields
  <2> QED
    BY <1>3, <1>t, <2>1 DEF WizardInv, Linked, Applied, Served
<1>21. CASE Wizard!ConfigureFailed
  BY <1>2, <1>3, <1>21, <1>t DEF Wizard!ConfigureFailed, Wizard!Nothing, Fields
<1>22. ASSUME NEW d \in DOMAIN routers, Wizard!UplinkMoves(d) PROVE WizardInv'
  <2>1. PICK u : /\ u \cap (routers[d].off \cup routers[d].serving) = {}
                 /\ routers' = [routers EXCEPT ![d].uplink = u]
    BY <1>22 DEF Wizard!UplinkMoves
  <2>2. /\ DOMAIN routers' = DOMAIN routers
        /\ \A e \in DOMAIN routers :
               /\ DOMAIN routers'[e] = DOMAIN routers[e]
               /\ routers'[e].serving = routers[e].serving
               /\ routers'[e].uplink = IF e = d THEN u ELSE routers[e].uplink
               /\ routers'[e].off = routers[e].off
    BY <1>t, <2>1 DEF RoutersTyped
  <2>3. RoutersTyped' /\ Wizard!UplinkIsSpared'
    BY <1>t, <2>1, <2>2 DEF RoutersTyped, Wizard!UplinkIsSpared
  <2>4. UNCHANGED ui
    BY <1>22 DEF Wizard!UplinkMoves
  <2> QED
    BY <1>2, <1>t, <2>2, <2>3, <2>4
<1>23. CASE UNCHANGED Wizard!vars
  BY <1>2, <1>3, <1>23, <1>t DEF Wizard!vars
<1> QED
  BY <1>4, <1>5, <1>6, <1>7, <1>8, <1>9, <1>10, <1>11, <1>12, <1>13, <1>14, <1>15, <1>16, <1>17,
     <1>18, <1>19, <1>20, <1>21, <1>22, <1>23 DEF Wizard!Next

-----------------------------------------------------------------------------
(*                   The routers that are given services                   *)

wan == s1
up == s2
bridged == s3
stored == s4
ok == s5
USE DEF wan, up, bridged, stored, ok

\* The uplink is on the router whenever the guard looks for it.
ServicesInv ==
    /\ wan \in RouterPorts /\ up = TRUE
    /\ Services!FeedStaysOffBridge /\ Services!AppliedIsShown

LEMMA ServicesBegin == Services!Init => ServicesInv
BY DEF Services!Init, ServicesInv, Services!FeedStaysOffBridge, Services!AppliedIsShown

LEMMA ServicesStep == ServicesInv /\ [Services!Next]_(Services!vars) => ServicesInv'
<1> SUFFICES ASSUME ServicesInv, [Services!Next]_(Services!vars) PROVE ServicesInv'
  OBVIOUS
<1> USE DEF ServicesInv, Services!FeedStaysOffBridge, Services!AppliedIsShown
<1>1. CASE Services!Rewire
  BY <1>1 DEF Services!Rewire
<1>2. CASE Services!ServeApply
  <2>1. /\ bridged' \in Services!Steps(Services!Guarded(s8.roles)) /\ UNCHANGED <<wan, up>>
        /\ stored' = Services!Store(Services!Guarded(s8.roles))
        /\ ok' = (bridged' = Services!Guarded(s8.roles))
    BY <1>2 DEF Services!ServeApply
  <2>2. Services!Guarded(s8.roles)[wan] = "none"
    BY DEF Services!Guarded, Services!Uplinks
  <2>3. bridged'[wan] = "none"
    BY <2>1, <2>2 DEF Services!Steps
  <2>4. ok' => \A p \in RouterPorts : bridged'[p] # "none" => stored'[p] = bridged'[p]
    BY <2>1 DEF Services!Store, Services!NoRoles
  <2> QED
    BY <2>1, <2>3, <2>4
<1>3. CASE UNCHANGED <<wan, up, bridged, stored, ok>>
  BY <1>3
<1> QED
  BY <1>1, <1>2, <1>3 DEF Services!Next, Services!vars, Services!LineDown, Services!Load,
     Services!SetRole, Services!Apply, Services!Unreachable, Services!Answered, Services!Reopen

\* Without the uplink on the router, what is shown is still what was applied.
LEMMA BlindBegin == Blind!Init => Blind!AppliedIsShown
BY DEF Blind!Init, Blind!AppliedIsShown

LEMMA BlindStep ==
    Blind!AppliedIsShown /\ [Blind!Next]_(Blind!vars) => Blind!AppliedIsShown'
<1> SUFFICES ASSUME Blind!AppliedIsShown, [Blind!Next]_(Blind!vars) PROVE Blind!AppliedIsShown'
  OBVIOUS
<1> USE DEF Blind!AppliedIsShown
<1>1. CASE Blind!ServeApply
  <2>1. /\ stored' = Blind!Store(Blind!Guarded(s8.roles))
        /\ ok' = (bridged' = Blind!Guarded(s8.roles))
    BY <1>1 DEF Blind!ServeApply
  <2> QED
    BY <2>1 DEF Blind!Store, Blind!NoRoles
<1>2. CASE UNCHANGED <<bridged, stored, ok>>
  BY <1>2
<1> QED
  BY <1>1, <1>2 DEF Blind!Next, Blind!vars, Blind!Rewire, Blind!LineDown, Blind!Load,
     Blind!SetRole, Blind!Apply, Blind!Unreachable, Blind!Answered, Blind!Reopen

-----------------------------------------------------------------------------
(*                      The feed of every router                           *)

LEMMA WizardSteps ==
    part = "wizard" /\ [Next]_vars => part' = "wizard" /\ [Wizard!Next]_(Wizard!vars)
BY DEF Next, vars, Wizard!vars

LEMMA ServicesSteps ==
    part = "services" /\ [Next]_vars => part' = "services" /\ [Services!Next]_(Services!vars)
BY DEF Next, vars, Services!vars

LEMMA BlindSteps ==
    part = "blind" /\ [Next]_vars => part' = "blind" /\ [Blind!Next]_(Blind!vars)
BY DEF Next, vars, Blind!vars

FeedInv ==
    /\ part = "wizard" => WizardInv
    /\ part = "services" => ServicesInv
    /\ part = "blind" => Blind!AppliedIsShown

\* Whatever readings of the ports a page works from, and however many routers and ports
\* there are, set_interface_disabled and configure_services leave the port of the internet
\* feed alone, and what a page says was applied was applied to a router.
THEOREM FeedIsSparedHolds == Spec => []FeedIsSpared
<1>1. Init => FeedInv
  BY WizardBegin, ServicesBegin, BlindBegin DEF Init, FeedInv
<1>2. FeedInv /\ [Next]_vars => FeedInv'
  <2> SUFFICES ASSUME FeedInv, [Next]_vars PROVE FeedInv'
    OBVIOUS
  <2>1. part' = part
    BY PartStays
  <2>2. part = "wizard" => WizardInv'
    BY WizardSteps, WizardStep DEF FeedInv
  <2>3. part = "services" => ServicesInv'
    BY ServicesSteps, ServicesStep DEF FeedInv
  <2>4. part = "blind" => Blind!AppliedIsShown'
    BY BlindSteps, BlindStep DEF FeedInv
  <2> QED
    BY <2>1, <2>2, <2>3, <2>4 DEF FeedInv
<1>3. FeedInv => FeedIsSpared
  <2>1. WizardInv => Wizard!UplinkIsSpared /\ Wizard!SummaryIsOfRouter
    BY DEF WizardInv, Applied, Served, Wizard!SummaryIsOfRouter, Wizard!Summary
  <2> QED
    BY <2>1 DEF FeedInv, ServicesInv, FeedIsSpared
<1> QED
  BY <1>1, <1>2, <1>3, PTL DEF Spec

-----------------------------------------------------------------------------
(*                              All of them                                *)

UnitsInv ==
    /\ part = "tasks" => TasksInv
    /\ part = "unit" => UnitInv
    /\ part = "fleetHasty" => FleetInv

\* A CPE gets what was ordered, whatever the number of tasks, attempts and orders, and
\* whatever messages come in whatever turn: an answer of the device is credited to the
\* task it is of (complete_task picks it by its state), a task is "done" by an answer
\* only when it ran, nothing runs without an approval or after it was cancelled in the
\* queue, and the page lists every task that waits.  A message that is no answer, and a
\* TransferComplete, may call a task done that never ran.
THEOREM UnitsAreHandledHolds == Spec => []UnitsAreHandled
<1>1. Init => UnitsInv
  BY TasksBegin, UnitBegin, FleetBegin DEF Init, UnitsInv
<1>2. UnitsInv /\ [Next]_vars => UnitsInv'
  <2> SUFFICES ASSUME UnitsInv, [Next]_vars PROVE UnitsInv'
    OBVIOUS
  <2>1. part' = part
    BY PartStays
  <2>2. part = "tasks" => TasksInv'
    BY TasksSteps, TasksStep DEF UnitsInv
  <2>3. part = "unit" => UnitInv'
    BY <2>1, UnitSteps, UnitStep DEF UnitsInv
  <2>4. part = "fleetHasty" => FleetInv'
    BY FleetSteps, FleetStep DEF UnitsInv
  <2> QED
    BY <2>1, <2>2, <2>3, <2>4 DEF UnitsInv
<1>3. UnitsInv => UnitsAreHandled
  BY TasksHandled, UnitShown DEF UnitsInv, FleetInv, UnitsAreHandled
<1> QED
  BY <1>1, <1>2, <1>3, PTL DEF Spec

-----------------------------------------------------------------------------
(*                     The nodes of the plant, and pins                    *)

LEMMA NodesSteps == part = "nodes" /\ [Next]_vars => [PinNodes!Next]_(PinNodes!vars)
BY DEF Next, vars, PinNodes!vars

Opened == [of : Poles, form : PinNodes!Row, at : {"open", "saving"}]
Fixed == [at : Spots, sure : {"good", "rough", "unknown"}]
Pinned == [of : Poles, to : Spots, at : Spots, step : {"asked", "sent", "stored"}]

\* s1 are the rows, s2 those on the page, s3 the dialog; s4 is where the technician
\* stands, s5 the phone's fix, s6 its list and s7 the pin.  One who edits does not pin, so
\* a form has the coordinates of its row, and a pin that is stored is in the row.
NodesInv ==
    /\ s1 \in [Poles -> PinNodes!Row] /\ s2 \in [Poles -> PinNodes!Row]
    /\ s3 # PinNodes!NoDialog =>
           s3 \in Opened /\ s7 = PinNodes!NoPin /\ s3.form.at = s1[s3.of].at
    /\ s4 \in Spots
    /\ s5 # PinNodes!NoFix => s5 \in Fixed /\ s5.at = s4
    /\ s6 \subseteq Poles
    /\ s7 # PinNodes!NoPin =>
           s7 \in Pinned /\ s7.to = s7.at /\ (s7.step = "stored" => s1[s7.of].at # "none")
    /\ s8 = FALSE

LEMMA NodesBegin == PinNodes!Init => NodesInv
BY DEF PinNodes!Init, NodesInv, PinNodes!Row, PinNodes!Names

LEMMA NodesStep ==
    NodesInv /\ [PinNodes!Next]_(PinNodes!vars)
        => NodesInv' /\ PinNodes!RoughIsAsked /\ PinNodes!GoneIsPlaced
<1> DEFINE Safe == NodesInv' /\ PinNodes!RoughIsAsked /\ PinNodes!GoneIsPlaced
<1> SUFFICES ASSUME NodesInv, [PinNodes!Next]_(PinNodes!vars) PROVE Safe
  OBVIOUS
<1>n. "none" \notin Poles /\ "none" \notin Spots
  BY NetworkAssumption DEF PinNodes!NodesAssumption
<1>c. /\ PinNodes!NoDialog.at = "closed" /\ PinNodes!NoPin.step = "idle" /\ PinNodes!NoPin.of = "none"
      /\ PinNodes!NoFix.at = "none" /\ PinNodes!NoDialog.of = "none"
  BY DEF PinNodes!NoDialog, PinNodes!NoPin, PinNodes!NoFix
\* The page reads or types, and neither rows nor phone change.
<1>1. ASSUME UNCHANGED <<s1, s4, s5, s6, s7, s8>>, s2' \in [Poles -> PinNodes!Row],
             s3' # PinNodes!NoDialog =>
                 s3' \in Opened /\ s7 = PinNodes!NoPin /\ s3'.form.at = s1[s3'.of].at
      PROVE  Safe
  BY <1>1, <1>c DEF NodesInv, PinNodes!RoughIsAsked, PinNodes!GoneIsPlaced
<1>2. CASE PinNodes!Reload
  BY <1>1, <1>2 DEF PinNodes!Reload, PinNodes!phone, NodesInv
<1>3. ASSUME NEW n \in Poles, PinNodes!Edit(n) PROVE Safe
  <2>1. /\ s3' = [of |-> n, form |-> s2[n], at |-> "open"] /\ s7 = PinNodes!NoPin /\ s2 = s1
        /\ UNCHANGED <<s1, s2, s4, s5, s6, s7, s8>>
    BY <1>3 DEF PinNodes!Edit, PinNodes!FormOf, PinNodes!phone
  <2>2. s3' \in Opened /\ s3'.form = s1[n] /\ s3'.of = n
    BY <2>1 DEF NodesInv, Opened
  <2> QED
    BY <1>1, <2>1, <2>2 DEF NodesInv
<1>4. CASE PinNodes!Type
  <2>1. PICK v \in PinNodes!Names : s3' = [s3 EXCEPT !.form.name = v]
    BY <1>4 DEF PinNodes!Type
  <2>2. s3.at = "open" /\ UNCHANGED <<s1, s2, s4, s5, s6, s7, s8>>
    BY <1>4 DEF PinNodes!Type, PinNodes!phone
  <2>3. s3 \in Opened /\ s7 = PinNodes!NoPin /\ s3.form.at = s1[s3.of].at
    BY <1>c, <2>2 DEF NodesInv
  <2>4. s3' \in Opened /\ s3'.of = s3.of /\ s3'.form.at = s3.form.at
    BY <2>1, <2>3 DEF Opened, PinNodes!Row
  <2> QED
    BY <1>1, <2>2, <2>3, <2>4 DEF NodesInv
<1>5. CASE PinNodes!Close
  BY <1>1, <1>5 DEF PinNodes!Close, PinNodes!phone, NodesInv
<1>6. CASE PinNodes!Submit \/ PinNodes!SaveFails
  <2>1. /\ s3.at \in {"open", "saving"} /\ UNCHANGED <<s1, s2, s4, s5, s6, s7, s8>>
        /\ s3' = [s3 EXCEPT !.at = "saving"] \/ s3' = [s3 EXCEPT !.at = "open"]
    BY <1>6 DEF PinNodes!Submit, PinNodes!SaveFails, PinNodes!phone
  <2>2. s3 \in Opened /\ s7 = PinNodes!NoPin /\ s3.form.at = s1[s3.of].at
    BY <1>c, <2>1 DEF NodesInv
  <2>3. s3' \in Opened /\ s3'.of = s3.of /\ s3'.form = s3.form
    BY <2>1, <2>2 DEF Opened
  <2> QED
    BY <1>1, <2>1, <2>2, <2>3 DEF NodesInv
<1>7. CASE PinNodes!Saved
  <2>1. /\ s3.at = "saving" /\ s1' = [s1 EXCEPT ![s3.of] = s3.form] /\ s3' = PinNodes!NoDialog
        /\ s8' = (s8 \/ s1[s3.of].at # s3.form.at) /\ s2' \in {s2, s1'}
        /\ UNCHANGED <<s4, s5, s6, s7>>
    BY <1>7 DEF PinNodes!Saved, PinNodes!phone
  <2>2. s3 \in Opened /\ s7 = PinNodes!NoPin /\ s3.form.at = s1[s3.of].at
    BY <1>c, <2>1 DEF NodesInv
  <2>3. s1' \in [Poles -> PinNodes!Row] /\ s8' = FALSE
    BY <2>1, <2>2 DEF NodesInv, Opened
  <2> QED
    BY <1>c, <2>1, <2>2, <2>3 DEF NodesInv, PinNodes!RoughIsAsked, PinNodes!GoneIsPlaced
\* The technician walks or the fix settles.
<1>8. CASE PinNodes!Walk \/ PinNodes!Settle
  <2>1. UNCHANGED <<s1, s2, s3, s6, s7, s8>>
    BY <1>8 DEF PinNodes!Walk, PinNodes!Settle, PinNodes!page
  <2>2. s4' \in Spots /\ s5' \in Fixed /\ s5'.at = s4'
    BY <1>8 DEF PinNodes!Walk, PinNodes!Settle, NodesInv, Fixed
  <2> QED
    BY <1>c, <2>1, <2>2 DEF NodesInv, PinNodes!RoughIsAsked, PinNodes!GoneIsPlaced
<1>9. CASE PinNodes!LoadUnplaced
  <2>1. s6' = {n \in Poles : s1[n].at = "none"} /\ UNCHANGED <<s1, s2, s3, s4, s5, s7, s8>>
    BY <1>9 DEF PinNodes!LoadUnplaced, PinNodes!page
  <2> QED
    BY <1>c, <2>1 DEF NodesInv, PinNodes!RoughIsAsked, PinNodes!GoneIsPlaced
<1>10. ASSUME NEW n \in Poles, PinNodes!PinHere(n) PROVE Safe
  <2>1. /\ s5 # PinNodes!NoFix /\ s3 = PinNodes!NoDialog
        /\ s7' = [of |-> n, to |-> s5.at, at |-> s4, step |-> PinNodes!Step(s5.sure)]
        /\ UNCHANGED <<s1, s2, s3, s4, s5, s6, s8>>
    BY <1>10 DEF PinNodes!PinHere, PinNodes!page
  <2>2. s5 \in Fixed /\ s5.at = s4
    BY <2>1 DEF NodesInv
  <2>3. /\ s7' \in Pinned /\ s7'.to = s7'.at /\ s7'.step # "stored"
        /\ s7'.step = "sent" => s5.sure # "rough"
    BY <2>1, <2>2 DEF Fixed, Pinned, PinNodes!Step
  <2> QED
    BY <2>1, <2>3 DEF NodesInv, PinNodes!RoughIsAsked, PinNodes!GoneIsPlaced
\* The pin goes on.
<1>11. CASE PinNodes!Answer
  <2>1. /\ s7.step = "asked" /\ s7' \in {PinNodes!NoPin, [s7 EXCEPT !.step = "sent"]}
        /\ UNCHANGED <<s1, s2, s3, s4, s5, s6, s8>>
    BY <1>11 DEF PinNodes!Answer, PinNodes!page
  <2>2. s7 # PinNodes!NoPin /\ s7 \in Pinned /\ s7.to = s7.at /\ s3 = PinNodes!NoDialog
    BY <1>c, <2>1 DEF NodesInv
  <2>3. s7' # PinNodes!NoPin => s7' \in Pinned /\ s7'.to = s7'.at /\ s7'.step # "stored"
    BY <2>1, <2>2 DEF Pinned
  <2> QED
    BY <2>1, <2>2, <2>3 DEF NodesInv, PinNodes!RoughIsAsked, PinNodes!GoneIsPlaced
<1>12. CASE PinNodes!ServePin
  <2>1. /\ s7.step = "sent" /\ s7' = [s7 EXCEPT !.step = "stored"]
        /\ s1' = [s1 EXCEPT ![s7.of].at = s7.to] /\ UNCHANGED <<s2, s3, s4, s5, s6, s8>>
    BY <1>12 DEF PinNodes!ServePin, PinNodes!page
  <2>2. s7 # PinNodes!NoPin /\ s7 \in Pinned /\ s7.to = s7.at /\ s3 = PinNodes!NoDialog
    BY <1>c, <2>1 DEF NodesInv
  <2>3. s7' \in Pinned /\ s7'.to = s7'.at /\ s7'.of = s7.of
    BY <2>1, <2>2 DEF Pinned
  <2>4. s1' \in [Poles -> PinNodes!Row] /\ s1'[s7.of].at = s7.to /\ s7.to # "none"
    <3>1. s7.of \in Poles /\ s7.to \in Spots /\ s1[s7.of] \in PinNodes!Row
      BY <2>2 DEF NodesInv, Pinned
    <3>2. [s1[s7.of] EXCEPT !.at = s7.to] \in PinNodes!Row /\ [s1[s7.of] EXCEPT !.at = s7.to].at = s7.to
      BY <3>1 DEF PinNodes!Row
    <3> QED
      BY <1>n, <2>1, <3>1, <3>2 DEF NodesInv
  <2> QED
    BY <2>1, <2>2, <2>3, <2>4 DEF NodesInv, PinNodes!RoughIsAsked, PinNodes!GoneIsPlaced
<1>13. CASE PinNodes!PinAnswered
  <2>1. /\ s7.step = "stored" /\ s7' = PinNodes!NoPin /\ s6' = s6 \ {s7.of}
        /\ UNCHANGED <<s1, s2, s3, s4, s5, s8>>
    BY <1>13 DEF PinNodes!PinAnswered, PinNodes!page
  <2>2. s1[s7.of].at # "none"
    BY <1>c, <2>1 DEF NodesInv
  <2> QED
    BY <1>c, <2>1, <2>2 DEF NodesInv, PinNodes!RoughIsAsked, PinNodes!GoneIsPlaced
<1>14. CASE PinNodes!PinFails
  <2>1. s7' = PinNodes!NoPin /\ UNCHANGED <<s1, s2, s3, s4, s5, s6, s8>>
    BY <1>14 DEF PinNodes!PinFails, PinNodes!page
  <2> QED
    BY <1>c, <2>1 DEF NodesInv, PinNodes!RoughIsAsked, PinNodes!GoneIsPlaced
<1>15. CASE UNCHANGED PinNodes!vars
  BY <1>1, <1>15 DEF PinNodes!vars, NodesInv
<1> HIDE DEF Safe
<1> QED
  BY <1>2, <1>3, <1>4, <1>5, <1>6, <1>7, <1>8, <1>9, <1>10, <1>11, <1>12, <1>13, <1>14, <1>15
     DEF PinNodes!Next

-----------------------------------------------------------------------------
(*                       The ports of a splice plan                        *)

LEMMA SheetSteps == part = "ports" /\ [Next]_vars => [Sheet!Next]_(Sheet!vars)
BY DEF Next, vars, Sheet!vars

\* s2 are the splices, s4 is the node selected, s5 the sheet and s6 the sheets asked for,
\* s7 the dialog's port, s9 the assignment and s10 the clearing under way.
SplicesTyped ==
    /\ DOMAIN s2 = Poles
    /\ \A n \in Poles : DOMAIN s2[n] = SheetPorts
    /\ \A n \in Poles, p \in SheetPorts : DOMAIN s2[n][p] = {"id", "cable"}

\* One who waits selects no other node while a dialog is open or a request is out, so
\* that every sheet asked for is of the node selected.
SheetInv ==
    /\ SplicesTyped
    /\ \A r \in s6 : r.of = s4 /\ DOMAIN r = {"of", "k", "ports", "read"}
    /\ s5 # Sheet!NoSheet /\ s6 = {} => s5.of = s4
    /\ s7 # Sheet!NotAssigning => s6 = {} /\ s5 # Sheet!NoSheet /\ s7.opened = s5.of
    /\ s9 # Sheet!NoSave => s6 = {} /\ s9.node = s9.opened
    /\ s10 # Sheet!NoClear =>
           /\ s7 = Sheet!NotAssigning /\ s9 = Sheet!NoSave
           /\ DOMAIN s10 = {"node", "port", "id", "sent"} /\ s10.node = s4
    /\ s11 = FALSE /\ s12 = FALSE

LEMMA SheetBegin == Sheet!Init => SheetInv
BY DEF Sheet!Init, SheetInv, SplicesTyped, Sheet!Free

\* A splice is written.
LEMMA OneSplice ==
    ASSUME SplicesTyped, NEW n, NEW p, NEW v, DOMAIN v = {"id", "cable"},
           s2' = [s2 EXCEPT ![n][p] = v]
    PROVE  SplicesTyped'
<1>1. DOMAIN s2' = Poles
  BY DEF SplicesTyped
<1>2. ASSUME NEW m \in Poles
      PROVE  /\ DOMAIN s2'[m] = SheetPorts
             /\ \A q \in SheetPorts : s2'[m][q] = IF m = n /\ q = p THEN v ELSE s2[m][q]
  BY DEF SplicesTyped
<1> QED
  BY <1>1, <1>2 DEF SplicesTyped

\* A sheet is asked for.
LEMMA SheetAsked ==
    ASSUME NEW n, Sheet!Asks(n)
    PROVE  \/ s6' = s6
           \/ \E r : s6' = s6 \cup {r} /\ r.of = n /\ DOMAIN r = {"of", "k", "ports", "read"}
<1> DEFINE r == [of |-> n, k |-> s13, ports |-> Sheet!NoSheet.ports, read |-> FALSE]
<1>1. r.of = n /\ DOMAIN r = {"of", "k", "ports", "read"}
  OBVIOUS
<1>2. s6' = s6 \/ s6' = s6 \cup {r}
  BY DEF Sheet!Asks
<1> HIDE DEF r
<1> QED
  BY <1>1, <1>2

LEMMA SheetStep ==
    SheetInv /\ [Sheet!Next]_(Sheet!vars) => SheetInv' /\ Sheet!CableKeepsPorts
<1> DEFINE Safe == SheetInv' /\ Sheet!CableKeepsPorts
<1> SUFFICES ASSUME SheetInv, [Sheet!Next]_(Sheet!vars) PROVE Safe
  OBVIOUS
<1>c. DOMAIN Sheet!Free = {"id", "cable"} /\ Sheet!Free.id = 0
  BY DEF Sheet!Free
<1>f. Sheet!NoClear.sent = FALSE
  BY DEF Sheet!NoClear
<1>1. CASE UNCHANGED <<s1, s2, s4, s5, s6, s7, s9, s10, s11, s12>>
  BY <1>1 DEF SheetInv, SplicesTyped, Sheet!CableKeepsPorts
<1>2. ASSUME NEW n \in Poles, Sheet!Select(n) PROVE Safe
  <2>1. /\ s6 = {} /\ s9 = Sheet!NoSave /\ s10 = Sheet!NoClear /\ s7 = Sheet!NotAssigning
        /\ s4' = n /\ s13 < MaxSheets /\ Sheet!Asks(n)
        /\ UNCHANGED <<s1, s2, s5, s7, s9, s10, s11, s12>>
    BY <1>2 DEF Sheet!Select, Sheet!MayAct, Sheet!server
  <2>2. PICK r : s6' = {r} /\ r.of = n /\ DOMAIN r = {"of", "k", "ports", "read"}
    <3> DEFINE q == [of |-> n, k |-> s13, ports |-> Sheet!NoSheet.ports, read |-> FALSE]
    <3>1. q.of = n /\ DOMAIN q = {"of", "k", "ports", "read"}
      OBVIOUS
    <3>2. s6' = {q}
      BY <2>1 DEF Sheet!Asks
    <3> HIDE DEF q
    <3> QED
      BY <3>1, <3>2
  <2> QED
    BY <2>1, <2>2 DEF SheetInv, SplicesTyped, Sheet!CableKeepsPorts
<1>3. CASE Sheet!ServeSheet
  <2>1. PICK r \in s6 : s6' = (s6 \ {r}) \cup {[r EXCEPT !.read = TRUE, !.ports = s2[r.of]]}
    BY <1>3 DEF Sheet!ServeSheet
  <2>2. UNCHANGED <<s1, s2, s4, s5, s7, s9, s10, s11, s12>>
    BY <1>3 DEF Sheet!ServeSheet, Sheet!server, Sheet!dialog
  <2> DEFINE q == [r EXCEPT !.read = TRUE, !.ports = s2[r.of]]
  <2>3. q.of = s4 /\ DOMAIN q = {"of", "k", "ports", "read"}
    BY DEF SheetInv
  <2> HIDE DEF q
  <2>4. s6' = (s6 \ {r}) \cup {q}
    BY <2>1 DEF q
  <2> QED
    BY <2>2, <2>3, <2>4 DEF SheetInv, SplicesTyped, Sheet!CableKeepsPorts
<1>4. CASE Sheet!SheetAnswered
  <2>1. PICK r \in s6 : /\ s6' = s6 \ {r}
                        /\ s5' = IF r.read THEN [of |-> r.of, ports |-> r.ports] ELSE Sheet!NoSheet
    BY <1>4 DEF Sheet!SheetAnswered
  <2>2. UNCHANGED <<s1, s2, s4, s7, s9, s10, s11, s12>>
    BY <1>4 DEF Sheet!SheetAnswered, Sheet!server, Sheet!dialog
  <2>3. s5' # Sheet!NoSheet => s5'.of = s4
    BY <2>1 DEF SheetInv
  <2> QED
    BY <2>1, <2>2, <2>3 DEF SheetInv, SplicesTyped, Sheet!CableKeepsPorts
<1>5. ASSUME NEW p \in SheetPorts, Sheet!OpenAssign(p) PROVE Safe
  <2>1. /\ s6 = {} /\ s9 = Sheet!NoSave /\ s10 = Sheet!NoClear /\ s5 # Sheet!NoSheet
        /\ s7' = [port |-> p, opened |-> s5.of]
        /\ UNCHANGED <<s1, s2, s4, s5, s6, s9, s10, s11, s12>>
    BY <1>5 DEF Sheet!OpenAssign, Sheet!MayAct, Sheet!server
  <2>2. s7'.opened = s5.of
    BY <2>1
  <2> QED
    BY <2>1, <2>2 DEF SheetInv, SplicesTyped, Sheet!CableKeepsPorts
<1>6. CASE Sheet!CloseAssign
  <2>1. s7' = Sheet!NotAssigning /\ UNCHANGED <<s1, s2, s4, s5, s6, s9, s10, s11, s12>>
    BY <1>6 DEF Sheet!CloseAssign, Sheet!server
  <2> QED
    BY <2>1 DEF SheetInv, SplicesTyped, Sheet!CableKeepsPorts
<1>7. CASE Sheet!SubmitAssign
  <2>1. PICK c : s9' = [node |-> s5.of, port |-> s7.port, cable |-> c, opened |-> s7.opened]
    BY <1>7 DEF Sheet!SubmitAssign
  <2>2. s7 # Sheet!NotAssigning /\ UNCHANGED <<s1, s2, s4, s5, s6, s7, s10, s11, s12>>
    BY <1>7 DEF Sheet!SubmitAssign, Sheet!server
  <2>3. s9'.node = s5.of /\ s9'.opened = s7.opened
    BY <2>1
  <2> QED
    BY <2>2, <2>3 DEF SheetInv, SplicesTyped, Sheet!CableKeepsPorts
<1>8. CASE Sheet!AssignStored
  <2> DEFINE v == [id |-> s3 + 1, cable |-> s9.cable]
  <2>1. /\ s9 # Sheet!NoSave /\ s2[s9.node][s9.port] = Sheet!Free
        /\ s12' = (s12 \/ s2[s9.node][s9.port].id # 0) /\ s11' = (s11 \/ s9.node # s9.opened)
        /\ s2' = [s2 EXCEPT ![s9.node][s9.port] = v]
        /\ s9' = Sheet!NoSave /\ s7' = Sheet!NotAssigning /\ Sheet!Asks(s4)
        /\ UNCHANGED <<s1, s4, s5, s10>>
    BY <1>8 DEF Sheet!AssignStored, Sheet!Taken
  <2>2. DOMAIN v = {"id", "cable"}
    OBVIOUS
  <2> HIDE DEF v
  <2>3. SplicesTyped'
    BY <2>1, <2>2, OneSplice DEF SheetInv
  <2>4. s6' = s6 \/ \E r : s6' = s6 \cup {r} /\ r.of = s4 /\ DOMAIN r = {"of", "k", "ports", "read"}
    BY <2>1, SheetAsked
  <2>5. s12' = FALSE /\ s11' = FALSE
    BY <1>c, <2>1 DEF SheetInv
  <2> QED
    BY <2>1, <2>3, <2>4, <2>5 DEF SheetInv, Sheet!CableKeepsPorts
<1>9. CASE Sheet!AssignFails
  <2>1. s9' = Sheet!NoSave /\ UNCHANGED <<s1, s2, s4, s5, s6, s7, s10, s11, s12>>
    BY <1>9 DEF Sheet!AssignFails, Sheet!server
  <2> QED
    BY <2>1 DEF SheetInv, SplicesTyped, Sheet!CableKeepsPorts
<1>10. ASSUME NEW p \in SheetPorts, Sheet!AskClear(p) PROVE Safe
  <2>1. /\ s6 = {} /\ s9 = Sheet!NoSave /\ s5 # Sheet!NoSheet /\ s7 = Sheet!NotAssigning
        /\ s10' = [node |-> s5.of, port |-> p, id |-> s5.ports[p].id, sent |-> FALSE]
        /\ UNCHANGED <<s1, s2, s4, s5, s6, s7, s9, s11, s12>>
    BY <1>10 DEF Sheet!AskClear, Sheet!MayAct, Sheet!server, Sheet!dialog
  <2>2. s10'.node = s4 /\ DOMAIN s10' = {"node", "port", "id", "sent"}
    BY <2>1 DEF SheetInv
  <2> QED
    BY <2>1, <2>2 DEF SheetInv, SplicesTyped, Sheet!CableKeepsPorts
<1>11. CASE Sheet!AnswerClear
  <2>1. /\ s10 # Sheet!NoClear /\ s10' \in {Sheet!NoClear, [s10 EXCEPT !.sent = TRUE]}
        /\ UNCHANGED <<s1, s2, s4, s5, s6, s7, s9, s11, s12>>
    BY <1>11 DEF Sheet!AnswerClear, Sheet!server, Sheet!dialog
  <2>2. s10' # Sheet!NoClear => s10'.node = s4 /\ DOMAIN s10' = {"node", "port", "id", "sent"}
    BY <2>1 DEF SheetInv
  <2> QED
    BY <2>1, <2>2 DEF SheetInv, SplicesTyped, Sheet!CableKeepsPorts
<1>12. CASE Sheet!ClearStored
  <2>1. /\ s10.sent /\ s2[s10.node][s10.port].id = s10.id
        /\ s12' = (s12 \/ s2[s10.node][s10.port].id # s10.id)
        /\ s2' = [s2 EXCEPT ![s10.node][s10.port] = Sheet!Free]
        /\ s10' = Sheet!NoClear /\ Sheet!Asks(s10.node)
        /\ UNCHANGED <<s1, s4, s5, s7, s9, s11>>
    BY <1>12 DEF Sheet!ClearStored, Sheet!Aim, Sheet!dialog
  <2>2. s10 # Sheet!NoClear
    BY <1>f, <2>1
  <2>3. SplicesTyped'
    BY <1>c, <2>1, OneSplice DEF SheetInv
  <2>4. s6' = s6 \/ \E r : s6' = s6 \cup {r} /\ r.of = s4 /\ DOMAIN r = {"of", "k", "ports", "read"}
    BY <2>1, <2>2, SheetAsked DEF SheetInv
  <2>5. s12' = FALSE
    BY <2>1 DEF SheetInv
  <2> QED
    BY <2>1, <2>2, <2>3, <2>4, <2>5 DEF SheetInv, Sheet!CableKeepsPorts
<1>13. CASE Sheet!ClearFails
  <2>1. s10' = Sheet!NoClear /\ UNCHANGED <<s1, s2, s4, s5, s6, s7, s9, s11, s12>>
    BY <1>13 DEF Sheet!ClearFails, Sheet!server, Sheet!dialog
  <2> QED
    BY <2>1 DEF SheetInv, SplicesTyped, Sheet!CableKeepsPorts
<1>14. ASSUME NEW c \in Cables, Sheet!DeleteCable(c) PROVE Safe
  <2>1. s2' = Sheet!WithoutCable(c) /\ UNCHANGED <<s4, s5, s6, s7, s9, s10, s11, s12>>
    BY <1>14 DEF Sheet!DeleteCable, Sheet!dialog
  <2>2. DOMAIN s2' = Poles /\ \A n \in Poles : DOMAIN s2'[n] = SheetPorts
    BY <2>1 DEF Sheet!WithoutCable
  <2>3. ASSUME NEW n \in Poles, NEW p \in SheetPorts
        PROVE  DOMAIN s2'[n][p] = {"id", "cable"} /\ s2'[n][p].id = s2[n][p].id
    <3>1. s2'[n][p] = IF s2[n][p].cable = c THEN [s2[n][p] EXCEPT !.cable = "none"] ELSE s2[n][p]
      BY <2>1 DEF Sheet!WithoutCable
    <3>2. DOMAIN s2[n][p] = {"id", "cable"}
      BY DEF SheetInv, SplicesTyped
    <3> QED
      BY <3>1, <3>2
  <2> QED
    BY <2>1, <2>2, <2>3 DEF SheetInv, SplicesTyped, Sheet!CableKeepsPorts
<1>15. ASSUME NEW n \in Poles, NEW p \in SheetPorts, Sheet!Other(n, p) PROVE Safe
  <2>1. UNCHANGED <<s1, s4, s5, s6, s7, s9, s10, s11, s12>>
    BY <1>15 DEF Sheet!Other, Sheet!dialog
  <2>2. PICK v : DOMAIN v = {"id", "cable"} /\ s2' = [s2 EXCEPT ![n][p] = v]
    <3> DEFINE v == [id |-> s3 + 1, cable |-> "none"]
    <3>1. DOMAIN v = {"id", "cable"}
      OBVIOUS
    <3>2. s2' = [s2 EXCEPT ![n][p] = Sheet!Free] \/ s2' = [s2 EXCEPT ![n][p] = v]
      BY <1>15 DEF Sheet!Other
    <3> HIDE DEF v
    <3> QED
      BY <1>c, <3>1, <3>2
  <2>3. SplicesTyped'
    BY <2>2, OneSplice DEF SheetInv
  <2> QED
    BY <2>1, <2>3 DEF SheetInv, Sheet!CableKeepsPorts
<1>16. CASE UNCHANGED Sheet!vars
  BY <1>1, <1>16 DEF Sheet!vars
<1> HIDE DEF Safe
<1> QED
  BY <1>2, <1>3, <1>4, <1>5, <1>6, <1>7, <1>8, <1>9, <1>10, <1>11, <1>12, <1>13, <1>14, <1>15, <1>16
     DEF Sheet!Next

-----------------------------------------------------------------------------
(*                        The drawing of the plant                         *)

LEMMA MapSteps == part = "map" /\ [Next]_vars => [Map!Next]_(Map!vars)
BY DEF Next, vars, Map!vars

LEMMA HastySteps == part = "hasty" /\ [Next]_vars => [Hasty!Next]_(Hasty!vars)
BY DEF Next, vars, Hasty!vars

\* s1 is where the server has each node and s2 every place it ever had it, s3 is what the
\* page draws, s4 are the readings and s5 the drags under way.
Grid(d) == DOMAIN d = Poles /\ \A n \in Poles : d[n] # "none" => d[n] \in s2[n]
Reading(l) == DOMAIN l = {"n", "at", "rows"} /\ Grid(l.rows)
Drag(m) == /\ DOMAIN m = {"n", "node", "to", "at"} /\ m.node \in Poles
           /\ m.at = "stored" => m.to \in s2[m.node]

\* Whatever may come to be drawn was accepted: what the server has, what a reading
\* answers, and a drag that is stored.
DrawnInv ==
    /\ DOMAIN s2 = Poles /\ Grid(s1) /\ Grid(s3)
    /\ \A l \in s4 : Reading(l)
    /\ \A m \in s5 : Drag(m)

LEMMA DrawnBegin == Map!Init \/ Hasty!Init => DrawnInv
<1> SUFFICES ASSUME Map!Init \/ Hasty!Init PROVE DrawnInv
  OBVIOUS
<1>1. PICK p : s1 = [n \in Poles |-> p] /\ s2 = [n \in Poles |-> {p}]
  BY DEF Map!Init, Hasty!Init
<1>2. s3 \in {[n \in Poles |-> "none"], s1} /\ s4 = {} /\ s5 = {}
  BY DEF Map!Init, Hasty!Init
<1> QED
  BY <1>1, <1>2 DEF DrawnInv, Grid

\* What was accepted stays so, and the page and the server take only what was.
LEMMA DrawnKeeps ==
    ASSUME DrawnInv,
           DOMAIN s2' = Poles, \A n \in Poles : s2[n] \subseteq s2'[n],
           DOMAIN s1' = Poles, \A n \in Poles : s1'[n] \in {s1[n], "none"} \cup s2'[n],
           DOMAIN s3' = Poles, \A n \in Poles : s3'[n] \in {s3[n], "none"} \cup s2'[n],
           \A l \in s4' : Reading(l),
           \A m \in s5' : m \in s5 \/ Drag(m)'
    PROVE  DrawnInv'
<1>1. Grid(s1)' /\ Grid(s3)'
  BY DEF DrawnInv, Grid
<1>2. ASSUME NEW l, Reading(l) PROVE Reading(l)'
  BY <1>2 DEF Reading, Grid
<1>3. ASSUME NEW m, Drag(m) PROVE Drag(m)'
  BY <1>3 DEF Drag
<1> QED
  BY <1>1, <1>2, <1>3 DEF DrawnInv

\* A place is recorded.
LEMMA PlaceRecorded ==
    ASSUME DrawnInv, NEW n, NEW p, s1' = [s1 EXCEPT ![n] = p],
           s2' = [s2 EXCEPT ![n] = @ \cup {p}]
    PROVE  /\ DOMAIN s2' = Poles /\ \A k \in Poles : s2[k] \subseteq s2'[k]
           /\ DOMAIN s1' = Poles /\ \A k \in Poles : s1'[k] \in {s1[k], "none"} \cup s2'[k]
           /\ n \in Poles => p \in s2'[n]
BY DEF DrawnInv, Grid

LEMMA MapReads ==
    DrawnInv => \A l \in Map!Sent : Reading(l)
<1> SUFFICES ASSUME DrawnInv PROVE \A l \in Map!Sent : Reading(l)
  OBVIOUS
<1> DEFINE l == [n |-> s13.loads, at |-> "sent", rows |-> s3]
<1>1. Reading(l)
  BY DEF DrawnInv, Reading
<1>2. Map!Sent \subseteq s4 \cup {l}
  BY DEF Map!Sent
<1> HIDE DEF l
<1> QED
  BY <1>1, <1>2 DEF DrawnInv

LEMMA MapStep == DrawnInv /\ [Map!Next]_(Map!vars) => DrawnInv'
<1> SUFFICES ASSUME DrawnInv, [Map!Next]_(Map!vars) PROVE DrawnInv'
  OBVIOUS
\* Nothing is stored.
<1>1. ASSUME UNCHANGED <<s1, s2>>, DOMAIN s3' = Poles, \A n \in Poles : s3'[n] \in {s3[n], "none"} \cup s2[n],
             \A l \in s4' : Reading(l), \A m \in s5' : m \in s5 \/ Drag(m)'
      PROVE  DrawnInv'
  BY <1>1, DrawnKeeps DEF DrawnInv, Grid
<1>2. ASSUME UNCHANGED <<s1, s2, s3, s5>>, s4' = s4 \/ s4' = Map!Sent
      PROVE  DrawnInv'
  BY <1>1, <1>2, MapReads DEF DrawnInv, Grid
<1>3. CASE Map!Load \/ Map!TraceAnswered \/ Map!CloseRail \/ Map!Draft \/ Map!CancelMode \/ Map!SaveNode
           \/ Map!SaveCable \/ Map!WriteFails \/ Map!Batch
  BY <1>2, <1>3 DEF Map!Load, Map!TraceAnswered, Map!CloseRail, Map!Draft, Map!CancelMode, Map!SaveNode,
     Map!SaveCable, Map!WriteFails, Map!Batch, Map!server
<1>4. CASE \/ \E n \in Poles : Map!SelectNode(n)
           \/ \E m \in {"add", "draw"} : Map!Enter(m)
  BY <1>2, <1>4 DEF Map!SelectNode, Map!Enter, Map!server
<1>5. CASE Map!ServeLoad
  <2>1. PICK l \in s4 : s4' = (s4 \ {l}) \cup {[l EXCEPT !.at = "read", !.rows = s1]}
    BY <1>5 DEF Map!ServeLoad
  <2> DEFINE q == [l EXCEPT !.at = "read", !.rows = s1]
  <2>2. Reading(q)
    BY DEF DrawnInv, Reading
  <2>3. s4' \subseteq s4 \cup {q}
    BY <2>1
  <2> HIDE DEF q
  <2>4. \A r \in s4' : Reading(r)
    BY <2>2, <2>3 DEF DrawnInv
  <2>5. UNCHANGED <<s1, s2, s3, s5>>
    BY <1>5 DEF Map!ServeLoad, Map!server
  <2> QED
    BY <1>1, <2>4, <2>5 DEF DrawnInv, Grid
<1>6. CASE Map!LoadAnswered
  <2>1. PICK l \in s4 : s3' = l.rows /\ s4' = s4 \ {l}
    BY <1>6 DEF Map!LoadAnswered
  <2>2. UNCHANGED <<s1, s2, s5>>
    BY <1>6 DEF Map!LoadAnswered, Map!server
  <2>3. Grid(s3')
    BY <2>1 DEF DrawnInv, Reading
  <2> QED
    BY <1>1, <2>1, <2>2, <2>3 DEF DrawnInv, Grid
<1>7. CASE Map!LoadFails
  <2>1. s4' \subseteq s4 /\ UNCHANGED <<s1, s2, s3, s5>>
    BY <1>7 DEF Map!LoadFails, Map!server
  <2> QED
    BY <1>1, <2>1 DEF DrawnInv, Grid
<1>8. CASE Map!SaveAnswered
  <2>1. s4' = Map!Sent /\ UNCHANGED <<s3, s5>>
    BY <1>8 DEF Map!SaveAnswered
  <2>2. \/ UNCHANGED <<s1, s2>>
        \/ s1' = [s1 EXCEPT ![s12.node] = s12.at] /\ s2' = [s2 EXCEPT ![s12.node] = @ \cup {s12.at}]
    BY <1>8 DEF Map!SaveAnswered, Map!server
  <2>3. CASE UNCHANGED <<s1, s2>>
    BY <1>2, <2>1, <2>3
  <2>4. CASE s1' = [s1 EXCEPT ![s12.node] = s12.at] /\ s2' = [s2 EXCEPT ![s12.node] = @ \cup {s12.at}]
    BY <2>1, <2>4, PlaceRecorded, MapReads, DrawnKeeps DEF DrawnInv, Grid
  <2> QED
    BY <2>2, <2>3, <2>4
<1>9. CASE Map!BatchGoesOn
  <2>1. (s4' = s4 \/ s4' = Map!Sent) /\ UNCHANGED <<s3, s5>>
    BY <1>9 DEF Map!BatchGoesOn
  <2>2. \/ UNCHANGED <<s1, s2>>
        \/ \E n, p : s1' = [s1 EXCEPT ![n] = p] /\ s2' = [s2 EXCEPT ![n] = @ \cup {p}]
    BY <1>9 DEF Map!BatchGoesOn, Map!server
  <2>3. CASE UNCHANGED <<s1, s2>>
    BY <1>2, <2>1, <2>3
  <2>4. ASSUME NEW n, NEW p, s1' = [s1 EXCEPT ![n] = p], s2' = [s2 EXCEPT ![n] = @ \cup {p}]
        PROVE  DrawnInv'
    BY <2>1, <2>4, PlaceRecorded, MapReads, DrawnKeeps DEF DrawnInv, Grid
  <2> QED
    BY <2>2, <2>3, <2>4
<1>10. ASSUME NEW n \in Poles, NEW p \in Spots, Map!MoveNode(n, p) PROVE DrawnInv'
  <2>1. PICK m : /\ DOMAIN m = {"n", "node", "to", "at"}
                 /\ m.node = n /\ m.to = p /\ m.at = "sent"
                 /\ s5' = s5 \cup {m} /\ UNCHANGED <<s1, s2, s3, s4>>
    BY <1>10 DEF Map!MoveNode, Map!DrawnNow, Map!server
  <2>2. Drag(m)'
    BY <2>1 DEF Drag
  <2>3. \A r \in s5' : r \in s5 \/ Drag(r)'
    BY <2>1, <2>2
  <2>4. UNCHANGED <<s1, s2, s3, s4>>
    BY <2>1
  <2> QED
    BY <1>1, <2>3, <2>4 DEF DrawnInv, Grid
<1>11. CASE Map!ServeMove
  <2>1. PICK m \in s5 :
            \/ /\ s1' = [s1 EXCEPT ![m.node] = m.to] /\ s2' = [s2 EXCEPT ![m.node] = @ \cup {m.to}]
               /\ s5' = (s5 \ {m}) \cup {[m EXCEPT !.at = "stored"]}
            \/ s5' = (s5 \ {m}) \cup {[m EXCEPT !.at = "refused"]} /\ UNCHANGED <<s1, s2>>
    BY <1>11 DEF Map!ServeMove, Map!server
  <2>2. UNCHANGED <<s3, s4>>
    BY <1>11 DEF Map!ServeMove
  <2>3. Drag(m)
    BY DEF DrawnInv
  <2>4. CASE /\ s1' = [s1 EXCEPT ![m.node] = m.to] /\ s2' = [s2 EXCEPT ![m.node] = @ \cup {m.to}]
             /\ s5' = (s5 \ {m}) \cup {[m EXCEPT !.at = "stored"]}
    <3> DEFINE q == [m EXCEPT !.at = "stored"]
    <3>1. m.to \in s2'[m.node]
      BY <2>3, <2>4, PlaceRecorded DEF Drag
    <3>2. Drag(q)'
      BY <2>3, <3>1 DEF Drag
    <3>3. s5' \subseteq s5 \cup {q}
      BY <2>4
    <3> HIDE DEF q
    <3>4. \A r \in s5' : r \in s5 \/ Drag(r)'
      BY <3>2, <3>3
    <3> QED
      BY <2>2, <2>4, <3>4, PlaceRecorded, DrawnKeeps DEF DrawnInv, Grid
  <2>5. CASE s5' = (s5 \ {m}) \cup {[m EXCEPT !.at = "refused"]} /\ UNCHANGED <<s1, s2>>
    <3> DEFINE q == [m EXCEPT !.at = "refused"]
    <3>1. Drag(q)'
      BY <2>3 DEF Drag
    <3>2. s5' \subseteq s5 \cup {q}
      BY <2>5
    <3> HIDE DEF q
    <3>3. \A r \in s5' : r \in s5 \/ Drag(r)'
      BY <3>1, <3>2
    <3> QED
      BY <1>1, <2>2, <2>5, <3>3 DEF DrawnInv, Grid
  <2> QED
    BY <2>1, <2>4, <2>5
<1>12. CASE Map!MoveAnswered
  <2>1. PICK m \in s5 : /\ m.at = "stored" /\ s5' = s5 \ {m}
                        /\ s3' = [s3 EXCEPT ![m.node] = IF @ = "none" THEN "none" ELSE m.to]
    BY <1>12 DEF Map!MoveAnswered
  <2>2. UNCHANGED <<s1, s2, s4>>
    BY <1>12 DEF Map!MoveAnswered, Map!server
  <2>3. m.node \in Poles /\ m.to \in s2[m.node]
    BY <2>1 DEF DrawnInv, Drag
  <2>4. DOMAIN s3' = Poles /\ \A n \in Poles : s3'[n] \in {s3[n], "none"} \cup s2[n]
    BY <2>1, <2>3 DEF DrawnInv, Grid
  <2> QED
    BY <1>1, <2>1, <2>2, <2>4 DEF DrawnInv
<1>13. CASE Map!MoveFails
  <2>1. s5' \subseteq s5 /\ s4' = Map!Sent /\ UNCHANGED <<s1, s2, s3>>
    BY <1>13 DEF Map!MoveFails, Map!server
  <2> QED
    BY <1>1, <2>1, MapReads DEF DrawnInv, Grid
<1>14. CASE Map!RemoveNode
  <2>1. s1' = [s1 EXCEPT ![s6] = "none"] /\ s4' = Map!Sent /\ UNCHANGED <<s2, s3, s5>>
    BY <1>14 DEF Map!RemoveNode
  <2>2. DOMAIN s1' = Poles /\ \A n \in Poles : s1'[n] \in {s1[n], "none"}
    BY <2>1 DEF DrawnInv, Grid
  <2> QED
    BY <2>1, <2>2, MapReads, DrawnKeeps DEF DrawnInv, Grid
<1>15. CASE UNCHANGED Map!vars
  BY <1>2, <1>15 DEF Map!vars
<1> QED
  BY <1>3, <1>4, <1>5, <1>6, <1>7, <1>8, <1>9, <1>10, <1>11, <1>12, <1>13, <1>14, <1>15 DEF Map!Next

\* One who does not wait drags while answers are out; the handlers of answers are the same.
LEMMA HastyStep == DrawnInv /\ [Hasty!Next]_(Hasty!vars) => DrawnInv'
<1> SUFFICES ASSUME DrawnInv, [Hasty!Next]_(Hasty!vars) PROVE DrawnInv'
  OBVIOUS
<1>s. Hasty!Sent = Map!Sent
  BY DEF Hasty!Sent, Map!Sent
<1>1. CASE \/ Hasty!ServeLoad \/ Hasty!LoadAnswered \/ Hasty!LoadFails \/ Hasty!TraceAnswered \/ Hasty!Draft
           \/ Hasty!CancelMode \/ Hasty!SaveNode \/ Hasty!SaveCable \/ Hasty!WriteFails
  <2>1. \/ Map!ServeLoad \/ Map!LoadAnswered \/ Map!LoadFails \/ Map!TraceAnswered \/ Map!Draft
        \/ Map!CancelMode \/ Map!SaveNode \/ Map!SaveCable \/ Map!WriteFails
    BY <1>1 DEF Hasty!ServeLoad, Map!ServeLoad, Hasty!LoadAnswered, Map!LoadAnswered, Hasty!LoadFails,
       Map!LoadFails, Hasty!TraceAnswered, Map!TraceAnswered, Hasty!Draft, Map!Draft, Hasty!CancelMode,
       Map!CancelMode, Hasty!SaveNode, Map!SaveNode, Hasty!SaveCable, Map!SaveCable, Hasty!WriteFails,
       Map!WriteFails, Hasty!Busy, Map!Busy, Hasty!Cleared, Map!Cleared, Hasty!NoDraft, Map!NoDraft,
       Hasty!NoWrite, Map!NoWrite, Hasty!server, Map!server, Hasty!rail, Map!rail, Hasty!tools, Map!tools
  <2> QED
    BY <2>1, MapStep DEF Map!Next
<1>2. CASE Hasty!SaveAnswered \/ Hasty!ServeMove \/ Hasty!MoveAnswered \/ Hasty!MoveFails \/ Hasty!BatchGoesOn
  <2>1. Map!SaveAnswered \/ Map!ServeMove \/ Map!MoveAnswered \/ Map!MoveFails \/ Map!BatchGoesOn
    BY <1>s, <1>2 DEF Hasty!SaveAnswered, Map!SaveAnswered, Hasty!ServeMove, Map!ServeMove,
       Hasty!MoveAnswered, Map!MoveAnswered, Hasty!MoveFails, Map!MoveFails, Hasty!BatchGoesOn,
       Map!BatchGoesOn, Hasty!Counted, Map!Counted, Hasty!Cleared, Map!Cleared, Hasty!NoDraft,
       Map!NoDraft, Hasty!NoWrite, Map!NoWrite, Hasty!server, Map!server, Hasty!rail, Map!rail,
       Hasty!tools, Map!tools
  <2> QED
    BY <2>1, MapStep DEF Map!Next
<1>3. CASE \/ Hasty!Load \/ Hasty!CloseRail \/ Hasty!Batch
           \/ \E n \in Poles : Hasty!SelectNode(n)
           \/ \E m \in {"add", "draw"} : Hasty!Enter(m)
  <2>1. UNCHANGED <<s1, s2, s3, s5>> /\ (s4' = s4 \/ s4' = Map!Sent)
    BY <1>s, <1>3 DEF Hasty!Load, Hasty!CloseRail, Hasty!Batch, Hasty!SelectNode, Hasty!Enter, Hasty!server
  <2> QED
    BY <2>1, MapReads, DrawnKeeps DEF DrawnInv, Grid
<1>4. CASE Hasty!RemoveNode
  <2>1. s1' = [s1 EXCEPT ![s6] = "none"] /\ s4' = Map!Sent /\ UNCHANGED <<s2, s3, s5>>
    BY <1>s, <1>4 DEF Hasty!RemoveNode
  <2>2. DOMAIN s1' = Poles /\ \A n \in Poles : s1'[n] \in {s1[n], "none"}
    BY <2>1 DEF DrawnInv, Grid
  <2> QED
    BY <2>1, <2>2, MapReads, DrawnKeeps DEF DrawnInv, Grid
<1>5. ASSUME NEW n \in Poles, NEW p \in Spots, Hasty!MoveNode(n, p) PROVE DrawnInv'
  <2>1. PICK m : /\ DOMAIN m = {"n", "node", "to", "at"}
                 /\ m.node = n /\ m.to = p /\ m.at = "sent"
                 /\ s5' = s5 \cup {m} /\ UNCHANGED <<s1, s2, s3, s4>>
    BY <1>5 DEF Hasty!MoveNode, Hasty!DrawnNow, Hasty!server
  <2>2. Drag(m)'
    BY <2>1 DEF Drag
  <2>3. \A r \in s5' : r \in s5 \/ Drag(r)'
    BY <2>1, <2>2
  <2>4. UNCHANGED <<s1, s2, s3, s4>>
    BY <2>1
  <2> QED
    BY <2>3, <2>4, DrawnKeeps DEF DrawnInv, Grid
<1>6. CASE UNCHANGED Hasty!vars
  <2>1. UNCHANGED Map!vars
    BY <1>6 DEF Hasty!vars, Map!vars
  <2> QED
    BY <2>1, MapStep
<1> QED
  BY <1>1, <1>2, <1>3, <1>4, <1>5, <1>6 DEF Hasty!Next

\* The rail: s6 is the node selected, s7 whose trace it shows, s8 the traces under way.
\* One who waits selects a node when no trace is out.
TraceInv == s6 # "none" => s7 \in {"none", s6} /\ \A t \in s8 : t.of = s6

LEMMA TraceStep == TraceInv /\ [Map!Next]_(Map!vars) => TraceInv'
<1> SUFFICES ASSUME TraceInv, [Map!Next]_(Map!vars) PROVE TraceInv'
  OBVIOUS
<1>1. CASE UNCHANGED <<s6, s7, s8>> \/ s6' = "none"
  BY <1>1 DEF TraceInv
<1>2. CASE \/ Map!Load \/ Map!ServeLoad \/ Map!LoadAnswered \/ Map!LoadFails \/ Map!CloseRail \/ Map!Draft
           \/ Map!CancelMode \/ Map!SaveNode \/ Map!SaveCable \/ Map!SaveAnswered \/ Map!WriteFails
  BY <1>1, <1>2 DEF Map!Load, Map!ServeLoad, Map!LoadAnswered, Map!LoadFails, Map!CloseRail, Map!Draft,
     Map!CancelMode, Map!SaveNode, Map!SaveCable, Map!SaveAnswered, Map!WriteFails, Map!rail
<1>3. CASE \/ Map!ServeMove \/ Map!MoveAnswered \/ Map!MoveFails \/ Map!RemoveNode \/ Map!Batch
           \/ Map!BatchGoesOn
           \/ \E m \in {"add", "draw"} : Map!Enter(m)
           \/ \E n \in Poles, p \in Spots : Map!MoveNode(n, p)
  BY <1>1, <1>3 DEF Map!ServeMove, Map!MoveAnswered, Map!MoveFails, Map!RemoveNode, Map!Batch,
     Map!BatchGoesOn, Map!Enter, Map!MoveNode, Map!rail
<1>4. CASE Map!TraceAnswered
  <2>1. PICK t \in s8 : s8' = s8 \ {t} /\ s7' \in {t.of, s7}
    BY <1>4 DEF Map!TraceAnswered
  <2>2. s6' = s6
    BY <1>4 DEF Map!TraceAnswered
  <2> QED
    BY <2>1, <2>2 DEF TraceInv
<1>5. ASSUME NEW n \in Poles, Map!SelectNode(n) PROVE TraceInv'
  <2>1. s8 = {} /\ s6' = n /\ s7' = "none" /\ s8' = s8 \cup {[of |-> n, n |-> s13.traces]}
    BY <1>5 DEF Map!SelectNode, Map!Selected, Map!MayAct, Map!Waiting
  <2>2. \A t \in s8' : t.of = n
    BY <2>1
  <2> QED
    BY <2>1, <2>2 DEF TraceInv
<1>6. CASE UNCHANGED Map!vars
  BY <1>1, <1>6 DEF Map!vars
<1> QED
  BY <1>2, <1>3, <1>4, <1>5, <1>6 DEF Map!Next

-----------------------------------------------------------------------------
(*                         The plant as it is seen                         *)

PlantInv ==
    /\ part = "map" => DrawnInv /\ TraceInv
    /\ part = "hasty" => DrawnInv
    /\ part = "nodes" => NodesInv
    /\ part = "ports" => SheetInv

LEMMA PlantBegin == Init => PlantInv
<1> SUFFICES ASSUME Init PROVE PlantInv
  OBVIOUS
<1>1. part = "map" => Map!Init
  BY DEF Init
<1>2. part = "hasty" => Hasty!Init
  BY DEF Init
<1>3. part = "nodes" => PinNodes!Init
  BY DEF Init
<1>4. part = "ports" => Sheet!Init
  BY DEF Init
<1>5. Map!Init => TraceInv
  BY DEF Map!Init, TraceInv
<1> QED
  BY <1>1, <1>2, <1>3, <1>4, <1>5, DrawnBegin, NodesBegin, SheetBegin DEF PlantInv

LEMMA PlantStep == PlantInv /\ [Next]_vars => PlantInv'
<1> SUFFICES ASSUME PlantInv, [Next]_vars PROVE PlantInv'
  OBVIOUS
<1>1. part' = part
  BY PartStays
<1>2. part = "map" => DrawnInv' /\ TraceInv'
  BY MapSteps, MapStep, TraceStep DEF PlantInv
<1>3. part = "hasty" => DrawnInv'
  BY HastySteps, HastyStep DEF PlantInv
<1>4. part = "nodes" => NodesInv'
  BY NodesSteps, NodesStep DEF PlantInv
<1>5. part = "ports" => SheetInv'
  BY SheetSteps, SheetStep DEF PlantInv
<1> QED
  BY <1>1, <1>2, <1>3, <1>4, <1>5 DEF PlantInv

\* Whatever the nodes, places, ports and cables and in whatever order requests are answered:
\* the map draws a node only where update_node, place_entity or an import put it, the rail's
\* trace and the port sheet are of the node selected, an edit of other fields leaves a pin,
\* a pin is where the technician stood, and a port is assigned on the node the dialog was
\* opened on and freed only as it was confirmed.
THEOREM PlantIsAsSeenHolds == Spec => []PlantIsAsSeen
<1>1. PlantInv => PlantIsAsSeen
  <2>1. DrawnInv => Map!DrawnWasAccepted /\ Hasty!DrawnWasAccepted
    BY DEF DrawnInv, Grid, Map!DrawnWasAccepted, Hasty!DrawnWasAccepted
  <2>2. TraceInv => Map!TraceOfSelected
    BY DEF TraceInv, Map!TraceOfSelected
  <2>3. NodesInv => PinNodes!PinSurvivesEdit /\ PinNodes!PinnedWhereStanding
    BY DEF NodesInv, PinNodes!PinSurvivesEdit, PinNodes!PinnedWhereStanding
  <2>4. SheetInv => Sheet!OthersStay /\ Sheet!SheetOfSelected /\ Sheet!AssignedWhereOpened
    BY DEF SheetInv, Sheet!OthersStay, Sheet!SheetOfSelected, Sheet!AssignedWhereOpened
  <2> QED
    BY <2>1, <2>2, <2>3, <2>4 DEF PlantInv, PlantIsAsSeen
<1> QED
  BY <1>1, PlantBegin, PlantStep, PTL DEF Spec

-----------------------------------------------------------------------------
(*                    The order of tasks, and passwords                    *)

\* What the CPE was given is the oldest of the rows that were open.
OlderShut == session = "busy" => \A j \in 1..(rpc - 1) : Shut(tasks[j])

LEMMA TasksOrder ==
    TasksInv /\ OlderShut /\ [Tasks!Next]_(Tasks!vars) => OlderShut' /\ Tasks!InOrder
<1> SUFFICES ASSUME TasksInv, OlderShut, [Tasks!Next]_(Tasks!vars)
             PROVE  OlderShut' /\ Tasks!InOrder
  OBVIOUS
<1>1. /\ RowsOK(tasks) /\ tasks \in Seq(Row) /\ Len(tasks) \in Nat /\ DOMAIN tasks = 1..Len(tasks)
      /\ \A i \in DOMAIN tasks : tasks[i] \in Row /\ tasks[i].ran \in Nat
  BY RowsTyped DEF TasksInv, RowsOK, Row
<1>2. ASSUME \A i \in DOMAIN tasks : i \in DOMAIN tasks' => tasks'[i].ran = tasks[i].ran
      PROVE  Tasks!InOrder
  BY <1>1, <1>2 DEF Tasks!InOrder
<1>3. session = "busy" => rpc \in DOMAIN tasks /\ \A j \in 1..(rpc - 1) : j \in DOMAIN tasks
  BY <1>1 DEF TasksInv, Handed
<1>4. ASSUME tasks' = Tasks!Queue(tasks), session' = "busy" => session = "busy" /\ rpc' = rpc
      PROVE  OlderShut' /\ Tasks!InOrder
  <2>1. \A i \in DOMAIN tasks : i \in DOMAIN tasks' /\ tasks'[i] = tasks[i]
    BY <1>1, <1>4, QueueKeeps
  <2> QED
    BY <1>2, <1>3, <1>4, <2>1 DEF OlderShut
<1>5. ASSUME tasks' = tasks, session' = "busy" => session = "busy" /\ rpc' = rpc
      PROVE  OlderShut' /\ Tasks!InOrder
  BY <1>2, <1>5 DEF OlderShut
<1>6. CASE Tasks!Approve \/ Tasks!Order
  BY <1>4, <1>6 DEF Tasks!Approve, Tasks!Order
<1>7. CASE Tasks!Disable \/ Tasks!Enroll \/ Tasks!Drop \/ UNCHANGED Tasks!vars
  BY <1>5, <1>7 DEF Tasks!Disable, Tasks!Enroll, Tasks!Drop, Tasks!vars
<1>8. CASE Tasks!Reject
  BY <1>2, <1>8 DEF Tasks!Reject, OlderShut
<1>9. ASSUME NEW i \in 1..MaxTasks, Tasks!Cancel(i) PROVE OlderShut' /\ Tasks!InOrder
  <2> DEFINE row == [tasks[i] EXCEPT !.state = "expired", !.unsent = tasks[i].state = "queued"]
  <2>1. i \in DOMAIN tasks /\ tasks' = [tasks EXCEPT ![i] = row] /\ UNCHANGED <<session, rpc>>
    BY <1>9 DEF Tasks!Cancel, Tasks!OpenTasks
  <2>2. row \in Row /\ row.ran = tasks[i].ran /\ Shut(row)
    BY <1>1, <2>1 DEF Row, Tasks!States, Shut, Tasks!Open
  <2> HIDE DEF row
  <2>3. /\ DOMAIN tasks' = DOMAIN tasks /\ tasks'[i] = row
        /\ \A j \in DOMAIN tasks : j # i => tasks'[j] = tasks[j]
    BY <1>1, <2>1, <2>2, OneRewritten
  <2>4. \A j \in DOMAIN tasks : tasks'[j].ran = tasks[j].ran /\ (Shut(tasks[j]) => Shut(tasks'[j]))
    BY <2>2, <2>3
  <2> QED
    BY <1>2, <1>3, <2>1, <2>4 DEF OlderShut
<1>13. ASSUME NEW i \in 1..MaxTasks, NEW result \in {"done", "failed"}, Tasks!TransferComplete(i, result)
       PROVE  OlderShut' /\ Tasks!InOrder
  <2> DEFINE row == [tasks[i] EXCEPT !.state = result, !.claimed = result = "done"]
  <2>1. i \in DOMAIN tasks /\ tasks' = [tasks EXCEPT ![i] = row] /\ UNCHANGED <<session, rpc>>
    BY <1>13 DEF Tasks!TransferComplete
  <2>2. row \in Row /\ row.ran = tasks[i].ran /\ Shut(row)
    BY <1>1, <2>1 DEF Row, Tasks!States, Shut, Tasks!Open
  <2> HIDE DEF row
  <2>3. /\ DOMAIN tasks' = DOMAIN tasks /\ tasks'[i] = row
        /\ \A j \in DOMAIN tasks : j # i => tasks'[j] = tasks[j]
    BY <1>1, <2>1, <2>2, OneRewritten
  <2>4. \A j \in DOMAIN tasks : tasks'[j].ran = tasks[j].ran /\ (Shut(tasks[j]) => Shut(tasks'[j]))
    BY <2>2, <2>3
  <2> QED
    BY <1>2, <1>3, <2>1, <2>4 DEF OlderShut
<1>10. CASE Tasks!Inform
  <2>1. session' = "told" /\ (tasks' = Tasks!Queue(tasks) \/ tasks' = tasks)
    BY <1>10 DEF Tasks!Inform
  <2> QED
    BY <1>4, <1>5, <2>1
<1>11. CASE Tasks!Turn
  <2>1. /\ RowsOK(tasks')
        /\ session' = "busy" => rpc' \in DOMAIN tasks' /\ tasks'[rpc'].state = "sent"
        /\ \A i \in DOMAIN tasks' : i \in DOMAIN tasks /\ tasks'[i].ran = tasks[i].ran
    BY <1>11, TurnKeeps DEF Handed
  <2> QED
    BY <1>2, <2>1 DEF OlderShut, RowsOK, OldestSent
<1>12. CASE Tasks!Run
  <2>1. session = "busy" /\ session' = "ran" /\ tasks' = [tasks EXCEPT ![rpc].ran = @ + 1]
    BY <1>12 DEF Tasks!Run
  <2>2. \A i \in DOMAIN tasks : i # rpc => tasks'[i] = tasks[i]
    BY <1>1, <2>1
  <2>3. \A j \in 1..(rpc - 1) : tasks[j].state \notin Tasks!Open
    BY <2>1 DEF OlderShut, Shut
  <2>4. \A i \in DOMAIN tasks : tasks'[i].ran > tasks[i].ran => i = rpc
    BY <1>1, <2>2
  <2> QED
    BY <2>1, <2>3, <2>4 DEF OlderShut, Tasks!InOrder
<1> QED
  BY <1>6, <1>7, <1>8, <1>9, <1>10, <1>11, <1>12, <1>13 DEF Tasks!Next

retyped == s10
USE DEF retyped

\* A password is in the form, or in the order that is out, only since one was typed.
PassTyped ==
    /\ retyped \in BOOLEAN
    /\ dev # {} => (form.pass => retyped)
    /\ req.op = "order" => (req.task.pass => retyped)

LEMMA PassBegin == Unit!Init \/ UnitLossy!Init => UnitInv /\ PassTyped
<1>1. Unit!Init \/ UnitLossy!Init => Unit!Init
  BY DEF Unit!Init, UnitLossy!Init, Unit!Request, UnitLossy!Request, Unit!NoTask, UnitLossy!NoTask
<1>2. Unit!Init => PassTyped
  BY RequestsTyped DEF Unit!Init, PassTyped
<1> QED
  BY <1>1, <1>2, UnitBegin

LEMMA PassStep ==
    UnitInv /\ PassTyped /\ [Unit!Next]_(Unit!vars) => PassTyped' /\ Unit!PasswordGoesOnce
<1> SUFFICES ASSUME UnitInv, PassTyped, [Unit!Next]_(Unit!vars)
             PROVE  PassTyped' /\ Unit!PasswordGoesOnce
  OBVIOUS
<1>t. /\ queue \in Seq(Unit!Task) /\ req \in Requests /\ form \in [ssid : Ssids \cup {"none"}, pass : BOOLEAN]
      /\ req.task \in Unit!Task
  BY DEF UnitInv, UnitTyped, Requests
<1>n. Unit!NoTask.pass = FALSE
  BY DEF Unit!NoTask
<1>i. Unit!Idle.op = "none"
  BY DEF Unit!Idle
<1>r. \A op, task, id : LET r == Unit!Request(op, task, id) IN r.op = op /\ r.task = task
  BY DEF Unit!Request
<1>1. ASSUME DOMAIN queue' = DOMAIN queue PROVE Unit!PasswordGoesOnce
  BY <1>1 DEF Unit!PasswordGoesOnce
\* The page goes on as it was, or asks for what has no password.
<1>2. ASSUME UNCHANGED <<queue, retyped>>, dev' = {} \/ UNCHANGED <<dev, form>>,
             req' = req \/ req'.op # "order" \/ req'.task.pass = FALSE
      PROVE  PassTyped' /\ Unit!PasswordGoesOnce
  BY <1>1, <1>2 DEF PassTyped
<1>3. CASE Unit!TypeName
  <2>1. form'.pass = form.pass /\ UNCHANGED <<queue, dev, req, retyped>>
    BY <1>3, <1>t DEF Unit!TypeName, Unit!server
  <2> QED
    BY <1>1, <2>1 DEF PassTyped
<1>4. CASE Unit!TypePassword
  BY <1>1, <1>4 DEF Unit!TypePassword, Unit!server, PassTyped
<1>5. CASE Unit!SaveWifi
  <2>1. dev # {} /\ UNCHANGED <<queue, dev, form, retyped>>
    BY <1>5 DEF Unit!SaveWifi, Unit!Ready, Unit!server, Unit!page
  <2>2. req' = req \/ req'.task.pass = form.pass
    BY <1>5, <1>r DEF Unit!SaveWifi, Unit!Send, Unit!WifiTask
  <2> QED
    BY <1>1, <2>1, <2>2 DEF PassTyped
<1>6. CASE Unit!Refresh
  <2> DEFINE task == [Unit!NoTask EXCEPT !.kind = "read", !.open = TRUE]
  <2>1. task.pass = FALSE
    BY DEF Unit!NoTask
  <2>2. req' = Unit!Request("order", task, 0)
    BY <1>6 DEF Unit!Refresh, Unit!Send
  <2> HIDE DEF task
  <2>3. req'.task.pass = FALSE
    BY <1>r, <2>1, <2>2
  <2> QED
    BY <1>2, <1>6, <2>3 DEF Unit!Refresh, Unit!server, Unit!page
<1>7. CASE Unit!Ask
  BY <1>2, <1>7 DEF Unit!Ask, Unit!server
<1>8. CASE Unit!AnswerDialog
  <2> DEFINE task == [Unit!NoTask EXCEPT !.kind = dialog, !.open = TRUE]
  <2>1. task.pass = FALSE
    BY DEF Unit!NoTask
  <2>2. req' = req \/ req' = Unit!Request("order", task, 0)
    BY <1>8 DEF Unit!AnswerDialog, Unit!Send
  <2> HIDE DEF task
  <2>3. req' = req \/ req'.task.pass = FALSE
    BY <1>r, <2>1, <2>2
  <2> QED
    BY <1>2, <1>8, <2>3 DEF Unit!AnswerDialog, Unit!server
<1>9. CASE Unit!CancelTask
  <2>1. req'.op = "cancel"
    BY <1>9, <1>r DEF Unit!CancelTask, Unit!Send
  <2> QED
    BY <1>2, <1>9, <2>1 DEF Unit!CancelTask, Unit!server, Unit!page
<1>10. CASE Unit!Serve
  <2>1. req'.op = req.op /\ req'.task = req.task /\ UNCHANGED <<dev, form, retyped>>
    BY <1>10, <1>t DEF Unit!Serve, Unit!page, Requests
  <2>2. PassTyped'
    BY <2>1 DEF PassTyped
  <2>3. CASE req.op = "order"
    <3>1. queue' = Append(queue, req.task)
      BY <1>10, <2>3 DEF Unit!Serve
    <3>2. \A i \in DOMAIN queue' \ DOMAIN queue : queue'[i] = req.task
      BY <1>t, <3>1
    <3> QED
      BY <2>2, <2>3, <3>2 DEF Unit!PasswordGoesOnce, PassTyped
  <2>4. CASE req.op # "order"
    <3>1. queue' = queue \/ queue' = [queue EXCEPT ![req.id].open = FALSE]
      BY <1>10, <2>4 DEF Unit!Serve
    <3>2. DOMAIN queue' = DOMAIN queue
      BY <1>t, <3>1
    <3> QED
      BY <1>1, <2>2, <3>2
  <2> QED
    BY <2>3, <2>4
<1>11. CASE Unit!Deliver
  <2> DEFINE i == CHOOSE j \in Unit!OpenIds(queue) : \A k \in Unit!OpenIds(queue) : j <= k
  <2>1. queue' = [queue EXCEPT ![i].open = FALSE] /\ UNCHANGED <<dev, form, req, retyped>>
    BY <1>11 DEF Unit!Deliver, Unit!page
  <2> HIDE DEF i
  <2>2. DOMAIN queue' = DOMAIN queue
    BY <1>t, <2>1
  <2> QED
    BY <1>1, <2>1, <2>2 DEF PassTyped
<1>12. CASE Unit!Other
  BY <1>2, <1>12 DEF Unit!Other, Unit!page
<1>13. CASE Unit!Answered
  <2>1. UNCHANGED queue
    BY <1>13 DEF Unit!Answered, Unit!server
  <2>2. CASE req.op = "order"
    <3>1. req'.op = "load" /\ dev' = {} /\ retyped' = FALSE
      BY <1>13, <1>r, <2>2 DEF Unit!Answered, Unit!StartLoad
    <3> QED
      BY <1>1, <2>1, <3>1 DEF PassTyped
  <2>3. CASE req.op = "cancel"
    <3>1. req' = Unit!Idle /\ UNCHANGED <<dev, form, retyped>>
      BY <1>13, <2>3 DEF Unit!Answered
    <3> QED
      BY <1>2, <1>i, <2>1, <3>1
  <2>4. CASE req.op \notin {"order", "cancel"}
    <3>1. req' = Unit!Idle /\ form' = [ssid |-> known, pass |-> FALSE] /\ UNCHANGED retyped
      BY <1>13, <2>4 DEF Unit!Answered
    <3> QED
      BY <1>1, <1>i, <2>1, <3>1 DEF PassTyped
  <2> QED
    BY <2>2, <2>3, <2>4
<1>14. CASE Unit!Fails
  BY <1>2, <1>14, <1>i DEF Unit!Fails, Unit!server, Unit!page
<1>15. CASE Unit!Reopen
  BY <1>2, <1>15, <1>r DEF Unit!Reopen, Unit!StartLoad, Unit!server
<1>16. CASE UNCHANGED Unit!vars
  BY <1>2, <1>16 DEF Unit!vars
<1> QED
  BY <1>3, <1>4, <1>5, <1>6, <1>7, <1>8, <1>9, <1>10, <1>11, <1>12, <1>13, <1>14, <1>15, <1>16
  DEF Unit!Next

\* Answers that are lost only make more requests fail.
LEMMA LossySame == UnitLossy!Next => Unit!Next \/ UnitLossy!Fails
<1>1. UnitLossy!Ready = Unit!Ready /\ UnitLossy!ShownActive = Unit!ShownActive
  BY DEF UnitLossy!Ready, Unit!Ready, UnitLossy!ShownActive, Unit!ShownActive
<1>2. UnitLossy!WifiTask = Unit!WifiTask /\ UnitLossy!NoTask = Unit!NoTask /\ UnitLossy!Idle = Unit!Idle
  BY DEF UnitLossy!WifiTask, Unit!WifiTask, UnitLossy!NoTask, Unit!NoTask, UnitLossy!Idle, Unit!Idle
<1>3. \A op, task, id : UnitLossy!Request(op, task, id) = Unit!Request(op, task, id)
  BY DEF UnitLossy!Request, Unit!Request
<1>4. \A q : UnitLossy!OpenIds(q) = Unit!OpenIds(q)
  BY DEF UnitLossy!OpenIds, Unit!OpenIds
<1>5. UnitLossy!Accepted = Unit!Accepted
  BY DEF UnitLossy!Accepted, Unit!Accepted
<1>6. UnitLossy!TypeName => Unit!TypeName
  BY <1>1 DEF UnitLossy!TypeName, Unit!TypeName, UnitLossy!server, Unit!server
<1>7. UnitLossy!TypePassword => Unit!TypePassword
  BY <1>1 DEF UnitLossy!TypePassword, Unit!TypePassword, UnitLossy!server, Unit!server
<1>8. UnitLossy!SaveWifi => Unit!SaveWifi
  BY <1>1, <1>2, <1>3 DEF UnitLossy!SaveWifi, Unit!SaveWifi, UnitLossy!Send, Unit!Send,
     UnitLossy!server, Unit!server, UnitLossy!page, Unit!page
<1>9. UnitLossy!Refresh => Unit!Refresh
  BY <1>1, <1>2, <1>3 DEF UnitLossy!Refresh, Unit!Refresh, UnitLossy!Send, Unit!Send,
     UnitLossy!server, Unit!server, UnitLossy!page, Unit!page
<1>10. UnitLossy!Ask => Unit!Ask
  BY <1>1 DEF UnitLossy!Ask, Unit!Ask, UnitLossy!server, Unit!server
<1>11. UnitLossy!AnswerDialog => Unit!AnswerDialog
  BY <1>2, <1>3 DEF UnitLossy!AnswerDialog, Unit!AnswerDialog, UnitLossy!Send, Unit!Send,
     UnitLossy!server, Unit!server
<1>12. UnitLossy!CancelTask => Unit!CancelTask
  BY <1>1, <1>2, <1>3 DEF UnitLossy!CancelTask, Unit!CancelTask, UnitLossy!Send, Unit!Send,
     UnitLossy!server, Unit!server, UnitLossy!page, Unit!page
<1>13. UnitLossy!Serve => Unit!Serve
  BY <1>5 DEF UnitLossy!Serve, Unit!Serve, UnitLossy!page, Unit!page
<1>14. UnitLossy!Deliver => Unit!Deliver
  BY DEF UnitLossy!Deliver, Unit!Deliver, UnitLossy!OpenIds, Unit!OpenIds, UnitLossy!page, Unit!page
<1>15. UnitLossy!Other => Unit!Other
  BY DEF UnitLossy!Other, Unit!Other, UnitLossy!page, Unit!page
<1>16. UnitLossy!Answered => Unit!Answered
  BY <1>2, <1>3, <1>4 DEF UnitLossy!Answered, Unit!Answered, UnitLossy!StartLoad, Unit!StartLoad,
     UnitLossy!server, Unit!server
<1>17. UnitLossy!Reopen => Unit!Reopen
  BY <1>2, <1>3 DEF UnitLossy!Reopen, Unit!Reopen, UnitLossy!StartLoad, Unit!StartLoad,
     UnitLossy!server, Unit!server
<1> QED
  BY <1>6, <1>7, <1>8, <1>9, <1>10, <1>11, <1>12, <1>13, <1>14, <1>15, <1>16, <1>17
  DEF UnitLossy!Next, Unit!Next

LEMMA LossyStep ==
    UnitInv /\ PassTyped /\ part = "unitLossy" /\ part' = part /\ [UnitLossy!Next]_(UnitLossy!vars)
        => UnitInv' /\ PassTyped' /\ UnitLossy!PasswordGoesOnce
<1> SUFFICES ASSUME UnitInv, PassTyped, part = "unitLossy", part' = part,
                    [UnitLossy!Next]_(UnitLossy!vars)
             PROVE  UnitInv' /\ PassTyped' /\ UnitLossy!PasswordGoesOnce
  OBVIOUS
<1>1. Unit!PasswordGoesOnce = UnitLossy!PasswordGoesOnce
  BY DEF Unit!PasswordGoesOnce, UnitLossy!PasswordGoesOnce
<1>2. CASE [Unit!Next]_(Unit!vars)
  BY <1>1, <1>2, UnitStep, PassStep
<1>3. CASE UnitLossy!Fails
  <2>1. req' = Unit!Idle /\ UNCHANGED <<queue, air, known, dev, shown, form, dialog, retyped>>
    BY <1>3 DEF UnitLossy!Fails, UnitLossy!Idle, Unit!Idle, UnitLossy!NoTask, Unit!NoTask,
       UnitLossy!server, UnitLossy!page
  <2> QED
    BY <2>1, RequestsTyped DEF UnitInv, UnitTyped, PassTyped, UnitLossy!PasswordGoesOnce
<1> QED
  BY <1>2, <1>3, LossySame DEF UnitLossy!vars, Unit!vars

-----------------------------------------------------------------------------
(*                       The import of a router                            *)

\* The variables of the part, by their names in ImportPlan.
request == s5
plans == s7
bought == s8
ends == s9
agreed == s11
USE DEF request, plans, bought, ends, agreed

\* Nobody is imported before the one request that commits is served, nor after a run is
\* reverted, and who is imported past the date was so because the operator insisted.
RunInv ==
    /\ DOMAIN plans = Tariffs \cup {Existing} /\ DOMAIN bought = Found
    /\ request.kind = "commit" => s10 # "completed"
    /\ s10 # "completed" => \A c \in Found : bought[c] = "none"
    /\ \A c \in Found : bought[c] # "none" /\ ends[c] = "past" => agreed.force

LEMMA RunBegin == Plan!Init \/ PlanBack!Init => RunInv
BY DEF Plan!Init, PlanBack!Init, Plan!Idle, PlanBack!Idle, RunInv

\* The page asks and shows: what the server has stays.
LEMMA RunStays ==
    ASSUME RunInv, UNCHANGED <<plans, bought, ends, s10, agreed>>,
           request'.kind = "commit" => s10 # "completed"
    PROVE  RunInv'
BY DEF RunInv

LEMMA RunCommitted ==
    ASSUME RunInv, PlanBack!Commit
    PROVE  RunInv' /\ PlanBack!PackagesKeepPrice
<1>1. /\ s10 # "completed" /\ request.kind = "commit" /\ agreed' = request /\ s10' = "completed"
      /\ plans' = PlanBack!Created(request.sent.drafts) /\ request' = PlanBack!Idle
      /\ bought' = [c \in Found |-> IF c \in PlanBack!Importable
                                    THEN PlanBack!Package(c, request.sent.drafts) ELSE bought[c]]
      /\ ends' = [c \in Found |-> IF c \in PlanBack!Importable
                                  THEN PlanBack!End(c, request.sent.anchor) ELSE ends[c]]
  BY DEF RunInv, PlanBack!Commit
<1>2. /\ DOMAIN plans' = Tariffs \cup {Existing}
      /\ \A p \in DOMAIN plans : plans[p] # PlanBack!None => plans'[p] = plans[p]
  BY <1>1 DEF RunInv, PlanBack!Created
<1>3. ASSUME NEW c \in Found, bought'[c] # "none", ends'[c] = "past" PROVE agreed'.force
  <2>1. c \in PlanBack!Importable
    BY <1>1, <1>3 DEF RunInv
  <2>2. c \in PlanBack!PastDated(PlanBack!Importable, request.sent.anchor)
    BY <1>1, <1>3, <2>1 DEF PlanBack!PastDated
  <2>3. ~PlanBack!Guarded(request)
    BY DEF PlanBack!Commit
  <2>4. request.force
    BY <2>2, <2>3 DEF PlanBack!Guarded
  <2> QED
    BY <1>1, <2>4
<1>4. request'.kind # "commit"
  BY <1>1 DEF PlanBack!Idle
<1> QED
  BY <1>1, <1>2, <1>3, <1>4 DEF RunInv, PlanBack!PackagesKeepPrice

LEMMA BackStep ==
    RunInv /\ [PlanBack!Next]_(PlanBack!vars) => RunInv' /\ PlanBack!PackagesKeepPrice
<1> SUFFICES ASSUME RunInv, [PlanBack!Next]_(PlanBack!vars)
             PROVE  RunInv' /\ PlanBack!PackagesKeepPrice
  OBVIOUS
<1>i. PlanBack!Idle.kind = "idle"
  BY DEF PlanBack!Idle
<1>1. ASSUME UNCHANGED <<plans, bought, ends, s10, agreed>>,
             request' = request \/ (request'.kind = "commit" => s10 # "completed")
      PROVE  RunInv' /\ PlanBack!PackagesKeepPrice
  BY <1>1, RunStays DEF RunInv, PlanBack!PackagesKeepPrice
<1>2. CASE \/ \E p \in Tariffs, n \in PlanBack!Prices : PlanBack!SetPrice(p, n)
           \/ \E p \in Tariffs, d \in {"create", "skip", "map"} : PlanBack!Decide(p, d)
           \/ \E a \in PlanBack!Anchors : PlanBack!ChooseAnchor(a)
           \/ PlanBack!Reopen \/ UNCHANGED PlanBack!vars
  <2>1. UNCHANGED <<plans, bought, ends, s10, agreed, request>>
    BY <1>2 DEF PlanBack!SetPrice, PlanBack!Decide, PlanBack!ChooseAnchor, PlanBack!Reopen,
       PlanBack!server, PlanBack!vars
  <2> QED
    BY <1>1, <2>1
<1>3. CASE PlanBack!AskPreview \/ PlanBack!AskRevert \/ \E force \in BOOLEAN : PlanBack!AskCommit(force)
  <2>1. /\ UNCHANGED <<plans, bought, ends, s10, agreed>>
        /\ request'.kind = "commit" => s10 # "completed"
    BY <1>3 DEF PlanBack!AskPreview, PlanBack!AskRevert, PlanBack!AskCommit, PlanBack!Ask,
       PlanBack!server
  <2> QED
    BY <1>1, <2>1
<1>4. CASE PlanBack!StorePlan \/ PlanBack!Fails \/ PlanBack!CommitRefused
  <2>1. UNCHANGED <<plans, bought, ends, s10, agreed>> /\ request' = PlanBack!Idle
    BY <1>4 DEF PlanBack!StorePlan, PlanBack!Fails, PlanBack!CommitRefused, PlanBack!server
  <2> QED
    BY <1>1, <1>i, <2>1
<1>5. CASE PlanBack!Commit
  BY <1>5, RunCommitted
<1>6. CASE PlanBack!DoRevert
  <2>1. /\ bought' = [c \in Found |-> "none"] /\ s10' = "reverted" /\ request' = PlanBack!Idle
        /\ UNCHANGED plans
    BY <1>6 DEF PlanBack!DoRevert
  <2> QED
    BY <1>i, <2>1 DEF RunInv, PlanBack!PackagesKeepPrice
<1> QED
  BY <1>2, <1>3, <1>4, <1>5, <1>6 DEF PlanBack!Next

\* A run that cannot be reverted finds no package of its profiles.
PriceInv ==
    /\ s12 \in Nat /\ request.kind # "revert"
    /\ s10 # "completed" => \A p \in Tariffs : plans[p] = Plan!None
    /\ Plan!PriceIsAsSet

LEMMA PriceBegin == Plan!Init => PriceInv
<1> SUFFICES ASSUME Plan!Init PROVE PriceInv
  OBVIOUS
<1>1. Existing \notin Tariffs
  BY NetworkAssumption DEF NetworkAssumption, Plan!PlanAssumption
<1>2. Plan!Imported = {}
  BY DEF Plan!Init, Plan!Imported
<1> QED
  BY <1>1, <1>2 DEF Plan!Init, Plan!Idle, PriceInv, Plan!PriceIsAsSet

LEMMA PlanStep ==
    RunInv /\ PriceInv /\ [Plan!Next]_(Plan!vars) => RunInv' /\ PriceInv'
<1> SUFFICES ASSUME RunInv, PriceInv, [Plan!Next]_(Plan!vars) PROVE RunInv' /\ PriceInv'
  OBVIOUS
<1>i. Plan!Idle.kind = "idle"
  BY DEF Plan!Idle
<1>1. ASSUME UNCHANGED <<plans, bought, ends, s10, agreed, s12>>,
             \/ request' = request
             \/ request'.kind # "revert" /\ (request'.kind = "commit" => s10 # "completed")
      PROVE  RunInv' /\ PriceInv'
  <2>1. request'.kind # "revert" /\ (request'.kind = "commit" => s10 # "completed")
    BY <1>1 DEF RunInv, PriceInv
  <2>2. Plan!PriceIsAsSet'
    BY <1>1 DEF PriceInv, Plan!PriceIsAsSet, Plan!Imported
  <2> QED
    BY <1>1, <2>1, <2>2, RunStays DEF PriceInv
<1>2. CASE \/ \E p \in Tariffs, n \in Plan!Prices : Plan!SetPrice(p, n)
           \/ \E p \in Tariffs, d \in {"create", "skip", "map"} : Plan!Decide(p, d)
           \/ \E a \in Plan!Anchors : Plan!ChooseAnchor(a)
           \/ Plan!Reopen \/ UNCHANGED Plan!vars
  <2>1. UNCHANGED <<plans, bought, ends, s10, agreed, s12, request>>
    BY <1>2 DEF Plan!SetPrice, Plan!Decide, Plan!ChooseAnchor, Plan!Reopen, Plan!server, Plan!vars
  <2> QED
    BY <1>1, <2>1
<1>3. CASE Plan!AskPreview \/ \E force \in BOOLEAN : Plan!AskCommit(force)
  <2>1. /\ UNCHANGED <<plans, bought, ends, s10, agreed, s12>>
        /\ request'.kind # "revert" /\ (request'.kind = "commit" => s10 # "completed")
    BY <1>3 DEF Plan!AskPreview, Plan!AskCommit, Plan!Ask, Plan!server
  <2> QED
    BY <1>1, <2>1
<1>4. CASE Plan!AskRevert
  BY <1>4 DEF Plan!AskRevert, PriceInv
<1>5. CASE Plan!StorePlan \/ Plan!Fails \/ Plan!CommitRefused
  <2>1. UNCHANGED <<plans, bought, ends, s10, agreed, s12>> /\ request' = Plan!Idle
    BY <1>5 DEF Plan!StorePlan, Plan!Fails, Plan!CommitRefused, Plan!server
  <2> QED
    BY <1>1, <1>i, <2>1
<1>6. CASE Plan!Commit
  <2>1. PlanBack!Commit
    BY <1>6 DEF Plan!Commit, PlanBack!Commit, Plan!Guarded, PlanBack!Guarded, Plan!PastDated,
       PlanBack!PastDated, Plan!End, PlanBack!End, Plan!Importable, PlanBack!Importable,
       Plan!Created, PlanBack!Created, Plan!None, PlanBack!None, Plan!Package, PlanBack!Package,
       Plan!Derived, PlanBack!Derived, Plan!Idle, PlanBack!Idle
  <2> DEFINE d == request.sent.drafts
  <2>2. /\ s10 # "completed" /\ agreed' = request /\ s10' = "completed" /\ request' = Plan!Idle
        /\ plans' = Plan!Created(d) /\ UNCHANGED s12
        /\ bought' = [c \in Found |-> IF c \in Plan!Importable THEN Plan!Package(c, d) ELSE bought[c]]
    BY <1>6 DEF RunInv, Plan!Commit
  <2>3. \A p \in Tariffs : d[p].decision = "create" => plans'[p] = d[p].price
    BY <2>2 DEF PriceInv, Plan!Created
  <2>4. \A c \in Found : TariffOf[c] \in Tariffs
    BY NetworkAssumption DEF NetworkAssumption, Plan!PlanAssumption
  <2>5. \A c \in Found : bought'[c] # "none" => bought'[c] = Plan!Package(c, d)
    BY <2>2 DEF RunInv
  <2>6. Plan!PriceIsAsSet'
    <3> SUFFICES ASSUME NEW c \in Found, bought'[c] # "none"
                 PROVE  CASE d[TariffOf[c]].decision = "create" ->
                               /\ bought'[c] = TariffOf[c]
                               /\ plans'[bought'[c]] = d[TariffOf[c]].price
                          [] d[TariffOf[c]].decision = "map" -> bought'[c] = Existing
                          [] OTHER -> TRUE
      BY <2>2 DEF Plan!PriceIsAsSet, Plan!Imported
    <3> HIDE DEF d
    <3> QED
      BY <2>3, <2>4, <2>5 DEF Plan!Package
  <2> QED
    BY <1>i, <2>1, <2>2, <2>6, RunCommitted DEF PriceInv
<1>7. CASE Plan!DoRevert
  BY <1>7 DEF Plan!DoRevert, PriceInv
<1> QED
  BY <1>2, <1>3, <1>4, <1>5, <1>6, <1>7 DEF Plan!Next

-----------------------------------------------------------------------------
(*                        The import of a file                             *)

\* The variables of the part, by their names in FileImport.
csv == s2
readers == s3
choice == s4
preview == s5
result == s6
busy == s7
job == s8
clients == s9
USE DEF csv, readers, choice, preview, result, busy, job, clients

JobFields == {"at", "of", "choice", "dry", "left", "flushed", "made", "raised", "package"}

\* What runs is of the text and the choice that the page still holds, a dry run holds no
\* rows back, an import those of people who are no clients, and what is shown is of the
\* text, after an import too.
FileInv ==
    /\ clients \in [File!Logins -> {0, 1}]
    /\ busy \in BOOLEAN /\ (busy <=> job # File!NoJob)
    /\ busy => /\ DOMAIN job = JobFields /\ job.dry \in BOOLEAN
               /\ job.of = csv /\ job.choice = choice /\ readers = {}
               /\ job.dry => job.flushed = {} /\ result = File!NoSummary
               /\ ~job.dry => preview # File!NoSummary
               /\ \A l \in job.flushed \cap File!Logins : clients[l] = 0
    /\ readers # {} => preview = File!NoSummary /\ result = File!NoSummary
    /\ preview # File!NoSummary => preview.of = csv /\ preview.choice = choice
    /\ result # File!NoSummary =>
           result.of = csv /\ result.choice = choice /\ preview # File!NoSummary

LEMMA FileBegin == File!Init => FileInv
BY DEF File!Init, FileInv

LEMMA FileStep ==
    FileInv /\ [File!Next]_(File!vars) => FileInv' /\ File!DryRunsWriteNothing
<1> SUFFICES ASSUME FileInv, [File!Next]_(File!vars)
             PROVE  FileInv' /\ File!DryRunsWriteNothing
  OBVIOUS
<1>n. File!NoJob.at = "none"
  BY DEF File!NoJob
<1>1. ASSUME UNCHANGED File!store PROVE File!DryRunsWriteNothing
  BY <1>1 DEF File!DryRunsWriteNothing
<1>2. ASSUME NEW f \in Papers, File!Pick(f) PROVE FileInv' /\ UNCHANGED File!store
  BY <1>2 DEF File!Pick, File!store, FileInv
<1>3. ASSUME NEW f \in Papers, File!Read(f) \/ File!ReadFails(f) PROVE FileInv' /\ UNCHANGED File!store
  BY <1>3 DEF File!Read, File!ReadFails, File!store, FileInv
<1>4. ASSUME NEW c, File!Choose(c) PROVE FileInv' /\ UNCHANGED File!store
  BY <1>4 DEF File!Choose, File!Resolutions, File!store, FileInv
<1>5. ASSUME NEW dry \in BOOLEAN, File!Ask(dry)
      PROVE  /\ DOMAIN job' = JobFields /\ job'.dry = dry /\ job'.of = csv /\ job'.choice = choice
             /\ job'.flushed = {} /\ job'.at = "asked" /\ busy' = TRUE /\ readers = {} /\ ~busy
  BY <1>5 DEF File!Ask, JobFields, FileInv
<1>6. CASE File!RunPreview
  <2>1. /\ UNCHANGED <<csv, readers, choice, preview, clients>> /\ result' = File!NoSummary
        /\ UNCHANGED File!store
    BY <1>6 DEF File!RunPreview, File!store
  <2>2. File!Ask(TRUE)
    BY <1>6 DEF File!RunPreview
  <2>3. /\ DOMAIN job' = JobFields /\ job'.dry = TRUE /\ job'.of = csv /\ job'.choice = choice
        /\ job'.flushed = {} /\ job' # File!NoJob /\ busy' = TRUE /\ readers = {}
    BY <1>n, <1>5, <2>2
  <2>4. FileInv'
    BY <2>1, <2>3 DEF FileInv
  <2> QED
    BY <1>1, <2>1, <2>4
<1>7. CASE File!RunCommit
  <2>1. /\ UNCHANGED <<csv, readers, choice, preview, result, clients>> /\ preview # File!NoSummary
        /\ UNCHANGED File!store
    BY <1>7 DEF File!RunCommit, File!store
  <2>2. File!Ask(FALSE)
    BY <1>7 DEF File!RunCommit
  <2>3. /\ DOMAIN job' = JobFields /\ job'.dry = FALSE /\ job'.of = csv /\ job'.choice = choice
        /\ job'.flushed = {} /\ job' # File!NoJob /\ busy' = TRUE /\ readers = {}
    BY <1>n, <1>5, <2>2
  <2>4. FileInv'
    BY <2>1, <2>3 DEF FileInv
  <2> QED
    BY <1>1, <2>1, <2>4
\* The server works on: only the rows of the job change.
<1>8. ASSUME UNCHANGED <<csv, readers, choice, preview, result, busy, clients>>, job.at # "none",
             job'.at # "none", DOMAIN job' = JobFields, job'.dry = job.dry, job'.of = job.of,
             job'.choice = job.choice,
             \A l \in job'.flushed : l \in job.flushed \/ (~job.dry /\ clients[l] = 0)
      PROVE  FileInv'
  BY <1>n, <1>8 DEF FileInv
<1>9. CASE File!Start
  <2>1. /\ UNCHANGED <<csv, readers, choice, preview, result, busy, clients>> /\ UNCHANGED File!store
        /\ job.at = "asked"
    BY <1>9 DEF File!Start, File!page, File!store
  <2>2. DOMAIN job = JobFields
    BY <1>n, <2>1 DEF FileInv
  <2>3. /\ job'.at = "rows" /\ DOMAIN job' = JobFields /\ job'.dry = job.dry /\ job'.of = job.of
        /\ job'.choice = job.choice /\ job'.flushed = job.flushed
    BY <1>9, <2>2 DEF File!Start, JobFields
  <2> QED
    BY <1>1, <1>8, <2>1, <2>3
<1>10. ASSUME NEW l \in File!Logins, File!InvalidRow(l) \/ File!ValidRow(l) \/ File!FailedRow(l)
       PROVE  FileInv' /\ File!DryRunsWriteNothing
  <2>1. /\ UNCHANGED <<csv, readers, choice, preview, result, busy, clients>> /\ UNCHANGED File!store
        /\ job.at = "rows"
    BY <1>10 DEF File!InvalidRow, File!ValidRow, File!FailedRow, File!page, File!store
  <2>2. DOMAIN job = JobFields
    BY <1>n, <2>1 DEF FileInv
  <2>3. /\ job'.at = "rows" /\ DOMAIN job' = JobFields /\ job'.dry = job.dry /\ job'.of = job.of
        /\ job'.choice = job.choice
    BY <1>10, <2>1, <2>2 DEF File!InvalidRow, File!ValidRow, File!FailedRow, JobFields
  <2>4. \A k \in job'.flushed : k \in job.flushed \/ (~job.dry /\ clients[k] = 0)
    <3>1. CASE File!InvalidRow(l)
      BY <2>2, <3>1 DEF File!InvalidRow, JobFields
    <3>2. CASE File!FailedRow(l)
      BY <2>2, <3>2 DEF File!FailedRow, JobFields
    <3>3. CASE File!ValidRow(l)
      <4>1. job'.flushed = IF job.dry THEN job.flushed ELSE job.flushed \cup {l}
        BY <2>2, <3>3 DEF File!ValidRow, JobFields
      <4>2. clients[l] = 0
        BY <3>3 DEF File!ValidRow, File!Taken, FileInv
      <4> QED
        BY <4>1, <4>2
    <3> QED
      BY <1>10, <3>1, <3>2, <3>3
  <2> QED
    BY <1>1, <1>8, <2>1, <2>3, <2>4
<1>11. CASE File!Finish
  <2>1. /\ busy /\ DOMAIN job = JobFields /\ job.dry \in BOOLEAN /\ job.of = csv /\ job.choice = choice
        /\ job # File!NoJob
    BY <1>n, <1>11 DEF File!Finish, FileInv
  <2>2. /\ UNCHANGED <<csv, readers, choice>> /\ busy' = FALSE /\ job' = File!NoJob
        /\ preview' = (IF job.dry THEN File!Summary ELSE preview)
        /\ result' = (IF job.dry THEN result ELSE File!Summary)
        /\ clients' = [l \in File!Logins |-> clients[l] + (IF l \in job.flushed THEN 1 ELSE 0)]
    BY <1>11 DEF File!Finish, File!Written
  <2>3. File!Summary.of = csv /\ File!Summary.choice = choice
    BY <2>1 DEF File!Summary
  <2>4. clients' \in [File!Logins -> {0, 1}]
    <3>1. \A l \in File!Logins : clients'[l] \in {0, 1}
      BY <2>1, <2>2 DEF FileInv
    <3> QED
      BY <2>2, <3>1
  <2>5. FileInv'
    BY <2>1, <2>2, <2>3, <2>4 DEF FileInv
  <2>6. ASSUME job.dry PROVE UNCHANGED File!store
    <3>1. job.flushed = {}
      BY <2>1, <2>6 DEF FileInv
    <3>2. clients' = clients
      <4>1. \A l \in File!Logins : clients[l] + 0 = clients[l]
        BY DEF FileInv
      <4>2. clients' = [l \in File!Logins |-> clients[l]]
        BY <2>2, <3>1, <4>1
      <4> QED
        BY <4>2 DEF FileInv
    <3>3. UNCHANGED <<s10, s11>>
      BY <1>11, <2>6, <3>1 DEF File!Finish, File!Written
    <3> QED
      BY <3>2, <3>3 DEF File!store
  <2> QED
    BY <2>5, <2>6 DEF File!DryRunsWriteNothing
<1>12. CASE File!Fails
  BY <1>1, <1>12 DEF File!Fails, File!store, FileInv
<1>13. ASSUME NEW l \in File!Logins, File!Entered(l) PROVE FileInv' /\ File!DryRunsWriteNothing
  BY <1>13 DEF File!Entered, File!page, File!DryRunsWriteNothing, FileInv
<1>14. CASE UNCHANGED File!vars
  BY <1>1, <1>14 DEF File!vars, File!store, FileInv
<1> QED
  BY <1>1, <1>2, <1>3, <1>4, <1>6, <1>7, <1>9, <1>10, <1>11, <1>12, <1>13, <1>14 DEF File!Next

\* When no creation raises, an import holds back just the rows it will report, as their
\* package is there before the first of them.
GoodInv ==
    /\ clients \in [GoodFile!Logins -> Nat]
    /\ job # GoodFile!NoJob =>
           /\ DOMAIN job = JobFields /\ job.dry \in BOOLEAN
           /\ job.left \subseteq PeopleOf[job.of]
           /\ ~job.dry => job.flushed = job.made /\ job.made \subseteq GoodFile!Logins
           /\ job.at # "asked" /\ ~job.dry /\ job.choice = "create"
                  /\ PeopleOf[job.of] \cap Strangers # {} => job.package
    /\ result # GoodFile!NoSummary =>
           result.made \subseteq GoodFile!Logins /\ \A l \in result.made : clients[l] > 0

LEMMA GoodBegin == GoodFile!Init => GoodInv
BY DEF GoodFile!Init, GoodInv

LEMMA GoodStep == GoodInv /\ [GoodFile!Next]_(GoodFile!vars) => GoodInv'
<1> SUFFICES ASSUME GoodInv, [GoodFile!Next]_(GoodFile!vars) PROVE GoodInv'
  OBVIOUS
<1>n. GoodFile!NoJob.at = "none"
  BY DEF GoodFile!NoJob
<1>1. CASE \/ \E f \in Papers : GoodFile!Pick(f) \/ GoodFile!Read(f) \/ GoodFile!ReadFails(f)
           \/ \E c \in {"create", "map"} : GoodFile!Choose(c)
           \/ GoodFile!Fails \/ UNCHANGED GoodFile!vars
  <2>1. /\ UNCHANGED clients /\ (job' = job \/ job' = GoodFile!NoJob)
        /\ result' = result \/ result' = GoodFile!NoSummary
    BY <1>1 DEF GoodFile!Pick, GoodFile!Read, GoodFile!ReadFails, GoodFile!Choose, GoodFile!Fails,
       GoodFile!store, GoodFile!vars
  <2> QED
    BY <2>1 DEF GoodInv
<1>2. CASE GoodFile!RunPreview \/ GoodFile!RunCommit
  <2>1. PICK dry \in BOOLEAN : GoodFile!Ask(dry)
    BY <1>2 DEF GoodFile!RunPreview, GoodFile!RunCommit
  <2>2. /\ DOMAIN job' = JobFields /\ job'.dry = dry /\ job'.left = PeopleOf[job'.of]
        /\ job'.flushed = {} /\ job'.made = {} /\ job'.at = "asked"
    BY <2>1 DEF GoodFile!Ask, JobFields
  <2>3. UNCHANGED clients /\ (result' = result \/ result' = GoodFile!NoSummary)
    BY <1>2 DEF GoodFile!RunPreview, GoodFile!RunCommit, GoodFile!store
  <2> QED
    BY <2>2, <2>3 DEF GoodInv
<1>3. CASE GoodFile!Start
  <2>1. UNCHANGED <<clients, result>> /\ job # GoodFile!NoJob
    BY <1>n, <1>3 DEF GoodFile!Start, GoodFile!page, GoodFile!store
  <2>2. DOMAIN job = JobFields
    BY <2>1 DEF GoodInv
  <2>3. /\ DOMAIN job' = JobFields /\ job'.dry = job.dry /\ job'.of = job.of
        /\ job'.choice = job.choice /\ job'.left = job.left /\ job'.flushed = job.flushed
        /\ job'.made = job.made
        /\ ~job.dry /\ job.choice = "create" /\ PeopleOf[job.of] \cap Strangers # {} => job'.package
    BY <1>3, <2>2 DEF GoodFile!Start, JobFields
  <2> QED
    BY <2>1, <2>3 DEF GoodInv
<1>4. ASSUME NEW l \in GoodFile!Logins,
             GoodFile!InvalidRow(l) \/ GoodFile!ValidRow(l) \/ GoodFile!FailedRow(l)
      PROVE  GoodInv'
  <2>1. /\ UNCHANGED <<clients, result>> /\ job # GoodFile!NoJob /\ job.at # "asked" /\ l \in job.left
    BY <1>n, <1>4 DEF GoodFile!InvalidRow, GoodFile!ValidRow, GoodFile!FailedRow, GoodFile!page,
       GoodFile!store
  <2>2. DOMAIN job = JobFields
    BY <2>1 DEF GoodInv
  <2>3. ~GoodFile!FailedRow(l)
    BY <2>1 DEF GoodFile!FailedRow, GoodFile!Raises, GoodFile!Orphan, GoodInv
  <2>4. /\ DOMAIN job' = JobFields /\ job'.dry = job.dry /\ job'.of = job.of
        /\ job'.choice = job.choice /\ job'.left \subseteq job.left /\ job'.package = job.package
        /\ \/ job'.flushed = job.flushed /\ job'.made = job.made
           \/ job.dry
           \/ job'.flushed = job.flushed \cup {l} /\ job'.made = job.made \cup {l}
    BY <1>4, <2>2, <2>3 DEF GoodFile!InvalidRow, GoodFile!ValidRow, JobFields
  <2> QED
    BY <2>1, <2>4 DEF GoodInv
<1>5. CASE GoodFile!Finish
  <2>1. /\ job' = GoodFile!NoJob /\ job # GoodFile!NoJob
        /\ result' = (IF job.dry THEN result ELSE GoodFile!Summary)
        /\ clients' = [l \in GoodFile!Logins |-> clients[l] + (IF l \in job.flushed THEN 1 ELSE 0)]
    BY <1>n, <1>5 DEF GoodFile!Finish, GoodFile!Written
  <2>2. \A l \in GoodFile!Logins :
            /\ clients'[l] \in Nat /\ (clients[l] > 0 => clients'[l] > 0)
            /\ l \in job.flushed => clients'[l] > 0
    BY <2>1 DEF GoodInv
  <2>3. clients' \in [GoodFile!Logins -> Nat]
    BY <2>1, <2>2
  <2>4. GoodFile!Summary.made = job.made
    BY DEF GoodFile!Summary
  <2>5. CASE job.dry
    BY <2>1, <2>2, <2>3, <2>5 DEF GoodInv
  <2>6. CASE ~job.dry
    BY <2>1, <2>2, <2>3, <2>4, <2>6 DEF GoodInv
  <2> QED
    BY <2>5, <2>6
<1>6. ASSUME NEW l \in GoodFile!Logins, GoodFile!Entered(l) PROVE GoodInv'
  <2>1. /\ clients' = [clients EXCEPT ![l] = 1] /\ UNCHANGED <<job, result>>
        /\ clients \in [GoodFile!Logins -> Nat]
    BY <1>6 DEF GoodFile!Entered, GoodFile!page, GoodInv
  <2>2. /\ clients' \in [GoodFile!Logins -> Nat]
        /\ \A k \in GoodFile!Logins : clients[k] > 0 => clients'[k] > 0
    BY <2>1
  <2> QED
    BY <2>1, <2>2 DEF GoodInv
<1> QED
  BY <1>1, <1>2, <1>3, <1>4, <1>5, <1>6 DEF GoodFile!Next

-----------------------------------------------------------------------------
(*                              The cutover                                *)

\* The variables of the part, by their names in Cutover; s3 are the clients.
enabled == s1
adopted == s2
script == s9
copies == s10
USE DEF enabled, adopted, script, copies

\* No script moves one whose creation was refused.
MovesInv ==
    /\ s3 \cap Declined = {}
    /\ Declined \ Offline \subseteq enabled
    /\ \A c \in copies \cup {script} : c.kind = "cutover" => c.of \cap Declined = {}

LEMMA MovesBegin == Moves!Init => MovesInv
<1> SUFFICES ASSUME Moves!Init PROVE MovesInv
  OBVIOUS
<1>1. Declined \subseteq Movers
  BY NetworkAssumption DEF NetworkAssumption, Moves!CutoverAssumption
<1> QED
  BY <1>1 DEF Moves!Init, Moves!NoScript, MovesInv

LEMMA MovesStep == MovesInv /\ [Moves!Next]_(Moves!vars) => MovesInv' /\ Moves!TakenBackIsWhole
<1> SUFFICES ASSUME MovesInv, [Moves!Next]_(Moves!vars)
             PROVE  MovesInv' /\ Moves!TakenBackIsWhole
  OBVIOUS
<1>1. ASSUME UNCHANGED <<enabled, adopted>>, s3' \subseteq s3,
             \A c \in copies' \cup {script'} :
                 c \in copies \cup {script} \/ (c.kind = "cutover" => c.of \cap Declined = {})
      PROVE  MovesInv' /\ Moves!TakenBackIsWhole
  BY <1>1 DEF MovesInv, Moves!TakenBackIsWhole
<1>2. CASE \/ \E r \in Imports : Moves!Choose(r) \/ Moves!Revert(r)
           \/ \E n \in Moves!Limits : Moves!SetLimit(n)
           \/ \E kind \in {"cutover", "rollback"} : Moves!Generate(kind)
           \/ Moves!Fails \/ Moves!Copy \/ UNCHANGED Moves!vars
  <2>1. /\ UNCHANGED <<enabled, adopted, script>> /\ s3' \subseteq s3
        /\ copies' \subseteq copies \cup {script}
    BY <1>2 DEF Moves!Choose, Moves!Revert, Moves!SetLimit, Moves!Generate, Moves!Fails, Moves!Copy,
       Moves!router, Moves!server, Moves!page, Moves!vars
  <2> QED
    BY <1>1, <2>1
<1>3. CASE Moves!Open
  <2>1. /\ UNCHANGED <<enabled, adopted, copies, s3>> /\ script' = Moves!NoScript
    BY <1>3 DEF Moves!Open, Moves!router, Moves!server
  <2>2. Moves!NoScript.kind = "none"
    BY DEF Moves!NoScript
  <2> QED
    BY <1>1, <2>1, <2>2
<1>4. CASE Moves!Answer
  <2>1. /\ UNCHANGED <<enabled, adopted, copies, s3>> /\ script' = Moves!Script(s8)
    BY <1>4 DEF Moves!Answer, Moves!router, Moves!server
  <2>2. script'.kind = "cutover" => script'.of \subseteq s3
    BY <2>1 DEF Moves!Script, Moves!Batch, Moves!Movable
  <2> QED
    BY <1>1, <2>1, <2>2 DEF MovesInv
<1>5. CASE Moves!Adopt
  BY <1>5 DEF Moves!Adopt, Moves!server, Moves!page, MovesInv, Moves!TakenBackIsWhole
<1>6. ASSUME NEW c \in copies, Moves!Move(c) PROVE MovesInv' /\ Moves!TakenBackIsWhole
  <2>1. c.kind = "cutover" /\ enabled' = enabled \ c.of /\ UNCHANGED <<adopted, s3, script, copies>>
    BY <1>6 DEF Moves!Move, Moves!server, Moves!page
  <2> QED
    BY <2>1 DEF MovesInv, Moves!TakenBackIsWhole
<1>7. ASSUME NEW c \in copies, Moves!TakeBack(c) PROVE MovesInv' /\ Moves!TakenBackIsWhole
  <2>1. c.kind = "rollback" /\ enabled' = enabled \cup c.of /\ UNCHANGED <<s3, script, copies>>
    BY <1>7 DEF Moves!TakeBack, Moves!server, Moves!page
  <2> QED
    BY <2>1 DEF MovesInv, Moves!TakenBackIsWhole
<1> QED
  BY <1>2, <1>3, <1>4, <1>5, <1>6, <1>7 DEF Moves!Next

\* Of the one import that stands: who is moved is a client, a rollback names everybody,
\* and while the router does not ask Infora no login is off that was on.
OneInv ==
    /\ s4 \subseteq {"run"} /\ s5 \subseteq {"run"} /\ s6 \in {"run", "none"}
    /\ s8 # OneImport!Idle => s8.run = "run"
    /\ \A c \in copies \cup {script} : /\ c.kind = "cutover" => c.of \subseteq s3
                                       /\ c.kind = "rollback" => c.of = Movers
    /\ Movers \ Offline \subseteq IF adopted THEN enabled \cup s3 ELSE enabled

LEMMA OneBegin == OneImport!Init => OneInv
BY DEF OneImport!Init, OneImport!NoScript, OneInv

LEMMA OneStep == OneInv /\ [OneImport!Next]_(OneImport!vars) => OneInv'
<1> SUFFICES ASSUME OneInv, [OneImport!Next]_(OneImport!vars) PROVE OneInv'
  OBVIOUS
<1>n. OneImport!NoScript.kind = "none" /\ OneImport!None = "none"
  BY DEF OneImport!NoScript, OneImport!None
<1>1. CASE \/ \E r \in {"run"} : OneImport!Choose(r)
           \/ \E n \in OneImport!Limits : OneImport!SetLimit(n)
           \/ OneImport!Fails \/ OneImport!Copy \/ UNCHANGED OneImport!vars
  <2>1. /\ UNCHANGED <<enabled, adopted, script, s3, s4, s5>> /\ s6' \in {"run", s6}
        /\ s8' = s8 \/ s8' = OneImport!Idle
        /\ copies' \subseteq copies \cup {script}
    BY <1>1 DEF OneImport!Choose, OneImport!SetLimit, OneImport!Fails, OneImport!Copy,
       OneImport!router, OneImport!server, OneImport!page, OneImport!vars
  <2> QED
    BY <2>1 DEF OneInv
<1>2. CASE \E r \in {"run"} : OneImport!Revert(r)
  BY <1>2 DEF OneImport!Revert
<1>3. ASSUME NEW kind, OneImport!Generate(kind) PROVE OneInv'
  <2>1. /\ UNCHANGED <<enabled, adopted, script, copies, s3, s4, s5, s6>> /\ s6 # "none"
        /\ s8'.run = s6
    BY <1>n, <1>3 DEF OneImport!Generate, OneImport!router, OneImport!server
  <2> QED
    BY <2>1 DEF OneInv
<1>4. CASE OneImport!Open
  <2>1. /\ UNCHANGED <<enabled, adopted, copies, s3, s4>> /\ script' = OneImport!NoScript
        /\ s5' = s4 /\ s6' \in s4 \cup {"none"} /\ s8' = OneImport!Idle
    BY <1>n, <1>4 DEF OneImport!Open, OneImport!router, OneImport!server
  <2> QED
    BY <1>n, <2>1 DEF OneInv
<1>5. CASE OneImport!Answer
  <2>1. /\ UNCHANGED <<enabled, adopted, copies, s3, s4, s5, s6>> /\ s8 # OneImport!Idle
        /\ script' = OneImport!Script(s8) /\ s8' = OneImport!Idle
    BY <1>5 DEF OneImport!Answer, OneImport!router, OneImport!server
  <2>2. /\ script'.kind = "cutover" => script'.of \subseteq s3
        /\ script'.kind = "rollback" => script'.of = OneImport!Of(s8.run)
    BY <2>1 DEF OneImport!Script, OneImport!Batch, OneImport!Movable
  <2>3. OneImport!Of(s8.run) = Movers
    BY <2>1 DEF OneInv, OneImport!Of
  <2> QED
    BY <2>1, <2>2, <2>3 DEF OneInv
<1>6. CASE OneImport!Adopt
  BY <1>6 DEF OneImport!Adopt, OneImport!server, OneImport!page, OneInv
<1>7. ASSUME NEW c \in copies, OneImport!Move(c) PROVE OneInv'
  <2>1. /\ c.kind = "cutover" /\ enabled' = enabled \ c.of /\ adopted
        /\ UNCHANGED <<adopted, script, copies, s3, s4, s5, s6, s8>>
    BY <1>7 DEF OneImport!Move, OneImport!server, OneImport!page
  <2> QED
    BY <2>1 DEF OneInv
<1>8. ASSUME NEW c \in copies, OneImport!TakeBack(c) PROVE OneInv'
  <2>1. /\ c.kind = "rollback" /\ enabled' = enabled \cup c.of /\ adopted' = FALSE
        /\ UNCHANGED <<script, copies, s3, s4, s5, s6, s8>>
    BY <1>8 DEF OneImport!TakeBack, OneImport!server, OneImport!page
  <2> QED
    BY <2>1 DEF OneInv
<1> QED
  BY <1>1, <1>2, <1>3, <1>4, <1>5, <1>6, <1>7, <1>8 DEF OneImport!Next

-----------------------------------------------------------------------------
(*                   Imports, and what was not asked for                   *)

ImportInv ==
    /\ part = "plan" => RunInv /\ PriceInv
    /\ part = "planBack" => RunInv
    /\ part = "file" => FileInv
    /\ part = "fileGood" => GoodInv
    /\ part = "cutover" => MovesInv
    /\ part = "cutoverOne" => OneInv

LEMMA ImportBegin == Init => ImportInv
<1> SUFFICES ASSUME Init PROVE ImportInv
  OBVIOUS
<1>1. /\ part = "plan" => Plan!Init
      /\ part = "planBack" => PlanBack!Init
      /\ part = "file" => File!Init
      /\ part = "fileGood" => GoodFile!Init
      /\ part = "cutover" => Moves!Init
      /\ part = "cutoverOne" => OneImport!Init
  BY DEF Init
<1> QED
  BY <1>1, RunBegin, PriceBegin, FileBegin, GoodBegin, MovesBegin, OneBegin DEF ImportInv

LEMMA ImportSteps ==
    [Next]_vars => /\ part = "plan" => [Plan!Next]_(Plan!vars)
                   /\ part = "planBack" => [PlanBack!Next]_(PlanBack!vars)
                   /\ part = "file" => [File!Next]_(File!vars)
                   /\ part = "fileGood" => [GoodFile!Next]_(GoodFile!vars)
                   /\ part = "cutover" => [Moves!Next]_(Moves!vars)
                   /\ part = "cutoverOne" => [OneImport!Next]_(OneImport!vars)
BY DEF Next, vars, Plan!vars, PlanBack!vars, File!vars, GoodFile!vars, Moves!vars, OneImport!vars

LEMMA ImportStep ==
    ImportInv /\ [Next]_vars =>
        /\ ImportInv'
        /\ part = "planBack" => PlanBack!PackagesKeepPrice
        /\ part = "file" => File!DryRunsWriteNothing
        /\ part = "cutover" => Moves!TakenBackIsWhole
BY ImportSteps, PartStays, PlanStep, BackStep, FileStep, GoodStep, MovesStep, OneStep DEF ImportInv

\* Whatever the profiles, prices, people and runs: nobody arrives expired unless the operator
\* insisted on a blocked commit (start_commit), who was given a package pays what was set for
\* it (create_packages, candidate_to_row), a person of two files has one client, the import
\* is of the text and choice previewed, rows are reported as created only when they are kept,
\* a subscriber whose client could not be created keeps the router's own login, and while
\* one import stands nobody who had service is without.
THEOREM ImportIsAsAgreedHolds == Spec => []ImportIsAsAgreed
<1>1. ImportInv => ImportIsAsAgreed
  <2>1. RunInv => Plan!NobodyArrivesExpired /\ PlanBack!NobodyArrivesExpired
    BY DEF RunInv, Plan!NobodyArrivesExpired, PlanBack!NobodyArrivesExpired, Plan!Imported,
       PlanBack!Imported
  <2>2. PriceInv => Plan!PriceIsAsSet
    BY DEF PriceInv
  <2>3. FileInv => File!OneClientEach /\ File!ImportedIsPreviewed /\ File!PreviewIsOfText
    BY DEF FileInv, File!OneClientEach, File!ImportedIsPreviewed, File!PreviewIsOfText
  <2>4. GoodInv => GoodFile!ReportedIsStored
    BY DEF GoodInv, GoodFile!ReportedIsStored
  <2>5. MovesInv => Moves!RefusedStay
    BY DEF MovesInv, Moves!RefusedStay
  <2>6. OneInv => OneImport!ServiceIsKept
    BY DEF OneInv, OneImport!ServiceIsKept, OneImport!Online, OneImport!ByRadius
  <2> QED
    BY <2>1, <2>2, <2>3, <2>4, <2>5, <2>6 DEF ImportInv, ImportIsAsAgreed
<1> QED
  BY <1>1, ImportBegin, ImportStep, PTL DEF Spec

AskedInv ==
    /\ PlantInv /\ ImportInv
    /\ part = "tasks" => TasksInv /\ OlderShut
    /\ part \in {"unit", "unitLossy"} => UnitInv /\ PassTyped

LEMMA AskedBegin == Init => AskedInv
<1> SUFFICES ASSUME Init PROVE AskedInv
  OBVIOUS
<1>1. /\ part = "tasks" => Tasks!Init
      /\ part = "unit" => Unit!Init
      /\ part = "unitLossy" => UnitLossy!Init
  BY DEF Init
<1>2. Tasks!Init => OlderShut
  BY DEF Tasks!Init, OlderShut
<1> QED
  BY <1>1, <1>2, PlantBegin, ImportBegin, TasksBegin, PassBegin DEF AskedInv

LEMMA AskedStep ==
    AskedInv /\ [Next]_vars =>
        /\ AskedInv'
        /\ part = "nodes" => PinNodes!RoughIsAsked /\ PinNodes!GoneIsPlaced
        /\ part = "ports" => Sheet!CableKeepsPorts
        /\ part = "unit" => Unit!PasswordGoesOnce
        /\ part = "unitLossy" => UnitLossy!PasswordGoesOnce
        /\ part = "tasks" => Tasks!InOrder
<1> SUFFICES ASSUME AskedInv, [Next]_vars
             PROVE  /\ AskedInv'
                    /\ part = "nodes" => PinNodes!RoughIsAsked /\ PinNodes!GoneIsPlaced
                    /\ part = "ports" => Sheet!CableKeepsPorts
                    /\ part = "unit" => Unit!PasswordGoesOnce
                    /\ part = "unitLossy" => UnitLossy!PasswordGoesOnce
                    /\ part = "tasks" => Tasks!InOrder
  OBVIOUS
<1>1. part' = part /\ PlantInv' /\ ImportInv'
  BY PartStays, PlantStep, ImportStep DEF AskedInv
<1>2. part = "nodes" => PinNodes!RoughIsAsked /\ PinNodes!GoneIsPlaced
  BY NodesSteps, NodesStep DEF AskedInv, PlantInv
<1>3. part = "ports" => Sheet!CableKeepsPorts
  BY SheetSteps, SheetStep DEF AskedInv, PlantInv
<1>4. part = "tasks" => TasksInv' /\ OlderShut' /\ Tasks!InOrder
  BY TasksSteps, TasksStep, TasksOrder DEF AskedInv
<1>5. part = "unit" => UnitInv' /\ PassTyped' /\ Unit!PasswordGoesOnce
  BY <1>1, UnitSteps, UnitStep, PassStep DEF AskedInv
<1>6. part = "unitLossy" => [UnitLossy!Next]_(UnitLossy!vars)
  BY DEF Next, vars, UnitLossy!vars
<1>7. part = "unitLossy" => UnitInv' /\ PassTyped' /\ UnitLossy!PasswordGoesOnce
  BY <1>1, <1>6, LossyStep DEF AskedInv
<1> QED
  BY <1>1, <1>2, <1>3, <1>4, <1>5, <1>7 DEF AskedInv

\* Whatever a part is given, no step does what was not asked for: a rough fix is sent only
\* after the technician was asked, a node leaves the phone's list once it has coordinates,
\* deleting a cable frees no port, a password typed once is ordered once, a task runs when all that
\* were queued before it are closed, a package that is there keeps its price through every
\* import and revert, a dry run leaves clients, packages and mappings alone, and a router is
\* left without Infora only when every login a rollback names is on.
THEOREM NothingUnaskedHolds == Spec => NothingUnasked
<1>1. AskedInv /\ [Next]_vars =>
        [/\ part = "nodes" => PinNodes!RoughIsAsked /\ PinNodes!GoneIsPlaced
         /\ part = "ports" => Sheet!CableKeepsPorts
         /\ part = "unit" => Unit!PasswordGoesOnce
         /\ part = "unitLossy" => UnitLossy!PasswordGoesOnce
         /\ part = "tasks" => Tasks!InOrder
         /\ part = "planBack" => PlanBack!PackagesKeepPrice
         /\ part = "file" => File!DryRunsWriteNothing
         /\ part = "cutover" => Moves!TakenBackIsWhole]_vars
  BY AskedStep, ImportStep DEF AskedInv
<1>2. AskedInv /\ [Next]_vars => AskedInv'
  BY AskedStep
<1> QED
  BY <1>1, <1>2, AskedBegin, PTL DEF Spec, NothingUnasked

=============================================================================
