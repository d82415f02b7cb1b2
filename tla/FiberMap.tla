------------------------------- MODULE FiberMap -------------------------------
(***************************************************************************)
(* The fiber map: one page over the plant of the server, with markers that *)
(* are dragged, a rail that traces the selected node, drafts of a node and *)
(* of a cable, and a survey that is previewed and imported.  Requests are  *)
(* answered in any order, and any of them may fail.                        *)
(***************************************************************************)
EXTENDS Naturals, FiniteSets

CONSTANTS Nodes, Places,
          Patient,    \* the operator waits for each answer before going on
          Lossy,      \* the answer to a stored drag may be lost
          MaxLoads,   \* bound: readings of the map
          MaxMoves,   \* bound: drags
          MaxTraces   \* bound: selections

MapAssumption ==
    /\ "none" \notin Nodes \cup Places /\ Patient \in BOOLEAN /\ Lossy \in BOOLEAN
    /\ MaxLoads \in Nat /\ MaxMoves \in Nat /\ MaxTraces \in Nat

VARIABLES
    place,     \* server: coordinates of each node, "none" without a row
    accepted,  \* server: every place a node was ever at
    data,      \* page: the nodes of the last answer and where they are drawn
    loads,     \* page: readings under way, with what they will answer
    moves,     \* page: drags under way: node, place, and whether it is stored
    selected, trace,   \* page: the node of the rail, and whose trace it shows
    tracing,   \* page: traces under way
    mode, draft, path, \* page: view, add or draw; the drafts of the two modes
    write,     \* page: the write that keeps the page busy
    used       \* loads, drags and traces so far

vars == <<place, accepted, data, loads, moves, selected, trace, tracing, mode, draft, path, write, used>>
server == <<place, accepted>>
rail == <<selected, trace, tracing>>
tools == <<mode, draft, path>>

NoDraft == [node |-> "none", at |-> "none"]
NoWrite == [kind |-> "none", at |-> "none", node |-> "none"]

TypeOK ==
    /\ place \in [Nodes -> Places \cup {"none"}] /\ accepted \in [Nodes -> SUBSET Places]
    /\ data \in [Nodes -> Places \cup {"none"}] /\ Cardinality(loads) <= MaxLoads
    /\ \A m \in moves : m.node \in Nodes /\ m.to \in Places /\ m.at \in {"sent", "stored", "refused"}
    /\ selected \in Nodes \cup {"none"} /\ trace \in Nodes \cup {"none"}
    /\ \A t \in tracing : t.of \in Nodes
    /\ mode \in {"view", "add", "draw"} /\ path \in 0 .. 2
    /\ mode # "add" => draft = NoDraft
    /\ mode # "draw" => path = 0
    /\ write.kind \in {"none", "node", "cable", "delete", "geocode", "preview", "confirm", "import"}

Init ==
    /\ \E p \in Places : place = [n \in Nodes |-> p] /\ accepted = [n \in Nodes |-> {p}]
    /\ data \in {[n \in Nodes |-> "none"], place} /\ loads = {} /\ moves = {}
    /\ selected = "none" /\ trace = "none" /\ tracing = {}
    /\ mode = "view" /\ draft = NoDraft /\ path = 0 /\ write = NoWrite
    /\ used = [loads |-> 0, moves |-> 0, traces |-> 0]

Waiting == loads # {} \/ moves # {} \/ tracing # {} \/ write # NoWrite
MayAct == Patient => ~Waiting
Busy == write # NoWrite

-----------------------------------------------------------------------------
(* load                                                                    *)

\* A reading is sent, and read by the server when it gets there.
Sent == IF used.loads < MaxLoads THEN loads \cup {[n |-> used.loads, at |-> "sent", rows |-> data]} ELSE loads
Counted == IF used.loads < MaxLoads THEN [used EXCEPT !.loads = @ + 1] ELSE used

Load ==
    /\ MayAct /\ used.loads < MaxLoads /\ loads' = Sent /\ used' = Counted
    /\ UNCHANGED <<server, data, moves, rail, tools, write>>

ServeLoad ==
    /\ \E l \in loads : l.at = "sent" /\ loads' = (loads \ {l}) \cup {[l EXCEPT !.at = "read", !.rows = place]}
    /\ UNCHANGED <<server, data, moves, rail, tools, write, used>>

LoadAnswered ==
    /\ \E l \in loads : l.at = "read" /\ data' = l.rows /\ loads' = loads \ {l}
    /\ UNCHANGED <<server, moves, rail, tools, write, used>>

LoadFails ==
    /\ \E l \in loads : loads' = loads \ {l}
    /\ UNCHANGED <<server, data, moves, rail, tools, write, used>>

-----------------------------------------------------------------------------
(* The selection and its trace                                             *)

Selected(n) == selected' = n /\ trace' = "none"

SelectNode(n) ==
    /\ MayAct /\ data[n] # "none" /\ used.traces < MaxTraces /\ Selected(n)
    /\ tracing' = tracing \cup {[of |-> n, n |-> used.traces]} /\ used' = [used EXCEPT !.traces = @ + 1]
    /\ UNCHANGED <<server, data, loads, moves, tools, write>>

TraceAnswered ==
    /\ \E t \in tracing : tracing' = tracing \ {t} /\ trace' \in IF place[t.of] # "none" THEN {t.of, trace} ELSE {trace}
    /\ UNCHANGED <<server, data, loads, moves, selected, tools, write, used>>

CloseRail ==
    /\ MayAct /\ mode = "view" /\ selected # "none" /\ selected' = "none" /\ trace' = "none"
    /\ UNCHANGED <<server, data, loads, moves, tracing, tools, write, used>>

-----------------------------------------------------------------------------
(* Drafts                                                                  *)

Enter(m) ==
    /\ MayAct /\ mode = "view" /\ mode' = m
    /\ draft' = IF m = "add" THEN [node |-> "unnamed", at |-> "none"] ELSE draft
    /\ UNCHANGED <<server, data, loads, moves, rail, path, write, used>>

\* handleMapClick, Undo last point and the fields of the draft.
Draft ==
    /\ \/ mode = "add" /\ draft' \in [node : {"unnamed", "named"}, at : Places \cup {draft.at}] /\ UNCHANGED path
       \/ mode = "draw" /\ path' \in 0 .. 2 /\ UNCHANGED draft
    /\ UNCHANGED <<server, data, loads, moves, rail, mode, write, used>>

Cleared == mode' = "view" /\ draft' = NoDraft /\ path' = 0

\* Cancel and Escape.
CancelMode ==
    /\ mode # "view" /\ Cleared
    /\ UNCHANGED <<server, data, loads, moves, rail, write, used>>

SaveNode ==
    /\ ~Busy /\ mode = "add" /\ draft.node = "named" /\ draft.at # "none"
    /\ \E n \in Nodes : place[n] = "none" /\ write' = [kind |-> "node", at |-> draft.at, node |-> n]
    /\ UNCHANGED <<server, data, loads, moves, rail, tools, used>>

SaveCable ==
    /\ ~Busy /\ mode = "draw" /\ path = 2 /\ write' = [NoWrite EXCEPT !.kind = "cable"]
    /\ UNCHANGED <<server, data, loads, moves, rail, tools, used>>

\* The write is done: the mode is left, whatever was drafted since, and the map read.
SaveAnswered ==
    /\ write.kind \in {"node", "cable"} /\ write' = NoWrite /\ Cleared
    /\ IF write.kind = "node" /\ place[write.node] = "none"
       THEN place' = [place EXCEPT ![write.node] = write.at]
            /\ accepted' = [accepted EXCEPT ![write.node] = @ \cup {write.at}]
       ELSE UNCHANGED server
    /\ loads' = Sent /\ used' = Counted /\ UNCHANGED <<data, moves, rail>>

\* A refusal, or an answer that is lost: the draft stays.
WriteFails ==
    /\ Busy /\ write' = NoWrite
    /\ UNCHANGED <<server, data, loads, moves, rail, tools, used>>

-----------------------------------------------------------------------------
(* Dragging, deletion                                                      *)

\* Faulty variant: the map moves the node before the server has it.
DrawnAt(n, p) == data' = [data EXCEPT ![n] = p]

\* The drop of a marker leaves the data of the page.
DrawnNow(n, p) == data' = data

\* A marker is dropped: the node is written, and the map not yet changed.
MoveNode(n, p) ==
    /\ MayAct /\ mode = "view" /\ data[n] # "none" /\ used.moves < MaxMoves /\ DrawnNow(n, p)
    /\ moves' = moves \cup {[n |-> used.moves, node |-> n, to |-> p, at |-> "sent"]}
    /\ used' = [used EXCEPT !.moves = @ + 1]
    /\ UNCHANGED <<server, loads, rail, tools, write>>

ServeMove ==
    /\ \E m \in moves :
           /\ m.at = "sent"
           /\ \/ /\ place[m.node] # "none" /\ place' = [place EXCEPT ![m.node] = m.to]
                 /\ accepted' = [accepted EXCEPT ![m.node] = @ \cup {m.to}]
                 /\ moves' = (moves \ {m}) \cup {[m EXCEPT !.at = "stored"]}
              \/ moves' = (moves \ {m}) \cup {[m EXCEPT !.at = "refused"]} /\ UNCHANGED server
    /\ UNCHANGED <<data, loads, rail, tools, write, used>>

\* The node is drawn where the drag put it.
MoveAnswered ==
    /\ \E m \in moves :
           /\ m.at = "stored" /\ moves' = moves \ {m}
           /\ data' = [data EXCEPT ![m.node] = IF @ = "none" THEN "none" ELSE m.to]
    /\ UNCHANGED <<server, loads, rail, tools, write, used>>

\* Refused, or stored without an answer: the map is read again.
MoveFails ==
    /\ \E m \in moves : m.at \in {"refused"} \cup (IF Lossy THEN {"stored"} ELSE {}) /\ moves' = moves \ {m}
    /\ loads' = Sent /\ used' = Counted /\ UNCHANGED <<server, data, rail, tools, write>>

\* removeNode: deleted, the rail closed and the map read; or refused.
RemoveNode ==
    /\ MayAct /\ mode = "view" /\ selected # "none" /\ data[selected] # "none"
    /\ place' = [place EXCEPT ![selected] = "none"]
    /\ selected' = "none" /\ loads' = Sent /\ used' = Counted
    /\ UNCHANGED <<accepted, data, moves, trace, tracing, tools, write>>

-----------------------------------------------------------------------------
(* Geocoding and the survey                                                *)

Batch ==
    /\ MayAct /\ ~Busy /\ write' \in {[NoWrite EXCEPT !.kind = "geocode"], [NoWrite EXCEPT !.kind = "preview"]}
    /\ UNCHANGED <<server, data, loads, moves, rail, tools, used>>

\* The preview is confirmed, or left; the file is sent again; the map is read.
BatchGoesOn ==
    /\ write.kind \in {"geocode", "preview", "confirm", "import"}
    /\ write' = CASE write.kind = "preview" -> [write EXCEPT !.kind = "confirm"]
                  [] write.kind = "confirm" -> [write EXCEPT !.kind = "import"]
                  [] OTHER -> NoWrite
    /\ IF write.kind \in {"geocode", "import"} THEN loads' = Sent /\ used' = Counted
       ELSE UNCHANGED <<loads, used>>
    /\ IF write.kind = "import"
       THEN \E n \in Nodes, p \in Places :
                IF place[n] = "none"
                THEN place' = [place EXCEPT ![n] = p] /\ accepted' = [accepted EXCEPT ![n] = @ \cup {p}]
                ELSE UNCHANGED server
       ELSE UNCHANGED server
    /\ UNCHANGED <<data, moves, rail, tools>>

-----------------------------------------------------------------------------
Next ==
    \/ Load \/ ServeLoad \/ LoadAnswered \/ LoadFails \/ TraceAnswered \/ CloseRail
    \/ Draft \/ CancelMode \/ SaveNode \/ SaveCable \/ SaveAnswered \/ WriteFails
    \/ ServeMove \/ MoveAnswered \/ MoveFails \/ RemoveNode \/ Batch \/ BatchGoesOn
    \/ \E n \in Nodes : SelectNode(n)
    \/ \E m \in {"add", "draw"} : Enter(m)
    \/ \E n \in Nodes, p \in Places : MoveNode(n, p)

Spec == Init /\ [][Next]_vars

-----------------------------------------------------------------------------
(* A node is never drawn at a place the server did not accept.             *)
DrawnWasAccepted == \A n \in Nodes : data[n] # "none" => data[n] \in accepted[n]

(* The loss budget in the rail is the one of the node in its title.        *)
TraceOfSelected == selected # "none" /\ trace # "none" => trace = selected

-----------------------------------------------------------------------------
\* Said in the sources and not so in the code: no run checks what follows, and
\* the README tells how each of them is broken.

\* "Dragging a marker is the fastest way to correct a pin, so it writes through": once
\* drags are answered, every node is drawn where the server has it.
DragWritesThrough ==
    ~Waiting => \A n \in Nodes : data[n] # "none" => data[n] = place[n]

\* "Tracing upstream...": while the rail says so, a trace of the node is under way.
TracingIsReal ==
    selected # "none" /\ trace = "none" => \E t \in tracing : t.of = selected
==============================================================================
