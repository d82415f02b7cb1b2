------------------------------- MODULE PortSheet -------------------------------
(***************************************************************************)
(* The splice plan: the port sheet of the selected node, the dialog that   *)
(* assigns a free port, clearing a port, and the deletion of a cable on    *)
(* the list of cables.                                                     *)
(***************************************************************************)
EXTENDS Naturals, FiniteSets

CONSTANTS Nodes, Ports, Cables,
          Patient,     \* the operator waits for each sheet before going on
          MaxReads,    \* bound: readings of a sheet
          MaxSplices   \* bound: assignments made, here or elsewhere

SheetAssumption ==
    /\ "none" \notin Nodes \cup Cables /\ 0 \notin Ports /\ Patient \in BOOLEAN
    /\ MaxReads \in Nat /\ MaxSplices \in Nat

VARIABLES
    cables,    \* server: the rows of fiber_cables
    splice,    \* server: the splice of each port: its id (0 is free) and cable
    made,      \* server: splices made
    selected,  \* page: the highlighted node
    sheet,     \* page: the node and the ports of the sheet shown
    reads,     \* page: sheets asked for
    assigning, \* page: the port whose dialog was opened, 0 for none, and the node it was opened on
    listed,    \* page: the cables offered by the dialog
    saving,    \* page: the assignment under way
    clearing,  \* page: the splice whose clearing was asked, and how far that is
    wrong,     \* an assignment was stored on another node than the one it was opened on
    lost,      \* a splice was freed that nobody asked to free
    asked      \* sheets asked for so far

vars == <<cables, splice, made, selected, sheet, reads, assigning, listed, saving, clearing, wrong, lost, asked>>
server == <<cables, splice, made>>
dialog == <<assigning, listed, saving>>

Free == [id |-> 0, cable |-> "none"]
NoSheet == [of |-> "none", ports |-> [p \in Ports |-> Free]]
NoSave == [node |-> "none", port |-> 0, cable |-> "none", opened |-> "none"]
NoClear == [node |-> "none", port |-> 0, id |-> 0, sent |-> FALSE]
NotAssigning == [port |-> 0, opened |-> "none"]

TypeOK ==
    /\ cables \subseteq Cables /\ made \in 0 .. MaxSplices
    /\ \A n \in Nodes, p \in Ports : splice[n][p].id \in 0 .. made /\ splice[n][p].cable \in cables \cup {"none"}
    /\ selected \in Nodes /\ sheet.of \in Nodes \cup {"none"}
    /\ assigning.port \in Ports \cup {0} /\ listed \subseteq Cables
    /\ saving = NoSave \/ (saving.node \in Nodes /\ saving.port \in Ports)
    /\ clearing = NoClear \/ (clearing.node \in Nodes /\ clearing.id \in 1 .. made)

Init ==
    /\ cables = Cables /\ splice = [n \in Nodes |-> [p \in Ports |-> Free]] /\ made = 0
    /\ selected \in Nodes /\ sheet = NoSheet /\ reads = {} /\ assigning = NotAssigning
    /\ listed = Cables /\ saving = NoSave /\ clearing = NoClear
    /\ wrong = FALSE /\ lost = FALSE /\ asked = 0

MayAct == Patient => reads = {} /\ saving = NoSave /\ clearing = NoClear

-----------------------------------------------------------------------------
(* The sheet                                                               *)

Asks(n) ==
    IF asked < MaxReads
    THEN reads' = reads \cup {[of |-> n, k |-> asked, ports |-> NoSheet.ports, read |-> FALSE]} /\ asked' = asked + 1
    ELSE UNCHANGED <<reads, asked>>

\* A node of the list: its sheet, the nodes and the cables are read.
Select(n) ==
    /\ MayAct /\ asked < MaxReads /\ assigning = NotAssigning /\ selected' = n /\ Asks(n)
    /\ listed' \in {cables, listed, {}}
    /\ UNCHANGED <<server, sheet, assigning, saving, clearing, wrong, lost>>

ServeSheet ==
    /\ \E r \in reads : ~r.read /\ reads' = (reads \ {r}) \cup {[r EXCEPT !.read = TRUE, !.ports = splice[r.of]]}
    /\ UNCHANGED <<server, selected, sheet, dialog, clearing, wrong, lost, asked>>

\* The answer is shown whatever is selected; a failure empties the sheet.
SheetAnswered ==
    /\ \E r \in reads : reads' = reads \ {r} /\ sheet' = IF r.read THEN [of |-> r.of, ports |-> r.ports] ELSE NoSheet
    /\ UNCHANGED <<server, selected, dialog, clearing, wrong, lost, asked>>

-----------------------------------------------------------------------------
(* Assigning                                                               *)

OpenAssign(p) ==
    /\ MayAct /\ sheet # NoSheet /\ sheet.ports[p] = Free /\ assigning = NotAssigning
    /\ assigning' = [port |-> p, opened |-> sheet.of]
    /\ UNCHANGED <<server, selected, sheet, reads, listed, saving, clearing, wrong, lost, asked>>

CloseAssign ==
    /\ assigning # NotAssigning /\ sheet # NoSheet /\ assigning' = NotAssigning
    /\ UNCHANGED <<server, selected, sheet, reads, listed, saving, clearing, wrong, lost, asked>>

\* The dialog is of the node of the sheet at this moment.
SubmitAssign ==
    /\ assigning # NotAssigning /\ sheet # NoSheet /\ saving = NoSave
    /\ \E c \in listed \cup {"none"} :
           saving' = [node |-> sheet.of, port |-> assigning.port, cable |-> c, opened |-> assigning.opened]
    /\ UNCHANGED <<server, selected, sheet, reads, assigning, listed, clearing, wrong, lost, asked>>

\* create_splice refuses a port that is taken; a cable that is gone fails.
Taken(n, p, c) == splice[n][p] # Free \/ c \notin cables \cup {"none"}

AssignStored ==
    /\ saving # NoSave /\ ~Taken(saving.node, saving.port, saving.cable) /\ made < MaxSplices
    /\ lost' = (lost \/ splice[saving.node][saving.port].id # 0)
    /\ made' = made + 1 /\ wrong' = (wrong \/ saving.node # saving.opened)
    /\ splice' = [splice EXCEPT ![saving.node][saving.port] = [id |-> made + 1, cable |-> saving.cable]]
    /\ saving' = NoSave /\ assigning' = NotAssigning /\ Asks(selected)
    /\ listed' \in {cables, listed, {}} /\ UNCHANGED <<cables, selected, sheet, clearing>>

AssignFails ==
    /\ saving # NoSave /\ saving' = NoSave
    /\ UNCHANGED <<server, selected, sheet, reads, assigning, listed, clearing, wrong, lost, asked>>

-----------------------------------------------------------------------------
(* Clearing                                                                *)

AskClear(p) ==
    /\ MayAct /\ sheet # NoSheet /\ sheet.ports[p].id # 0 /\ clearing = NoClear /\ assigning = NotAssigning
    /\ clearing' = [node |-> sheet.of, port |-> p, id |-> sheet.ports[p].id, sent |-> FALSE]
    /\ UNCHANGED <<server, selected, sheet, reads, dialog, wrong, lost, asked>>

AnswerClear ==
    /\ clearing # NoClear /\ ~clearing.sent /\ clearing' \in {NoClear, [clearing EXCEPT !.sent = TRUE]}
    /\ UNCHANGED <<server, selected, sheet, reads, dialog, wrong, lost, asked>>

\* The row is found by its id.
Aim(n, p, id) == splice[n][p].id = id

\* delete_splice, and the sheet of the node that was selected when it was asked.
ClearStored ==
    /\ clearing.sent /\ Aim(clearing.node, clearing.port, clearing.id)
    /\ lost' = (lost \/ splice[clearing.node][clearing.port].id # clearing.id)
    /\ splice' = [splice EXCEPT ![clearing.node][clearing.port] = Free]
    /\ clearing' = NoClear /\ Asks(clearing.node)
    /\ UNCHANGED <<cables, made, selected, sheet, dialog, wrong>>

ClearFails ==
    /\ clearing.sent /\ clearing' = NoClear
    /\ UNCHANGED <<server, selected, sheet, reads, dialog, wrong, lost, asked>>

-----------------------------------------------------------------------------
(* Elsewhere                                                               *)

\* delete_cable: the ports keep what they serve.
WithoutCable(c) ==
    [n \in Nodes |-> [p \in Ports |->
        IF splice[n][p].cable = c THEN [splice[n][p] EXCEPT !.cable = "none"] ELSE splice[n][p]]]

DeleteCable(c) ==
    /\ c \in cables /\ cables' = cables \ {c} /\ splice' = WithoutCable(c)
    /\ UNCHANGED <<made, selected, sheet, reads, dialog, clearing, wrong, lost, asked>>

\* Another operator frees a port, or takes a free one.
Other(n, p) ==
    /\ IF splice[n][p] # Free THEN splice' = [splice EXCEPT ![n][p] = Free] /\ UNCHANGED made
       ELSE /\ made < MaxSplices /\ made' = made + 1
            /\ splice' = [splice EXCEPT ![n][p] = [id |-> made + 1, cable |-> "none"]]
    /\ UNCHANGED <<cables, selected, sheet, reads, dialog, clearing, wrong, lost, asked>>

-----------------------------------------------------------------------------
Next ==
    \/ ServeSheet \/ SheetAnswered \/ CloseAssign \/ SubmitAssign \/ AssignStored \/ AssignFails
    \/ AnswerClear \/ ClearStored \/ ClearFails
    \/ \E n \in Nodes : Select(n)
    \/ \E p \in Ports : OpenAssign(p) \/ AskClear(p)
    \/ \E c \in Cables : DeleteCable(c)
    \/ \E n \in Nodes, p \in Ports : Other(n, p)

Spec == Init /\ [][Next]_vars

-----------------------------------------------------------------------------
(* A port is freed or taken over only if it is the one that was confirmed: *)
(* what another operator put there meanwhile stays.                        *)
OthersStay == ~lost

(* The deletion of a cable frees no port.                                  *)
CableKeepsPorts ==
    cables' # cables => \A n \in Nodes, p \in Ports : splice'[n][p].id = splice[n][p].id

(* The sheet shown is the one of the highlighted node.                     *)
SheetOfSelected == sheet # NoSheet /\ reads = {} => sheet.of = selected

(* The port is assigned on the node whose sheet the dialog was opened on.  *)
AssignedWhereOpened == ~wrong
==============================================================================
