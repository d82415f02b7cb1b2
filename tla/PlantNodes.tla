------------------------------ MODULE PlantNodes ------------------------------
(***************************************************************************)
(* The list of plant nodes with its dialog, which writes every field of    *)
(* the row it was opened on, and the field survey of the phone, which pins *)
(* nodes without coordinates where the technician stands.                  *)
(***************************************************************************)
EXTENDS Naturals

CONSTANTS Nodes,
          Spots,     \* where a node can be, and the phone
          Alone,     \* an edit starts from a fresh list, with no pin before it is saved
          Signal,    \* the phone always learns where it is
          MaxEdits, MaxPins   \* bounds

NodesAssumption ==
    /\ "none" \notin Nodes \cup Spots /\ Alone \in BOOLEAN /\ Signal \in BOOLEAN
    /\ MaxEdits \in Nat /\ MaxPins \in Nat

VARIABLES
    row,      \* server: [name, at] of each node
    rows,     \* page: the rows shown
    dialog,   \* page: the node edited, its form, and whether it saves
    standing, \* the technician
    fix,      \* phone: the last position and how sure it is
    unplaced, \* phone: the nodes listed
    pin,      \* phone: the node being pinned, its position, and where the request is
    undone,   \* an edit of other fields changed coordinates
    count     \* edits and pins

vars == <<row, rows, dialog, standing, fix, unplaced, pin, undone, count>>
page == <<rows, dialog>>
phone == <<standing, fix, unplaced, pin>>

Names == {"old", "new"}
Row == [name : Names, at : Spots \cup {"none"}]
NoDialog == [of |-> "none", form |-> [name |-> "old", at |-> "none"], at |-> "closed"]
NoPin == [of |-> "none", to |-> "none", at |-> "none", step |-> "idle"]
NoFix == [at |-> "none", sure |-> "unknown"]

TypeOK ==
    /\ row \in [Nodes -> Row] /\ rows \in [Nodes -> Row]
    /\ dialog = NoDialog \/ (dialog.of \in Nodes /\ dialog.form \in Row /\ dialog.at \in {"open", "saving"})
    /\ fix = NoFix \/ (fix.at \in Spots /\ fix.sure \in {"good", "rough", "unknown"})
    /\ unplaced \subseteq Nodes
    /\ pin = NoPin \/ (pin.of \in Nodes /\ pin.to \in Spots /\ pin.step \in {"asked", "sent", "stored"})

Init ==
    /\ row = [n \in Nodes |-> [name |-> "old", at |-> "none"]] /\ rows = row
    /\ dialog = NoDialog /\ standing \in Spots /\ fix = NoFix /\ unplaced = Nodes /\ pin = NoPin
    /\ undone = FALSE /\ count = [edits |-> 0, pins |-> 0]

-----------------------------------------------------------------------------
(* The list and its dialog                                                 *)

Reload == rows' = row /\ UNCHANGED <<row, dialog, phone, undone, count>>

\* The form starts from the row shown.
FormOf(r) == r

Edit(n) ==
    /\ dialog = NoDialog /\ count.edits < MaxEdits /\ (Alone => pin = NoPin /\ rows = row)
    /\ dialog' = [of |-> n, form |-> FormOf(rows[n]), at |-> "open"]
    /\ count' = [count EXCEPT !.edits = @ + 1] /\ UNCHANGED <<row, rows, phone, undone>>

Type ==
    /\ dialog.at = "open" /\ \E v \in Names : dialog' = [dialog EXCEPT !.form.name = v]
    /\ UNCHANGED <<row, rows, phone, undone, count>>

Close == dialog.at = "open" /\ dialog' = NoDialog /\ UNCHANGED <<row, rows, phone, undone, count>>

Submit ==
    /\ dialog.at = "open" /\ dialog' = [dialog EXCEPT !.at = "saving"]
    /\ UNCHANGED <<row, rows, phone, undone, count>>

\* update_node with the whole form; the list is read again and the dialog closed.
Saved ==
    /\ dialog.at = "saving" /\ row' = [row EXCEPT ![dialog.of] = dialog.form]
    /\ undone' = (undone \/ row[dialog.of].at # dialog.form.at)
    /\ rows' \in {rows, row'} /\ dialog' = NoDialog /\ UNCHANGED <<phone, count>>

SaveFails ==
    /\ dialog.at = "saving" /\ dialog' = [dialog EXCEPT !.at = "open"]
    /\ UNCHANGED <<row, rows, phone, undone, count>>

-----------------------------------------------------------------------------
(* The phone                                                               *)

\* With a signal the watch reports every step of more than a metre.
Walk ==
    /\ \E s \in Spots \ {standing}, sure \in {"good", "rough", "unknown"} :
           standing' = s /\ fix' \in {[at |-> s, sure |-> sure]} \cup (IF Signal THEN {} ELSE {fix})
    /\ UNCHANGED <<row, page, unplaced, pin, undone, count>>

\* The fix settles, or comes for the first time.
Settle ==
    /\ \E sure \in {"good", "rough", "unknown"} : fix' = [at |-> standing, sure |-> sure]
    /\ UNCHANGED <<row, page, standing, unplaced, pin, undone, count>>

LoadUnplaced ==
    /\ unplaced' = {n \in Nodes : row[n].at = "none"}
    /\ UNCHANGED <<row, page, standing, fix, pin, undone, count>>

\* A rough fix is asked about first.
Step(sure) == IF sure = "rough" THEN "asked" ELSE "sent"

PinHere(n) ==
    /\ n \in unplaced /\ fix # NoFix /\ pin = NoPin /\ count.pins < MaxPins /\ (Alone => dialog = NoDialog)
    /\ pin' = [of |-> n, to |-> fix.at, at |-> standing, step |-> Step(fix.sure)]
    /\ count' = [count EXCEPT !.pins = @ + 1]
    /\ UNCHANGED <<row, page, standing, fix, unplaced, undone>>

\* "Wait" leaves it, "Save anyway" sends the fix it was asked about.
Answer ==
    /\ pin.step = "asked" /\ pin' \in {NoPin, [pin EXCEPT !.step = "sent"]}
    /\ UNCHANGED <<row, page, standing, fix, unplaced, undone, count>>

\* place_entity
ServePin ==
    /\ pin.step = "sent" /\ pin' = [pin EXCEPT !.step = "stored"]
    /\ row' = [row EXCEPT ![pin.of].at = pin.to]
    /\ UNCHANGED <<page, standing, fix, unplaced, undone, count>>

PinAnswered ==
    /\ pin.step = "stored" /\ pin' = NoPin /\ unplaced' = unplaced \ {pin.of}
    /\ UNCHANGED <<row, page, standing, fix, undone, count>>

PinFails ==
    /\ pin.step \in {"sent", "stored"} /\ pin' = NoPin
    /\ UNCHANGED <<row, page, standing, fix, unplaced, undone, count>>

-----------------------------------------------------------------------------
Next ==
    \/ Reload \/ Type \/ Close \/ Submit \/ Saved \/ SaveFails
    \/ Walk \/ Settle \/ LoadUnplaced \/ Answer \/ ServePin \/ PinAnswered \/ PinFails
    \/ \E n \in Nodes : Edit(n) \/ PinHere(n)

Spec == Init /\ [][Next]_vars

-----------------------------------------------------------------------------
(* Nothing rough is stored that the technician was not asked about.        *)
RoughIsAsked == \A n \in Nodes : pin = NoPin /\ pin'.step = "sent" => fix.sure # "rough"

(* A node leaves the phone's list only with coordinates of its own.        *)
GoneIsPlaced == \A n \in unplaced \ unplaced' : row[n].at # "none"

(* An edit of other fields leaves the coordinates the node has.            *)
PinSurvivesEdit == ~undone

(* What is pinned is where the technician stood.                           *)
PinnedWhereStanding == pin # NoPin => pin.to = pin.at
==============================================================================
