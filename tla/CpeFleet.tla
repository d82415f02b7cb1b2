------------------------------ MODULE CpeFleet ------------------------------
(***************************************************************************)
(* The fleet page of the ACS (components/tr069/Tr069FleetPage.jsx) and the  *)
(* enrolment dialog (Tr069EnrollDialog.jsx), with the rows they work on.    *)
(* One unit is followed. A row's identity is serial_key, which the dialog   *)
(* builds from what was typed and the ACS from what the unit reports: a     *)
(* form without OUI and product class gives another key ("bare") than the   *)
(* unit's own ("full").                                                     *)
(***************************************************************************)
EXTENDS Integers, FiniteSets, SequencesExt

CONSTANTS
    Typed,          \* the keys the operator may type, subset of Keys
    AllowUnknown,   \* TR069_ALLOW_UNKNOWN
    MaxOut,         \* bound: requests out together
    Lossy           \* requests may fail, answers may be lost

Keys == {"full", "bare"}
CpeFleetAssumption == Typed \subseteq Keys /\ MaxOut \in Nat \ {0} /\ Lossy \in BOOLEAN

VARIABLES
    rows,       \* key -> "none", "pending", "active": the cpe_devices
    list,       \* devices as shown, the same shape, or everything "none"
    loading,
    actionId,   \* the row whose buttons are off, "none" for none
    reqs,       \* requests out: [op, key, read, done]
    dialog,     \* "closed", "form", "saving", "handoff"
    seen        \* history: keys whose enrolment credentials were shown

vars == <<rows, list, loading, actionId, reqs, dialog, seen>>
NoRows == [k \in Keys |-> "none"]
Statuses == {"none", "pending", "active"}
Requests == [op : {"load", "approve", "reject", "refresh", "enroll"},
             key : Keys \cup {"none"}, read : [Keys -> Statuses], done : BOOLEAN]
Request(op, key) == [op |-> op, key |-> key, read |-> NoRows, done |-> FALSE]

Init ==
    /\ rows = NoRows
    /\ list = NoRows
    /\ loading = TRUE
    /\ actionId = "none"
    /\ reqs = {Request("load", "none")}
    /\ dialog = "closed"
    /\ seen = {}

\* load of a mount, of Reload and of every action that ends well.
Load(out) == loading' = TRUE /\ reqs' = out \cup {Request("load", "none")}

MayAct == Cardinality(reqs) < MaxOut

-----------------------------------------------------------------------------
(* The page. *)

Reload ==
    /\ MayAct
    /\ Load(reqs)
    /\ UNCHANGED <<rows, list, actionId, dialog, seen>>

\* Approve and Reject of the inbox, Approve and Refresh of a card or row. The
\* inbox stays while the fleet is loading; the cards do not.
Act(op, k) ==
    /\ MayAct
    /\ actionId # k
    /\ list[k] = (IF op = "refresh" THEN "active" ELSE "pending")
    /\ op = "refresh" => ~loading
    /\ actionId' = k
    /\ reqs' = reqs \cup {Request(op, k)}
    /\ UNCHANGED <<rows, list, loading, dialog, seen>>

OpenDialog ==
    /\ dialog = "closed"
    /\ dialog' = "form"
    /\ UNCHANGED <<rows, list, loading, actionId, reqs, seen>>

\* The backdrop, the cross, Cancel and Done all close, also while saving and
\* on the hand-off screen.
CloseDialog ==
    /\ dialog # "closed"
    /\ dialog' = "closed"
    /\ UNCHANGED <<rows, list, loading, actionId, reqs, seen>>

Submit(k) ==
    /\ dialog = "form" /\ MayAct
    /\ dialog' = "saving"
    /\ reqs' = reqs \cup {Request("enroll", k)}
    /\ UNCHANGED <<rows, list, loading, actionId, seen>>

-----------------------------------------------------------------------------
(* The server and the unit. *)

\* create_enrollment answers 409 for a key that has a row.
Refused(r) == \/ r.op = "enroll" /\ rows[r.key] # "none"
              \/ r.op \in {"approve", "reject", "refresh"} /\ rows[r.key] = "none"
              \/ r.op = "refresh" /\ rows[r.key] = "pending"

Stored(r) ==
    CASE r.op \in {"approve", "enroll"} -> [rows EXCEPT ![r.key] = "active"]
      [] r.op = "reject" -> [rows EXCEPT ![r.key] = "none"]
      [] OTHER -> rows

Serve(r) ==
    /\ ~r.done /\ ~Refused(r)
    /\ rows' = Stored(r)
    /\ reqs' = (reqs \ {r}) \cup {[r EXCEPT !.done = TRUE, !.read = rows]}
    /\ UNCHANGED <<list, loading, actionId, dialog, seen>>

\* The unit's Inform: let in with the credentials of any row, or unknown where
\* that is allowed; found by its own identity, else a new pending row.
Inform ==
    /\ AllowUnknown \/ rows # NoRows
    /\ rows["full"] = "none"
    /\ rows' = [rows EXCEPT !["full"] = "pending"]
    /\ UNCHANGED <<list, loading, actionId, reqs, dialog, seen>>

-----------------------------------------------------------------------------
(* The answers. *)

Freed == actionId' = "none"     \* the finally of any action

LoadAnswered(r) ==
    /\ r.op = "load" /\ r.done
    /\ list' = r.read
    /\ loading' = FALSE
    /\ reqs' = reqs \ {r}
    /\ UNCHANGED <<rows, actionId, dialog, seen>>

\* approve and reject wait for the reload before the finally; it is taken with
\* the answer here, refresh has none.
ActAnswered(r) ==
    /\ r.op \in {"approve", "reject", "refresh"} /\ r.done
    /\ Freed
    /\ IF r.op = "refresh" THEN reqs' = reqs \ {r} /\ UNCHANGED loading
                           ELSE Load(reqs \ {r})
    /\ UNCHANGED <<rows, list, dialog, seen>>

\* setCredentials reaches only the dialog that sent the form.
Enrolled(r) ==
    /\ r.op = "enroll" /\ r.done
    /\ IF dialog = "saving" THEN dialog' = "handoff" /\ seen' = seen \cup {r.key}
                            ELSE UNCHANGED <<dialog, seen>>
    /\ Load(reqs \ {r})
    /\ UNCHANGED <<rows, list, actionId>>

\* Refused, or lost. A load that fails empties the page.
Fails(r) ==
    /\ Lossy \/ (~r.done /\ Refused(r))
    /\ reqs' = reqs \ {r}
    /\ IF r.op = "load" THEN list' = NoRows /\ loading' = FALSE
                        ELSE UNCHANGED <<list, loading>>
    /\ IF r.op \in {"approve", "reject", "refresh"} THEN Freed ELSE UNCHANGED actionId
    /\ dialog' = IF r.op = "enroll" /\ dialog = "saving" THEN "form" ELSE dialog
    /\ UNCHANGED <<rows, seen>>

Answer(r) == LoadAnswered(r) \/ ActAnswered(r) \/ Enrolled(r) \/ Fails(r)

Next ==
    \/ Reload \/ OpenDialog \/ CloseDialog
    \/ \E k \in Keys : \E op \in {"approve", "reject", "refresh"} : Act(op, k)
    \/ \E k \in Typed : Submit(k)
    \/ \E r \in reqs : Serve(r) \/ Answer(r)
    \/ Inform

Spec == Init /\ [][Next]_vars

\* What goes on by itself: a unit in the field informs and the server answers.
Asks == Inform
Answers == \E r \in reqs : Serve(r) \/ Answer(r)

-----------------------------------------------------------------------------
TypeOK ==
    /\ {rows, list} \subseteq [Keys -> Statuses]
    /\ loading \in BOOLEAN
    /\ actionId \in Keys \cup {"none"}
    /\ reqs \subseteq Requests
    /\ dialog \in {"closed", "form", "saving", "handoff"}
    /\ seen \subseteq Keys

\* A page at rest shows no device as waiting for approval that was approved, and
\* none at all that was rejected and has not come back.
RestShowsRows ==
    reqs = {} => \A k \in Keys : list[k] = "pending" => rows[k] = "pending"

\* The spinner is over once nothing is out.
LoadingEnds == loading => \E r \in reqs : r.op = "load"

\* "If it keeps informing it will reappear here as pending" (Tr069FleetPage.jsx:264).
RejectedReturns == (AllowUnknown \/ rows["bare"] = "active") => rows["full"] # "none"

-----------------------------------------------------------------------------
\* Said in the sources and not so in the code: no run checks what follows, and
\* the README tells how each of them is broken.

\* "It arrives active, skipping the approval queue" (Tr069EnrollDialog.jsx:112):
\* no row is opened as pending for a unit that was enrolled.
EnrolledSkipsQueue ==
    (\E k \in Keys : rows[k] = "active") /\ rows["full"] = "none"
           => rows'["full"] # "pending"

\* "if it is lost the device has to be re-enrolled" (Tr069EnrollDialog.jsx:104):
\* an enrolment of a row whose password nobody saw is not refused.
LostIsReenrolled ==
    \A r \in reqs : r.op = "enroll" /\ ~r.done /\ rows[r.key] = "active"
                        => r.key \in seen
=============================================================================
