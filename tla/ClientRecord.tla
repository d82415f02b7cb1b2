---------------------------- MODULE ClientRecord -----------------------------
(***************************************************************************)
(* ClientDetail: one subscriber's page.  It reads the record, connects and *)
(* disconnects, reveals and resets the password and deletes; every call is *)
(* for the client of the address bar, every answer goes into the one page, *)
(* which stays mounted when the address moves on to another client.        *)
(***************************************************************************)
EXTENDS Naturals, FiniteSets

CONSTANTS Clients,
          Moving,       \* whether the browser jumps from one client to another
          Losses,       \* whether answers get lost
          MaxPassword,  \* bound: passwords given out
          MaxLoads,     \* bound: reads of the record under way
          MaxCalls      \* bound: other requests under way

RecordAssumption ==
    {Moving, Losses} \subseteq BOOLEAN /\ {MaxPassword, MaxLoads, MaxCalls} \subseteq Nat

VARIABLES
    db,        \* server: status and password of each client, or gone
    at,        \* customerId of the address, or another page
    client,    \* the record shown: whose, and the status in it
    loading,
    loads,     \* reads under way
    calls,     \* other requests under way, at most one of a kind
    password,  \* radiusPassword: whose it is, and which
    modal      \* whose name the deletion asks about

pageVars == <<at, client, loading, loads, calls, password, modal>>
vars == <<db, pageVars>>

Statuses == {"active", "suspended", "gone"}
Kinds == {"access", "reveal", "reset", "delete"}
Nobody == [of |-> "nobody", status |-> "gone"]
Hidden == [of |-> "nobody", pw |-> 0]

TypeOK ==
    /\ db \in [Clients -> [status : Statuses, pw : 0 .. MaxPassword]]
    /\ at \in Clients \cup {"list"} /\ loading \in BOOLEAN
    /\ client \in [of : Clients, status : Statuses] \cup {Nobody}
    /\ \A l \in loads : l.of \in Clients /\ l.status \in Statuses
    /\ \A k \in Kinds : Cardinality({c \in calls : c.kind = k}) <= 1
    /\ password = Hidden \/ password \in [of : Clients, pw : 1 .. MaxPassword]
    /\ modal \in Clients \cup {"closed"}
    /\ at = "list" => client = Nobody /\ loads = {} /\ password = Hidden

Busy(k) == Cardinality(calls) = MaxCalls \/ \E c \in calls : c.kind = k

\* A read is asked for; the page is a spinner until one of them ends.
Read(c) == loads \cup {[of |-> c, at |-> "sent", status |-> "gone"]}

Init ==
    /\ db \in [Clients -> [status : Statuses \ {"gone"}, pw : {1}]]
    /\ at \in Clients /\ client = Nobody /\ loading = TRUE
    /\ loads = {[of |-> at, at |-> "sent", status |-> "gone"]} /\ calls = {}
    /\ password = Hidden /\ modal = "closed"

\* Mounted anew from another page, when nothing of the last visit is under way.
Enter(c) ==
    /\ at = "list" /\ calls = {} /\ at' = c /\ loading' = TRUE
    /\ loads' = {[of |-> c, at |-> "sent", status |-> "gone"]}
    /\ UNCHANGED <<db, client, calls, password, modal>>

\* navigate('/clients'): the page and all it holds go.
Left == /\ at' = "list" /\ client' = Nobody /\ loading' = FALSE /\ loads' = {}
        /\ password' = Hidden /\ modal' = "closed"

\* The address changes under the mounted page.
Jump(c) ==
    /\ Moving /\ at \notin {"list", c} /\ Cardinality(loads) < MaxLoads
    /\ at' = c /\ loads' = Read(c) /\ loading' = TRUE
    /\ UNCHANGED <<db, client, calls, password, modal>>

ServeLoad(l) ==
    /\ l.at = "sent"
    /\ loads' = (loads \ {l}) \cup {[l EXCEPT !.at = "read", !.status = db[l.of].status]}
    /\ UNCHANGED <<db, at, client, loading, calls, password, modal>>

LoadArrives(l) ==
    /\ l.at = "read"
    /\ IF l.status = "gone"
       THEN Left
       ELSE /\ loads' = loads \ {l} /\ loading' = FALSE
            /\ client' = [of |-> l.of, status |-> l.status]
            /\ UNCHANGED <<at, password, modal>>
    /\ UNCHANGED <<db, calls>>

LoadFails(l) == Losses /\ l \in loads /\ Left /\ UNCHANGED <<db, calls>>

-----------------------------------------------------------------------------
\* The page and its buttons are there when nothing is being read.
Ready == at # "list" /\ ~loading /\ client # Nobody

Call(k, what) == calls \cup {[kind |-> k, what |-> what, of |-> at, at |-> "sent", pw |-> 0, named |-> client.of]}

\* Connect or Disconnect, whichever the status shown offers.
ToggleAccess ==
    /\ Ready /\ modal = "closed" /\ ~Busy("access")
    /\ calls' = Call("access", IF client.status = "active" THEN "suspended" ELSE "active")
    /\ UNCHANGED <<db, at, client, loading, loads, password, modal>>

Reveal ==
    /\ Ready /\ modal = "closed" /\ ~Busy("reveal")
    /\ IF password # Hidden
       THEN password' = Hidden /\ UNCHANGED calls
       ELSE calls' = Call("reveal", "read") /\ UNCHANGED password
    /\ UNCHANGED <<db, at, client, loading, loads, modal>>

Reset ==
    /\ Ready /\ modal = "closed" /\ ~Busy("reset") /\ db[at].pw < MaxPassword
    /\ calls' = Call("reset", "write")
    /\ UNCHANGED <<db, at, client, loading, loads, password, modal>>

AskDelete ==
    /\ Ready /\ modal = "closed" /\ modal' = client.of
    /\ UNCHANGED <<db, at, client, loading, loads, calls, password>>

\* The dialog names the record that is shown.
Cancel ==
    /\ Ready /\ modal # "closed" /\ ~Busy("delete") /\ modal' = "closed"
    /\ UNCHANGED <<db, at, client, loading, loads, calls, password>>

ConfirmDelete ==
    /\ Ready /\ modal # "closed" /\ ~Busy("delete") /\ calls' = Call("delete", "gone")
    /\ UNCHANGED <<db, at, client, loading, loads, password, modal>>

\* connect_client, disconnect_client, the credentials and delete_customer.
ServeCall(c) ==
    /\ c.at = "sent"
    /\ \/ /\ db[c.of].status = "gone"
          /\ calls' = (calls \ {c}) \cup {[c EXCEPT !.at = "refused"]} /\ UNCHANGED db
       \/ /\ db[c.of].status # "gone"
          /\ db' = [db EXCEPT ![c.of] =
               [status |-> IF c.kind \in {"access", "delete"} THEN c.what ELSE @.status,
                pw |-> IF c.kind = "reset" THEN @.pw + 1 ELSE @.pw]]
          /\ calls' = (calls \ {c}) \cup {[c EXCEPT !.at = "done", !.pw = db'[c.of].pw]}
    /\ UNCHANGED <<at, client, loading, loads, password, modal>>

\* After a success the handler reads the client it was made for.
AccessAnswered(c) ==
    /\ c.kind = "access" /\ c.at \in {"done", "refused"} /\ calls' = calls \ {c}
    /\ IF c.at = "done" /\ at # "list"
       THEN Cardinality(loads) < MaxLoads /\ loads' = Read(c.of) /\ loading' = TRUE
       ELSE UNCHANGED <<loads, loading>>
    /\ UNCHANGED <<db, at, client, password, modal>>

\* Whose and which password: the last answer of the two calls is shown.
PasswordAnswered(c) ==
    /\ c.kind \in {"reveal", "reset"} /\ c.at \in {"done", "refused"} /\ calls' = calls \ {c}
    /\ password' = IF c.at = "done" /\ at # "list" THEN [of |-> c.of, pw |-> c.pw] ELSE password
    /\ UNCHANGED <<db, at, client, loading, loads, modal>>

DeleteAnswered(c) ==
    /\ c.kind = "delete" /\ c.at \in {"done", "refused"} /\ calls' = calls \ {c}
    /\ IF c.at = "done" THEN Left
       ELSE modal' = "closed" /\ UNCHANGED <<at, client, loading, loads, password>>
    /\ UNCHANGED db

\* No answer: an error, and the button again.
CallLost(c) ==
    /\ Losses /\ c \in calls /\ calls' = calls \ {c}
    /\ modal' = IF c.kind = "delete" THEN "closed" ELSE modal
    /\ UNCHANGED <<db, at, client, loading, loads, password>>

Next ==
    \/ \E c \in Clients : Enter(c) \/ Jump(c)
    \/ \E l \in loads : ServeLoad(l) \/ LoadArrives(l) \/ LoadFails(l)
    \/ ToggleAccess \/ Reveal \/ Reset \/ AskDelete \/ Cancel \/ ConfirmDelete
    \/ \E c \in calls : \/ ServeCall(c) \/ CallLost(c)
                        \/ AccessAnswered(c) \/ PasswordAnswered(c) \/ DeleteAnswered(c)

Spec == Init /\ [][Next]_vars

\* What goes on by itself: what was asked for is answered, and handled.
Answers == \E l \in loads : ServeLoad(l) \/ LoadArrives(l)
Work == \E c \in calls : ServeCall(c) \/ AccessAnswered(c) \/ PasswordAnswered(c) \/ DeleteAnswered(c)

-----------------------------------------------------------------------------
\* With nobody else at work and no answer lost, the status shown is the stored
\* one whenever the page is at rest, so its button does what it says.
StatusShownIsStored == Ready /\ calls = {} => client = [of |-> at, status |-> db[at].status]

\* The spinner ends: the page shows a record, or is left.
PageSettles == ~loading

-----------------------------------------------------------------------------
\* Said in the sources and not so in the code: no run checks what follows, and
\* the README tells how each of them is broken.

\* ConfirmDelete names the client it deletes: "{client.name} and all
\* associated" records.
DeletesWhoIsNamed == \A c \in calls : c.kind = "delete" => c.named = c.of

\* "Reveal a client's PPPoE/hotspot login (username + stored password)": of
\* the client that is shown,
PasswordIsOfClient == Ready /\ password # Hidden => password.of = client.of

\* and the stored one, when nothing is under way and nobody else resets it.
PasswordIsStored ==
    Ready /\ calls = {} /\ password # Hidden => password.pw = db[password.of].pw
=============================================================================
