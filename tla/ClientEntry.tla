----------------------------- MODULE ClientEntry -----------------------------
(***************************************************************************)
(* ClientForm: a new PPPoE subscriber.  The packages arrive while the form *)
(* is filled in; creating the account may go unanswered and be tried again.*)
(***************************************************************************)
EXTENDS Naturals, FiniteSets

CONSTANTS Logins,    \* usernames that are typed
          Plans,     \* active packages
          Losses,    \* whether requests or answers get lost
          MaxTries   \* bound: presses of Create

EntryAssumption == Losses \in BOOLEAN /\ MaxTries \in Nat

VARIABLES
    accounts,    \* server: accounts by login: status, plan and password
    plans,       \* the packages read, or not yet
    form,        \* username, package, connect_on_create and the password
    call,        \* the request under way, with its form and its answer
    credentials, \* what the last screen shows
    done, tries  \* the form was left after a success; presses of Create

vars == <<accounts, plans, form, call, credentials, done, tries>>

Passwords == {"auto", "chosen"}
NoForm == [login |-> "", plan |-> "", connect |-> TRUE, password |-> "auto"]
Forms == [login : Logins \cup {""}, plan : Plans \cup {""}, connect : BOOLEAN, password : Passwords]
Account == [login : Logins, status : {"active", "pending"}, plan : Plans, password : Passwords \cup {"none"}]

TypeOK ==
    /\ accounts \subseteq Account /\ plans \in {"unread", "read", "failed"} /\ form \in Forms
    /\ call.at \in {"none", "sent", "done", "refused"} /\ call.of \in Forms
    /\ credentials \subseteq Account /\ Cardinality(credentials) <= 1
    /\ done \in BOOLEAN /\ tries \in 0 .. MaxTries
    /\ call.at # "none" => call.of.plan # "" /\ call.of.login # ""

Init ==
    /\ accounts \in {{}} \cup {{a} : a \in [login : Logins, status : {"active"}, plan : Plans, password : {"auto"}]}
    /\ plans = "unread" /\ form = NoForm /\ call = [at |-> "none", of |-> NoForm]
    /\ credentials = {} /\ done = FALSE /\ tries = 0

\* The first package of the list is preselected, over what the form had.
PlansArrive ==
    /\ plans = "unread"
    /\ \/ plans' = "read" /\ \E p \in Plans : form' = [form EXCEPT !.plan = p]
       \/ plans' = "failed" /\ UNCHANGED form
    /\ UNCHANGED <<accounts, call, credentials, done, tries>>

\* The fields stay open while a request is under way.
Type ==
    /\ ~done /\ credentials = {}
    /\ \/ \E l \in Logins : form' = [form EXCEPT !.login = l]
       \/ \E p \in Plans : plans = "read" /\ form' = [form EXCEPT !.plan = p]
       \/ form' = [form EXCEPT !.connect = ~@]
       \/ \E w \in Passwords : form' = [form EXCEPT !.password = w]
    /\ UNCHANGED <<accounts, plans, call, credentials, done, tries>>

Submit ==
    /\ call.at = "none" /\ ~done /\ credentials = {} /\ tries < MaxTries
    /\ plans = "read" /\ form.plan # "" /\ form.login # ""
    /\ call' = [at |-> "sent", of |-> form] /\ tries' = tries + 1
    /\ UNCHANGED <<accounts, plans, form, credentials, done>>

\* The password is stored with the RADIUS rows, for a connected account only.
Created(f) ==
    [login |-> f.login, plan |-> f.plan, status |-> IF f.connect THEN "active" ELSE "pending",
     password |-> IF f.connect THEN f.password ELSE "none"]

\* create_customer.
Serve ==
    /\ call.at = "sent" /\ call.of.plan # ""
    /\ IF \E a \in accounts : a.login = call.of.login
       THEN call' = [call EXCEPT !.at = "refused"] /\ UNCHANGED accounts
       ELSE accounts' = accounts \cup {Created(call.of)} /\ call' = [call EXCEPT !.at = "done"]
    /\ UNCHANGED <<plans, form, credentials, done, tries>>

Finish == call' = [at |-> "none", of |-> NoForm] /\ UNCHANGED <<accounts, plans, form, tries>>

\* The credentials of a connected account are shown; else back to the list.
Answered ==
    /\ call.at \in {"done", "refused"} /\ Finish
    /\ CASE call.at = "refused" -> UNCHANGED <<credentials, done>>
         [] call.at = "done" /\ call.of.connect -> credentials' = {Created(call.of)} /\ UNCHANGED done
         [] OTHER -> done' = TRUE /\ UNCHANGED credentials

Lost ==
    /\ Losses /\ call.at # "none" /\ Finish
    /\ accounts' = accounts /\ UNCHANGED <<credentials, done>>

\* Done, on the screen with the credentials.
Leave ==
    /\ credentials # {} /\ credentials' = {} /\ done' = TRUE
    /\ UNCHANGED <<accounts, plans, form, call, tries>>

Next == PlansArrive \/ Type \/ Submit \/ Serve \/ Answered \/ Lost \/ Leave

Spec == Init /\ [][Next]_vars

-----------------------------------------------------------------------------
\* A login belongs to one account, however often Create is tried.
OneAccountPerLogin == \A a, b \in accounts : a.login = b.login => a = b

\* The credentials on screen are those stored.
CredentialsAreStored == credentials \subseteq accounts

-----------------------------------------------------------------------------
\* Said in the sources and not so in the code: no run checks what follows, and
\* the README tells how each of them is broken.

\* ClientForm, of a password that is chosen: "This is also the subscriber's
\* portal login password."
ChosenPasswordIsKept ==
    call.at = "done" /\ call.of.password = "chosen" =>
        \E a \in accounts : a.login = call.of.login /\ a.password = "chosen"
=============================================================================
