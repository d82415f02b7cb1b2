-------------------------- MODULE SubscriptionGate --------------------------
(***************************************************************************)
(* What the console lets a tenant see: SubscriptionProvider keeps the      *)
(* server's last word on the subscription, SubscriptionGate shows every    *)
(* page, or the subscription page only, by it.  The word comes with the    *)
(* answers to refreshes and with the 402 of any other call, in whatever    *)
(* order they arrive; PlatformSubscription models the server's side.       *)
(***************************************************************************)
EXTENDS Naturals, FiniteSets

CONSTANTS Users,        \* administrators of different tenants
          MaxRequests,  \* bound: calls outstanding
          CanSwitch,    \* whether users sign out and in, and bills fall due
          MayFail       \* whether a refresh may fail

GateAssumption == MaxRequests \in Nat /\ CanSwitch \in BOOLEAN /\ MayFail \in BOOLEAN

VARIABLES
    user,      \* who is signed in
    state,     \* the subscription in context: Unknown, or whether it is locked
    loaded,    \* context: an answer came, or the watchdog fired
    armed,     \* the watchdog's timer
    requests,  \* refreshes and other calls under way, served or not
    page,      \* where the router is: a console page or the subscription page
    locked,    \* server: the tenants whose bill is unpaid
    noticed,   \* the subscription page saw its payment, and has not refreshed yet
    heard      \* the user signed in last was answered, or the watchdog fired

vars == <<user, state, loaded, armed, requests, page, locked, noticed, heard>>

NoUser == "nobody"
Unknown == "unknown"
Requests == [kind : {"refresh", "call"}, user : Users, answer : {"none", "open", "locked"}]

TypeOK ==
    /\ user \in Users \cup {NoUser}
    /\ state \in {Unknown, "open", "locked"} /\ loaded \in BOOLEAN /\ armed \in BOOLEAN
    /\ requests \subseteq Requests
    /\ page \in {"console", "subscription"}
    /\ locked \subseteq Users /\ heard \in BOOLEAN /\ noticed \in BOOLEAN
    /\ user = NoUser => ~armed

Init ==
    /\ user = NoUser /\ state = Unknown /\ loaded = FALSE /\ armed = FALSE
    /\ requests = {} /\ page = "console"
    /\ locked \in SUBSET Users
    /\ heard = FALSE /\ noticed = FALSE

Ask(kind, u) == requests \cup {[kind |-> kind, user |-> u, answer |-> "none"]}

\* SubscriptionGate: nothing, every page, or the pages a locked tenant keeps.
Shown ==
    CASE user = NoUser -> "login"
      [] user # NoUser /\ ~loaded -> "spinner"
      [] user # NoUser /\ loaded /\ state # "locked" -> "console"
      [] OTHER -> "paywall"

-----------------------------------------------------------------------------
\* The effect of a new user.  Signing in over another session does not pass
\* through nobody, and resets nothing.
SignIn(u) ==
    /\ u # user /\ (user = NoUser \/ CanSwitch)
    /\ user' = u /\ armed' = TRUE /\ heard' = FALSE /\ noticed' = FALSE
    /\ requests' = Ask("refresh", u)
    /\ UNCHANGED <<state, loaded, page, locked>>

\* Faulty variant: the effect has no cleanup.
SignOutArmed ==
    /\ user # NoUser /\ CanSwitch
    /\ user' = NoUser /\ state' = Unknown /\ loaded' = FALSE /\ noticed' = FALSE
    /\ UNCHANGED <<armed, requests, page, locked, heard>>

SignOut ==
    /\ user # NoUser /\ CanSwitch
    /\ user' = NoUser /\ state' = Unknown /\ loaded' = FALSE
    /\ armed' = FALSE /\ noticed' = FALSE
    /\ UNCHANGED <<requests, page, locked, heard>>

Watchdog ==
    /\ armed
    /\ armed' = FALSE /\ loaded' = TRUE /\ heard' = TRUE
    /\ UNCHANGED <<user, state, requests, page, locked, noticed>>

\* The subscription page refreshes once, when its poll says paid; any page
\* makes calls.
Refresh ==
    /\ noticed
    /\ noticed' = FALSE
    /\ requests' = Ask("refresh", user)
    /\ UNCHANGED <<user, state, loaded, armed, page, locked, heard>>

CallApi ==
    /\ Shown \in {"console", "paywall"}
    /\ Cardinality({r \in requests : r.kind = "call"}) < MaxRequests
    /\ requests' = Ask("call", user)
    /\ UNCHANGED <<user, state, loaded, armed, page, locked, noticed, heard>>

\* The server answers with what holds now; the subscription's own endpoint is
\* open to a locked tenant, every other one is a 402.
Serve(r) ==
    /\ r.answer = "none"
    /\ requests' = (requests \ {r}) \cup
           {[r EXCEPT !.answer = IF r.user \in locked THEN "locked" ELSE "open"]}
    /\ UNCHANGED <<user, state, loaded, armed, page, locked, noticed, heard>>

\* Router: a locked tenant elsewhere is sent to the subscription page.
Route(newState, isLoaded) ==
    IF user # NoUser /\ isLoaded /\ newState = "locked" THEN "subscription" ELSE page

RefreshAnswered(r) ==
    /\ r.kind = "refresh" /\ r.answer # "none"
    /\ requests' = requests \ {r}
    /\ state' = r.answer /\ loaded' = TRUE
    /\ page' = Route(r.answer, TRUE)
    /\ heard' = (heard \/ r.user = user)
    /\ UNCHANGED <<user, armed, locked, noticed>>

\* Fail open: the state stays what it was.
RefreshFailed(r) ==
    /\ MayFail /\ r.kind = "refresh"
    /\ requests' = requests \ {r}
    /\ loaded' = TRUE
    /\ page' = Route(state, TRUE)
    /\ heard' = (heard \/ r.user = user)
    /\ UNCHANGED <<user, state, armed, locked, noticed>>

\* Faulty variant: a 402 is an error like any other.
CallAnsweredQuietly(r) ==
    /\ r.kind = "call" /\ r.answer # "none"
    /\ requests' = requests \ {r}
    /\ UNCHANGED <<user, state, loaded, armed, page, locked, noticed, heard>>

\* onLock: the 402 of whatever call carries the state.
CallAnswered(r) ==
    /\ r.kind = "call" /\ r.answer # "none"
    /\ requests' = requests \ {r}
    /\ state' = IF r.answer = "locked" THEN "locked" ELSE state
    /\ page' = Route(state', loaded)
    /\ UNCHANGED <<user, loaded, armed, locked, noticed, heard>>

\* The bill falls due; it is paid, by the user on the subscription page or by
\* a tenant who is not looking.
Lapse(u) ==
    /\ u \notin locked /\ CanSwitch
    /\ locked' = locked \cup {u}
    /\ UNCHANGED <<user, state, loaded, armed, requests, page, noticed, heard>>

Settle(u) ==
    /\ u \in locked /\ (u = user => Shown = "paywall")
    /\ locked' = locked \ {u}
    /\ noticed' = (noticed \/ u = user)
    /\ UNCHANGED <<user, state, loaded, armed, requests, page, heard>>

Next ==
    \/ \E u \in Users : SignIn(u) \/ Lapse(u) \/ Settle(u)
    \/ SignOut \/ Watchdog \/ Refresh \/ CallApi
    \/ \E r \in requests : Serve(r) \/ RefreshAnswered(r) \/ RefreshFailed(r) \/ CallAnswered(r)

Spec == Init /\ [][Next]_vars

\* What goes on by itself: the timer and the server, the page, the answers.
\* Calls end; of the refreshes, which are what the first paint is held for,
\* nothing is assumed.
Work == Watchdog \/ \E r \in requests : r.kind = "call" /\ Serve(r)
Asks == Refresh \/ CallApi
Answers == \E r \in requests : CallAnswered(r)

-----------------------------------------------------------------------------
\* "a request that never settles must not leave the app spinning": whoever
\* signs in sees something, even if the network answers nothing.
GateOpens == user # NoUser => Shown # "spinner"

\* A refresh that failed, or another tenant's late answer, lets an expired
\* tenant in, but only until a call the console makes is answered with a 402:
\* whoever stays signed in and unpaid meets the paywall, again and again.
CallsMeetThePaywall == user \in locked => Shown = "paywall"

-----------------------------------------------------------------------------
\* Said in the sources and not so in the code: no run checks what follows, and
\* the README tells how each of them is broken.

\* SubscriptionGate: "Hold the first paint until the answer is in."
FirstPaintIsHeld == Shown \in {"console", "paywall"} => heard

\* PlatformSubscriptionPage: "Settle the open invoice below and every page
\* unlocks immediately."
SettledUnlocks ==
    \A u \in Users : <>[](user = u /\ u \notin locked) => <>[](Shown # "paywall")
=============================================================================
