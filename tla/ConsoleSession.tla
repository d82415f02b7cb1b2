--------------------------- MODULE ConsoleSession ---------------------------
(***************************************************************************)
(* Who is signed in to the operator console, kept four times over: in the  *)
(* React state of each tab, in the tab's sessionStorage, and in the        *)
(* localStorage all tabs share, once as the user and once as bare tokens.  *)
(* A login is named by the number of the access token it was answered with.*)
(***************************************************************************)
EXTENDS Naturals, FiniteSets, TLAPS

CONSTANTS Tabs,      \* browser tabs
          Upgraded,  \* whether an older version may have left a session
          MaxLogins, \* bound: successful logins
          MaxCalls   \* bound: answers outstanding when a page makes a call

ConsoleSessionAssumption == Upgraded \in BOOLEAN /\ MaxLogins \in Nat /\ MaxCalls \in Nat

VARIABLES
    local,     \* localStorage: the user, the legacy user, the bare token
    tabs,      \* per tab: its page, React user, sessionStorage, "remember" tick
    requests,  \* calls whose answer has not come
    issued,    \* server: number of tokens issued
    valid,     \* server: tokens that have not expired
    kept       \* tokens of logins that were to be remembered

vars == <<local, tabs, requests, issued, valid, kept>>

None == 0
Legacy == MaxLogins + 1   \* a session stored by a version with the old key
Tokens == 1..Legacy
Maybe == Tokens \cup {None}

Closed == [page |-> "closed", user |-> None, session |-> None, remember |-> TRUE]
Empty == [user |-> None, legacy |-> None, token |-> None]

TypeOK ==
    /\ local \in [user : Maybe, legacy : {None, Legacy}, token : Maybe]
    /\ tabs \in [Tabs -> [page : {"closed", "login", "code", "console"}, user : Maybe,
                          session : Maybe, remember : BOOLEAN]]
    /\ requests \subseteq [tab : Tabs, kind : {"login", "call", "logout"}, token : Maybe]
    /\ issued \in 0..MaxLogins
    /\ valid \subseteq Tokens /\ kept \subseteq Tokens
    /\ \A t \in Tabs : tabs[t].page = "closed" => tabs[t] = Closed

Init ==
    /\ local \in IF Upgraded THEN {Empty, [Empty EXCEPT !.legacy = Legacy]} ELSE {Empty}
    /\ tabs = [t \in Tabs |-> Closed]
    /\ requests = {}
    /\ issued = 0 /\ valid = (IF Upgraded THEN {Legacy} ELSE {}) /\ kept = valid

Other(t) == {r \in requests : r.tab # t}
First(a, b) == IF a # None THEN a ELSE b

\* Faulty variant: the shared store is read first.
StoredUserLocalFirst(t) == First(First(local.user, local.legacy), tabs[t].session)

\* readStoredUser: the tab's own store shadows the shared one.
StoredUser(t) == First(tabs[t].session, First(local.user, local.legacy))

\* getAccessToken, read anew for every call a page makes.  adminToken, its last
\* resort, is only ever stored and cleared together with token.
AccessToken(t) == First(StoredUser(t), local.token)

-----------------------------------------------------------------------------
\* AuthProvider mounts on page: sign in from the stores, bring a remembered
\* legacy session forward, verify in the background.  No answer signs out: the
\* retry with the refresh token waits for a rejection verifyToken never makes.
MountBringing(t, page, forward) ==
    LET found == StoredUser(t) IN
    /\ tabs' = [tabs EXCEPT ![t] = [@ EXCEPT !.user = found, !.remember = TRUE,
           !.page = IF page = "console" /\ found = None THEN "login" ELSE page]]
    /\ local' = IF forward THEN [local EXCEPT !.user = found] ELSE local
    /\ requests' = Other(t) \cup
           (IF found = None THEN {} ELSE {[tab |-> t, kind |-> "call", token |-> found]})
    /\ UNCHANGED <<issued, valid, kept>>

Mount(t, page) ==
    MountBringing(t, page,
        local.legacy # None /\ local.user = None /\ tabs[t].session = None)

\* A new tab, a reload, or an address typed into a tab.
Open(t) == \E page \in {"login", "console"} : Mount(t, page)

Close(t) ==
    /\ tabs[t].page # "closed"
    /\ tabs' = [tabs EXCEPT ![t] = Closed]
    /\ requests' = Other(t)
    /\ UNCHANGED <<local, issued, valid, kept>>

-----------------------------------------------------------------------------
Tick(t) ==
    /\ tabs[t].page = "login"
    /\ tabs' = [tabs EXCEPT ![t].remember = ~@]
    /\ UNCHANGED <<local, requests, issued, valid, kept>>

\* The button is disabled while a login runs.
SubmitLogin(t) ==
    /\ tabs[t].page \in {"login", "code"}
    /\ ~ \E r \in requests : r.tab = t /\ r.kind = "login"
    /\ requests' = requests \cup {[tab |-> t, kind |-> "login", token |-> None]}
    /\ UNCHANGED <<local, tabs, issued, valid, kept>>

Answered(r, kind) == r.kind = kind /\ requests' = requests \ {r}

LoginAsksForCode(r) ==
    /\ Answered(r, "login") /\ tabs[r.tab].page = "login"
    /\ tabs' = [tabs EXCEPT ![r.tab].page = "code"]
    /\ UNCHANGED <<local, issued, valid, kept>>

LoginRefused(r) ==
    /\ Answered(r, "login")
    /\ UNCHANGED <<local, tabs, issued, valid, kept>>

BackToPassword(t) ==
    /\ tabs[t].page = "code"
    /\ tabs' = [tabs EXCEPT ![t].page = "login"]
    /\ UNCHANGED <<local, requests, issued, valid, kept>>

\* writeStoredUser: one store gets the user, the other one loses it.
WriteStoredUser(token, remember, session, user) ==
    IF remember THEN [session |-> None, user |-> token] ELSE [session |-> token, user |-> None]

\* The tokens for older modules are written whatever was ticked.
LoginAccepted(r) ==
    LET t == r.tab
        token == issued + 1
        store == WriteStoredUser(token, tabs[t].remember, tabs[t].session, local.user)
    IN
    /\ Answered(r, "login") /\ issued < MaxLogins
    /\ issued' = token /\ valid' = valid \cup {token}
    /\ kept' = IF tabs[t].remember THEN kept \cup {token} ELSE kept
    /\ tabs' = [tabs EXCEPT ![t] = [@ EXCEPT !.user = token, !.session = store.session,
                                            !.page = "console"]]
    /\ local' = [local EXCEPT !.user = store.user, !.token = token]

-----------------------------------------------------------------------------
CallApi(t) ==
    /\ tabs[t].page = "console" /\ Cardinality(requests) < MaxCalls
    /\ requests' = requests \cup {[tab |-> t, kind |-> "call", token |-> AccessToken(t)]}
    /\ UNCHANGED <<local, tabs, issued, valid, kept>>

CallAnswered(r) ==
    /\ r.kind = "call" /\ r.token \in valid
    /\ requests' = requests \ {r}
    /\ UNCHANGED <<local, tabs, issued, valid, kept>>

\* handleAuthRejection on a 401: clearStoredAuth, and the tab loads /login
\* afresh unless it is there.
CallRejected(r) ==
    LET t == r.tab IN
    /\ r.kind # "login" /\ r.token \notin valid
    /\ local' = Empty
    /\ tabs' = [tabs EXCEPT ![t] =
           IF @.page = "console" THEN [Closed EXCEPT !.page = "login"]
           ELSE [@ EXCEPT !.session = None]]
    /\ requests' = IF tabs[t].page = "console" THEN Other(t) ELSE requests \ {r}
    /\ UNCHANGED <<issued, valid, kept>>

ExpireToken ==
    /\ \E token \in valid : valid' = valid \ {token}
    /\ UNCHANGED <<local, tabs, requests, issued, kept>>

\* Header.handleLogout: the API is told first, ...
Logout(t) ==
    /\ tabs[t].page = "console"
    /\ requests' = requests \cup {[tab |-> t, kind |-> "logout", token |-> tabs[t].user]}
    /\ UNCHANGED <<local, tabs, issued, valid, kept>>

\* ... and whatever came of it the shared store is cleared.
LogoutAnswered(r) ==
    /\ Answered(r, "logout")
    /\ tabs' = [tabs EXCEPT ![r.tab] = [@ EXCEPT !.user = None, !.page = "login"]]
    /\ local' = Empty
    /\ UNCHANGED <<issued, valid, kept>>

Next ==
    \/ \E t \in Tabs : Open(t) \/ Close(t) \/ Tick(t) \/ SubmitLogin(t) \/ BackToPassword(t)
                       \/ CallApi(t) \/ Logout(t)
    \/ \E r \in requests : \/ LoginAsksForCode(r) \/ LoginRefused(r) \/ LoginAccepted(r) \/ CallAnswered(r)
                           \/ CallRejected(r) \/ LogoutAnswered(r)
    \/ ExpireToken

Spec == Init /\ [][Next]_vars

-----------------------------------------------------------------------------
\* A login that was not to be remembered never becomes the remembered user of
\* localStorage, by no reload, legacy session or second tab (AuthContext:
\* copying it "would quietly undo keep me signed in: off").
OptedOutStaysOut == local.user \in kept \cup {None}

\* A tab with a login of its own store calls as that login, whatever the other
\* tabs signed in to meanwhile (authToken: it "cannot be shadowed by a stale
\* remembered one").
OptedOutCallsAsSelf ==
    \A t \in Tabs : tabs[t].page = "console" /\ tabs[t].user \notin kept
                    => AccessToken(t) = tabs[t].user

\* Where one tab is open, a call carries the token of the user on screen,
\* through any sequence of logins with and without "remember", logouts, reloads
\* and rejections.
CallsAsUserShown ==
    \A t \in Tabs : tabs[t].page = "console" => AccessToken(t) = tabs[t].user

-----------------------------------------------------------------------------
(*                                 Proofs                                  *)

\* Whoever is shown in the console has a login of the tab's own, or one that was to be
\* remembered; of these are the ones that are found in localStorage.
OptedOutInv ==
    /\ TypeOK /\ OptedOutStaysOut
    /\ local.legacy \in kept \cup {None}
    /\ \A t \in Tabs : tabs[t].page = "console" =>
           tabs[t].user # None /\ (tabs[t].user \notin kept => tabs[t].session = tabs[t].user)

\* Whoever is shown in the console is who a reload would find.
ShownInv ==
    /\ TypeOK
    /\ \A t \in Tabs : tabs[t].page = "console" =>
           tabs[t].user # None /\ StoredUser(t) = tabs[t].user

LEMMA SessionsBegin ==
    ASSUME ConsoleSessionAssumption
    PROVE  Init => OptedOutInv /\ ShownInv
<1> SUFFICES ASSUME Init PROVE OptedOutInv /\ ShownInv
  OBVIOUS
<1>1. Legacy \in Nat \ {0} /\ Legacy \in Tokens
  BY DEF ConsoleSessionAssumption, Legacy, Tokens
<1>2. TypeOK
  BY <1>1 DEF Init, ConsoleSessionAssumption, TypeOK, Empty, Closed, Maybe, None
<1>3. local.user = None /\ local.legacy \in kept \cup {None}
  BY DEF Init, Empty
<1>4. \A t \in Tabs : tabs[t].page = "closed"
  BY DEF Init, Closed
<1> QED
  BY <1>2, <1>3, <1>4 DEF OptedOutInv, ShownInv, OptedOutStaysOut

\* What each step leaves well typed.
LEMMA SessionTypes ==
    ASSUME ConsoleSessionAssumption
    PROVE  TypeOK /\ [Next]_vars => TypeOK'
<1> SUFFICES ASSUME TypeOK, [Next]_vars PROVE TypeOK'
  OBVIOUS
<1>l. /\ None \in Maybe /\ Legacy \in Maybe /\ 0..MaxLogins \subseteq Maybe
      /\ \A n \in 0..MaxLogins : n < MaxLogins => n + 1 \in Tokens /\ n + 1 \in 0..MaxLogins
      /\ Tokens \subseteq Maybe
  BY DEF ConsoleSessionAssumption, None, Maybe, Tokens, Legacy
<1> DEFINE Tab == [page : {"closed", "login", "code", "console"}, user : Maybe,
                   session : Maybe, remember : BOOLEAN]
           Local == [user : Maybe, legacy : {None, Legacy}, token : Maybe]
           Request == [tab : Tabs, kind : {"login", "call", "logout"}, token : Maybe]
<1>t. /\ local \in Local /\ tabs \in [Tabs -> Tab] /\ requests \subseteq Request
      /\ issued \in 0..MaxLogins /\ valid \subseteq Tokens /\ kept \subseteq Tokens
      /\ \A t \in Tabs : tabs[t].page = "closed" => tabs[t] = Closed
  BY DEF TypeOK
<1>c. Closed \in Tab /\ Closed.page = "closed" /\ Empty \in Local
  BY <1>l DEF Closed, Empty
<1>f. ASSUME NEW x \in Tab PROVE
          /\ \A p \in {"closed", "login", "code", "console"} :
                 [x EXCEPT !.page = p] \in Tab /\ [x EXCEPT !.page = p].page = p
          /\ \A u \in Maybe : [x EXCEPT !.user = u] \in Tab
          /\ \A u \in Maybe : [x EXCEPT !.session = u] \in Tab /\ [x EXCEPT !.session = u].page = x.page
          /\ \A b \in BOOLEAN : [x EXCEPT !.remember = b] \in Tab
  BY <1>f
\* A tab becomes w, the calls of it and what is stored change with it.
<1>1. ASSUME NEW t \in Tabs, NEW w \in Tab, tabs' = [tabs EXCEPT ![t] = w],
             w.page = "closed" => w = Closed, local' \in Local, requests' \subseteq Request,
             issued' \in 0..MaxLogins, valid' \subseteq Tokens, kept' \subseteq Tokens
      PROVE  TypeOK'
  BY <1>1, <1>t DEF TypeOK
<1>2. ASSUME UNCHANGED <<local, tabs, issued, kept>>, requests' \subseteq Request,
             valid' \subseteq Tokens
      PROVE  TypeOK'
  BY <1>2, <1>t DEF TypeOK
<1>3. ASSUME NEW t \in Tabs PROVE /\ Other(t) \subseteq Request
                                 /\ StoredUser(t) \in Maybe /\ AccessToken(t) \in Maybe
  BY <1>3, <1>t, <1>l DEF Other, StoredUser, AccessToken, First
<1>4. ASSUME NEW t \in Tabs, Open(t) PROVE TypeOK'
  <2>1. PICK page \in {"login", "console"}, forward \in BOOLEAN : MountBringing(t, page, forward)
    <3>1. (local.legacy # None /\ local.user = None /\ tabs[t].session = None) \in BOOLEAN
      OBVIOUS
    <3> QED
      BY <1>4, <3>1 DEF Open, Mount
  <2> DEFINE found == StoredUser(t)
             w == [tabs[t] EXCEPT !.user = found, !.remember = TRUE,
                       !.page = IF page = "console" /\ found = None THEN "login" ELSE page]
  <2>2. w \in Tab /\ w.page # "closed"
    BY <1>t, <1>3
  <2>3. tabs' = [tabs EXCEPT ![t] = w]
    BY <2>1 DEF MountBringing
  <2>4. local' \in Local
    BY <1>t, <1>3, <2>1 DEF MountBringing
  <2>5. requests' \subseteq Request
    BY <1>3, <2>1 DEF MountBringing
  <2> HIDE DEF w, found
  <2> QED
    BY <1>1, <1>t, <2>1, <2>2, <2>3, <2>4, <2>5 DEF MountBringing
<1>5. ASSUME NEW t \in Tabs, Close(t) PROVE TypeOK'
  BY <1>1, <1>3, <1>5, <1>t, <1>c DEF Close
<1>6. ASSUME NEW t \in Tabs, Tick(t) PROVE TypeOK'
  <2>1. tabs[t] \in Tab /\ (~tabs[t].remember) \in BOOLEAN
    BY <1>t
  <2>2. [tabs[t] EXCEPT !.remember = ~tabs[t].remember] \in Tab /\ tabs[t].page = "login"
    <3> HIDE DEF Tab
    <3> QED
      BY <1>f, <1>6, <2>1 DEF Tick
  <2>3. [tabs[t] EXCEPT !.remember = ~tabs[t].remember].page = "login"
    BY <1>t, <2>2
  <2> QED
    BY <1>1, <1>6, <1>t, <2>2, <2>3 DEF Tick
<1>7. ASSUME NEW t \in Tabs, SubmitLogin(t) PROVE TypeOK'
  BY <1>2, <1>7, <1>t, <1>l DEF SubmitLogin
<1>8. ASSUME NEW t \in Tabs, BackToPassword(t) PROVE TypeOK'
  <2>1. [tabs[t] EXCEPT !.page = "login"] \in Tab
    BY <1>t
  <2> QED
    BY <1>1, <1>8, <1>t, <2>1 DEF BackToPassword
<1>9. ASSUME NEW t \in Tabs, CallApi(t) PROVE TypeOK'
  BY <1>2, <1>3, <1>9, <1>t DEF CallApi
<1>10. ASSUME NEW t \in Tabs, Logout(t) PROVE TypeOK'
  BY <1>2, <1>10, <1>t DEF Logout
<1>11. ASSUME NEW r \in requests, LoginAsksForCode(r) PROVE TypeOK'
  <2>1. r.tab \in Tabs /\ [tabs[r.tab] EXCEPT !.page = "code"] \in Tab
    BY <1>t
  <2> QED
    BY <1>1, <1>11, <1>t, <2>1 DEF LoginAsksForCode, Answered
<1>12. ASSUME NEW r \in requests, LoginRefused(r) \/ CallAnswered(r) PROVE TypeOK'
  BY <1>2, <1>12, <1>t DEF LoginRefused, CallAnswered, Answered
<1>13. ASSUME NEW r \in requests, LoginAccepted(r) PROVE TypeOK'
  <2> DEFINE t == r.tab
             store == WriteStoredUser(issued + 1, tabs[t].remember, tabs[t].session, local.user)
             w == [tabs[t] EXCEPT !.user = issued + 1, !.session = store.session, !.page = "console"]
  <2>1. t \in Tabs /\ issued + 1 \in Tokens /\ issued + 1 \in 0..MaxLogins
    BY <1>t, <1>l, <1>13 DEF LoginAccepted
  <2>2. store.session \in Maybe /\ store.user \in Maybe
    BY <1>l, <2>1 DEF WriteStoredUser
  <2>3. w \in Tab /\ w.page # "closed"
    <3>1. tabs[t] \in Tab /\ issued + 1 \in Maybe
      BY <1>l, <1>t, <2>1
    <3> HIDE DEF Tab, t, store
    <3> QED
      BY <1>f, <2>2, <3>1
  <2>4. /\ tabs' = [tabs EXCEPT ![t] = w]
        /\ local' = [local EXCEPT !.user = store.user, !.token = issued + 1]
        /\ requests' \subseteq requests /\ issued' = issued + 1
        /\ valid' = valid \cup {issued + 1} /\ kept' \subseteq kept \cup {issued + 1}
    BY <1>13 DEF LoginAccepted, Answered
  <2>5. local' \in Local
    BY <1>l, <1>t, <2>1, <2>2, <2>4
  <2> HIDE DEF t, store, w
  <2> QED
    BY <1>1, <1>t, <2>1, <2>3, <2>4, <2>5
<1>14. ASSUME NEW r \in requests, CallRejected(r) PROVE TypeOK'
  <2> DEFINE t == r.tab
             w == IF tabs[t].page = "console" THEN [Closed EXCEPT !.page = "login"]
                  ELSE [tabs[t] EXCEPT !.session = None]
  <2>1. t \in Tabs
    BY <1>t
  <2>2. w \in Tab /\ (w.page = "closed" => w = Closed)
    <3>1. tabs[t] \in Tab /\ (tabs[t].page = "closed" => tabs[t] = Closed)
      BY <1>t, <2>1
    <3>2. [Closed EXCEPT !.session = None] = Closed
      <4>1. \A x \in Tab : x = [page |-> x.page, user |-> x.user, session |-> x.session,
                                remember |-> x.remember]
        OBVIOUS
      <4>2. [Closed EXCEPT !.session = None] \in Tab
        BY <1>c, <1>f, <1>l
      <4>3. LET c == [Closed EXCEPT !.session = None] IN
            c.page = "closed" /\ c.user = None /\ c.session = None /\ c.remember = TRUE
        BY DEF Closed
      <4> HIDE DEF Tab
      <4> QED
        BY <4>1, <4>2, <4>3 DEF Closed
    <3> HIDE DEF Tab, t
    <3>3. CASE tabs[t].page = "console"
      BY <1>c, <1>f, <3>3
    <3>4. CASE tabs[t].page # "console"
      BY <1>f, <1>l, <3>1, <3>2, <3>4
    <3> QED
      BY <3>3, <3>4
  <2>3. tabs' = [tabs EXCEPT ![t] = w] /\ local' = Empty /\ UNCHANGED <<issued, valid, kept>>
    BY <1>14 DEF CallRejected
  <2>4. requests' \subseteq Request
    BY <1>14, <1>t, <1>3, <2>1 DEF CallRejected
  <2> HIDE DEF t, w
  <2> QED
    BY <1>1, <1>t, <1>c, <2>1, <2>2, <2>3, <2>4
<1>15. ASSUME NEW r \in requests, LogoutAnswered(r) PROVE TypeOK'
  <2> DEFINE w == [tabs[r.tab] EXCEPT !.user = None, !.page = "login"]
  <2>1. r.tab \in Tabs /\ tabs[r.tab] \in Tab
    BY <1>t
  <2>2. w \in Tab /\ w.page = "login"
    <3> HIDE DEF Tab
    <3> QED
      BY <1>f, <1>l, <2>1
  <2>3. /\ tabs' = [tabs EXCEPT ![r.tab] = w] /\ local' = Empty
        /\ requests' \subseteq requests /\ UNCHANGED <<issued, valid, kept>>
    BY <1>15 DEF LogoutAnswered, Answered
  <2> HIDE DEF w
  <2> QED
    BY <1>1, <1>t, <1>c, <2>1, <2>2, <2>3
<1>16. CASE ExpireToken
  BY <1>2, <1>16, <1>t DEF ExpireToken
<1>17. CASE UNCHANGED vars
  BY <1>2, <1>17, <1>t DEF vars
<1> QED
  BY <1>4, <1>5, <1>6, <1>7, <1>8, <1>9, <1>10, <1>11, <1>12, <1>13, <1>14, <1>15, <1>16, <1>17
  DEF Next

LEMMA TokensAreNumbers ==
    ASSUME ConsoleSessionAssumption, TypeOK
    PROVE  issued + 1 # None
BY DEF ConsoleSessionAssumption, TypeOK, None

LEMMA TabIs ==
    ASSUME TypeOK, NEW t \in Tabs
    PROVE  DOMAIN tabs = Tabs /\ DOMAIN tabs[t] = {"page", "user", "session", "remember"}
BY DEF TypeOK

LEMMA LocalIs == TypeOK => DOMAIN local = {"user", "legacy", "token"}
BY DEF TypeOK

LEMMA RequestIs == ASSUME TypeOK, NEW r \in requests PROVE r.tab \in Tabs
BY DEF TypeOK

LEMMA OptedOutStep ==
    ASSUME ConsoleSessionAssumption
    PROVE  OptedOutInv /\ [Next]_vars => OptedOutInv'
<1> SUFFICES ASSUME OptedOutInv, [Next]_vars PROVE OptedOutInv'
  OBVIOUS
<1>t. TypeOK /\ TypeOK'
  BY SessionTypes DEF OptedOutInv
<1>o. /\ local.user \in kept \cup {None} /\ local.legacy \in kept \cup {None}
      /\ \A t \in Tabs : tabs[t].page = "console" =>
             tabs[t].user # None /\ (tabs[t].user \notin kept => tabs[t].session = tabs[t].user)
  BY DEF OptedOutInv, OptedOutStaysOut
\* A tab becomes w.
<1>1. ASSUME NEW t \in Tabs, NEW w, tabs' = [tabs EXCEPT ![t] = w], kept \subseteq kept',
             local'.user \in kept' \cup {None}, local'.legacy \in {local.legacy, None},
             w.page = "console" => w.user # None /\ (w.user \notin kept' => w.session = w.user)
      PROVE  OptedOutInv'
  BY <1>1, <1>t, <1>o, TabIs DEF OptedOutInv, OptedOutStaysOut
<1>2. ASSUME UNCHANGED <<local, tabs, kept>> PROVE OptedOutInv'
  BY <1>2, <1>t, <1>o DEF OptedOutInv, OptedOutStaysOut
<1>3. ASSUME NEW t \in Tabs, Open(t) PROVE OptedOutInv'
  <2> DEFINE found == StoredUser(t)
             forward == local.legacy # None /\ local.user = None /\ tabs[t].session = None
  <2>1. PICK page \in {"login", "console"} : MountBringing(t, page, forward)
    BY <1>3 DEF Open, Mount
  <2> DEFINE w == [tabs[t] EXCEPT !.user = found, !.remember = TRUE,
                       !.page = IF page = "console" /\ found = None THEN "login" ELSE page]
  <2>2. tabs' = [tabs EXCEPT ![t] = w] /\ kept' = kept
    BY <2>1 DEF MountBringing
  <2>3. w.user = found /\ w.session = tabs[t].session /\ (w.page = "console" => found # None)
    BY <1>t, TabIs
  <2>4. tabs[t].session = None => found \in kept \cup {None}
    BY <1>o DEF StoredUser, First
  <2>5. tabs[t].session # None => found = tabs[t].session
    BY DEF StoredUser, First
  <2>6. local'.user \in kept \cup {None} /\ local'.legacy = local.legacy
    BY <1>o, <1>t, <2>1, <2>4, LocalIs DEF MountBringing
  <2> HIDE DEF w, found
  <2> QED
    BY <1>1, <2>2, <2>3, <2>4, <2>5, <2>6
<1>4. ASSUME NEW t \in Tabs, Close(t) PROVE OptedOutInv'
  BY <1>1, <1>4, <1>o DEF Close, Closed
<1>5. ASSUME NEW t \in Tabs, Tick(t) \/ BackToPassword(t) PROVE OptedOutInv'
  <2>1. PICK w : tabs' = [tabs EXCEPT ![t] = w] /\ w.page # "console" /\ UNCHANGED <<local, kept>>
    <3>1. CASE Tick(t)
      <4>1. [tabs[t] EXCEPT !.remember = ~tabs[t].remember].page = "login"
        BY <1>t, <3>1, TabIs DEF Tick
      <4> QED
        BY <3>1, <4>1 DEF Tick
    <3>2. CASE BackToPassword(t)
      <4>1. [tabs[t] EXCEPT !.page = "login"].page = "login"
        BY <1>t, TabIs
      <4> QED
        BY <3>2, <4>1 DEF BackToPassword
    <3> QED
      BY <1>5, <3>1, <3>2
  <2> QED
    BY <1>1, <1>o, <2>1
<1>6. ASSUME NEW r \in requests, LoginAsksForCode(r) PROVE OptedOutInv'
  <2>1. r.tab \in Tabs /\ [tabs[r.tab] EXCEPT !.page = "code"].page = "code"
    BY <1>t, TabIs, RequestIs
  <2> QED
    BY <1>1, <1>6, <1>o, <2>1 DEF LoginAsksForCode
<1>7. ASSUME NEW r \in requests, LoginAccepted(r) PROVE OptedOutInv'
  <2> DEFINE t == r.tab
             token == issued + 1
             store == WriteStoredUser(token, tabs[t].remember, tabs[t].session, local.user)
             w == [tabs[t] EXCEPT !.user = token, !.session = store.session, !.page = "console"]
  <2>1. t \in Tabs /\ token # None
    BY <1>t, RequestIs, TokensAreNumbers
  <2>2. /\ tabs' = [tabs EXCEPT ![t] = w]
        /\ local' = [local EXCEPT !.user = store.user, !.token = token]
        /\ kept' = IF tabs[t].remember THEN kept \cup {token} ELSE kept
    BY <1>7 DEF LoginAccepted
  <2>3. w.user = token /\ w.session = store.session
    BY <1>t, <2>1, TabIs
  <2>4. local'.user = store.user /\ local'.legacy = local.legacy
    BY <1>t, <2>2, LocalIs
  <2>5. IF tabs[t].remember THEN store.user = token /\ token \in kept'
        ELSE store.user = None /\ store.session = token
    BY <2>2 DEF WriteStoredUser
  <2>6. kept \subseteq kept'
    BY <2>2
  <2> HIDE DEF t, token, store, w
  <2> QED
    BY <1>1, <2>1, <2>2, <2>3, <2>4, <2>5, <2>6
<1>8. ASSUME NEW r \in requests, CallRejected(r) PROVE OptedOutInv'
  <2> DEFINE w == IF tabs[r.tab].page = "console" THEN [Closed EXCEPT !.page = "login"]
                  ELSE [tabs[r.tab] EXCEPT !.session = None]
  <2>1. r.tab \in Tabs /\ w.page # "console"
    BY <1>t, TabIs, RequestIs DEF Closed
  <2>2. tabs' = [tabs EXCEPT ![r.tab] = w] /\ local' = Empty /\ kept' = kept
    BY <1>8 DEF CallRejected
  <2> HIDE DEF w
  <2> QED
    BY <1>1, <2>1, <2>2 DEF Empty
<1>9. ASSUME NEW r \in requests, LogoutAnswered(r) PROVE OptedOutInv'
  <2>1. r.tab \in Tabs /\ [tabs[r.tab] EXCEPT !.user = None, !.page = "login"].page = "login"
    BY <1>t, TabIs, RequestIs
  <2> QED
    BY <1>1, <1>9, <2>1 DEF LogoutAnswered, Empty
<1> QED
  BY <1>2, <1>3, <1>4, <1>5, <1>6, <1>7, <1>8, <1>9
  DEF Next, vars, SubmitLogin, CallApi, Logout, LoginRefused, CallAnswered, ExpireToken

LEMMA OptedOutFollows ==
    OptedOutInv => OptedOutStaysOut /\ OptedOutCallsAsSelf
BY DEF OptedOutInv, OptedOutCallsAsSelf, AccessToken, StoredUser, First

\* With one tab nobody else writes the stores.
LEMMA ShownStep ==
    ASSUME ConsoleSessionAssumption, \A t, u \in Tabs : t = u
    PROVE  ShownInv /\ [Next]_vars => ShownInv'
<1> SUFFICES ASSUME ShownInv, [Next]_vars PROVE ShownInv'
  OBVIOUS
<1>t. TypeOK /\ TypeOK'
  BY SessionTypes DEF ShownInv
<1>o. \A t \in Tabs : tabs[t].page = "console" => tabs[t].user # None /\ StoredUser(t) = tabs[t].user
  BY DEF ShownInv
\* The tab becomes w.
<1>1. ASSUME NEW t \in Tabs, NEW w, tabs' = [tabs EXCEPT ![t] = w],
             w.page = "console" =>
                 w.user # None /\ First(w.session, First(local'.user, local'.legacy)) = w.user
      PROVE  ShownInv'
  BY <1>1, <1>t, TabIs DEF ShownInv, StoredUser
<1>2. ASSUME UNCHANGED <<local, tabs>> PROVE ShownInv'
  BY <1>2, <1>t, <1>o DEF ShownInv, StoredUser
<1>3. ASSUME NEW t \in Tabs, Open(t) PROVE ShownInv'
  <2> DEFINE found == StoredUser(t)
             forward == local.legacy # None /\ local.user = None /\ tabs[t].session = None
  <2>1. PICK page \in {"login", "console"} : MountBringing(t, page, forward)
    BY <1>3 DEF Open, Mount
  <2> DEFINE w == [tabs[t] EXCEPT !.user = found, !.remember = TRUE,
                       !.page = IF page = "console" /\ found = None THEN "login" ELSE page]
  <2>2. tabs' = [tabs EXCEPT ![t] = w] /\ local' = IF forward THEN [local EXCEPT !.user = found] ELSE local
    BY <2>1 DEF MountBringing
  <2>3. w.user = found /\ w.session = tabs[t].session /\ (w.page = "console" => found # None)
    BY <1>t, TabIs
  <2>4. IF forward THEN local'.user = found /\ local'.legacy = local.legacy ELSE local' = local
    BY <1>t, <2>2, LocalIs
  <2>5. First(tabs[t].session, First(local'.user, local'.legacy)) = found
    BY <2>4 DEF StoredUser, First, None
  <2> HIDE DEF w, found
  <2> QED
    BY <1>1, <2>2, <2>3, <2>5
<1>4. ASSUME NEW t \in Tabs, Close(t) PROVE ShownInv'
  BY <1>1, <1>4 DEF Close, Closed
<1>5. ASSUME NEW t \in Tabs, Tick(t) \/ BackToPassword(t) PROVE ShownInv'
  <2>1. PICK w : tabs' = [tabs EXCEPT ![t] = w] /\ w.page # "console"
    <3>1. CASE Tick(t)
      <4>1. [tabs[t] EXCEPT !.remember = ~tabs[t].remember].page = "login"
        BY <1>t, <3>1, TabIs DEF Tick
      <4> QED
        BY <3>1, <4>1 DEF Tick
    <3>2. CASE BackToPassword(t)
      <4>1. [tabs[t] EXCEPT !.page = "login"].page = "login"
        BY <1>t, TabIs
      <4> QED
        BY <3>2, <4>1 DEF BackToPassword
    <3> QED
      BY <1>5, <3>1, <3>2
  <2> QED
    BY <1>1, <2>1
<1>6. ASSUME NEW r \in requests, LoginAsksForCode(r) PROVE ShownInv'
  <2>1. r.tab \in Tabs /\ [tabs[r.tab] EXCEPT !.page = "code"].page = "code"
    BY <1>t, TabIs, RequestIs
  <2> QED
    BY <1>1, <1>6, <2>1 DEF LoginAsksForCode
<1>7. ASSUME NEW r \in requests, LoginAccepted(r) PROVE ShownInv'
  <2> DEFINE t == r.tab
             token == issued + 1
             store == WriteStoredUser(token, tabs[t].remember, tabs[t].session, local.user)
             w == [tabs[t] EXCEPT !.user = token, !.session = store.session, !.page = "console"]
  <2>1. t \in Tabs /\ token # None
    BY <1>t, RequestIs, TokensAreNumbers
  <2>2. /\ tabs' = [tabs EXCEPT ![t] = w]
        /\ local' = [local EXCEPT !.user = store.user, !.token = token]
    BY <1>7 DEF LoginAccepted
  <2>3. w.user = token /\ w.session = store.session
    BY <1>t, <2>1, TabIs
  <2>4. local'.user = store.user
    BY <1>t, <2>2, LocalIs
  <2>5. store.session = token \/ (store.session = None /\ store.user = token)
    BY DEF WriteStoredUser
  <2> HIDE DEF t, token, store, w
  <2> QED
    BY <1>1, <2>1, <2>2, <2>3, <2>4, <2>5 DEF First
<1>8. ASSUME NEW r \in requests, CallRejected(r) PROVE ShownInv'
  <2> DEFINE w == IF tabs[r.tab].page = "console" THEN [Closed EXCEPT !.page = "login"]
                  ELSE [tabs[r.tab] EXCEPT !.session = None]
  <2>1. r.tab \in Tabs /\ w.page # "console"
    BY <1>t, TabIs, RequestIs DEF Closed
  <2>2. tabs' = [tabs EXCEPT ![r.tab] = w]
    BY <1>8 DEF CallRejected
  <2> HIDE DEF w
  <2> QED
    BY <1>1, <2>1, <2>2
<1>9. ASSUME NEW r \in requests, LogoutAnswered(r) PROVE ShownInv'
  <2>1. r.tab \in Tabs /\ [tabs[r.tab] EXCEPT !.user = None, !.page = "login"].page = "login"
    BY <1>t, TabIs, RequestIs
  <2> QED
    BY <1>1, <1>9, <2>1 DEF LogoutAnswered
<1> QED
  BY <1>2, <1>3, <1>4, <1>5, <1>6, <1>7, <1>8, <1>9
  DEF Next, vars, SubmitLogin, CallApi, Logout, LoginRefused, CallAnswered, ExpireToken

LEMMA ShownFollows == ShownInv => CallsAsUserShown
BY DEF ShownInv, CallsAsUserShown, AccessToken, First

-----------------------------------------------------------------------------
\* Said in the sources and not so in the code: no run checks what follows, and
\* the README tells how each of them is broken.

\* login.jsx: "the session ends when you close the browser".
NothingLeftBehind ==
    (\A t \in Tabs : tabs[t].page = "closed")
        => \A store \in {"user", "token"} : local[store] \in kept \cup {None}

\* handleAuthRejection: "Clear the dead credentials".  A 401 takes the login of
\* localStorage away only if that login's token is the one refused.
OnlyDeadCredentialsCleared ==
    \A r \in requests : CallRejected(r) => local.user \notin valid
=============================================================================
