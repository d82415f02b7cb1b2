------------------------------- MODULE MCDesk -------------------------------
(***************************************************************************)
(* The pages of the office: sessions, clients, packages, settings, the     *)
(* copilot, the demo and all that list records, each with the rows it      *)
(* works on.  The console is a single-page application and shows one of    *)
(* them at a time, so a behaviour is about one part: `part` says which,    *)
(* and s1, s2, ... are its variables.                                      *)
(***************************************************************************)
EXTENDS Integers, FiniteSets, FiniteSetTheorems, Sequences, SequenceTheorems, TLAPS

CONSTANTS BrowserTabs, MaxLogins, MaxCalls,   \* of the sessions of a browser
          ListOut, ListOrders, PolledOrders, ListViews, ListPolls,   \* of lists of records
          Threads, MaxThreads, HistoryTurns,           \* of the copilot,
          MaxQuestions, MaxElsewhere, MaxReads,        \* and what is asked of it
          Persons, Emails, Slugs, MaxSignups,          \* of the sign-up
          Values, Sms, Whatsapp, Listed, MaxLoads, MaxTabs,   \* of credentials
          Others, Hosts,               \* of the list of integrations
          MaxEdits,                    \* of both
          MaxRouteEdits,               \* of the payment route
          MaxPuts,                     \* of it and of the integrations
          TabsOut, TabEdits, TabSaves, TabTurns,       \* of the settings
          Speeds, Sizes, Prices, Hours, Days,          \* of the form of a package,
          FormEdits, FormSaves, MaxUsed,               \* and its use
          PlanClients, SharedClients, SharedPage,      \* of the page of a package
          Subscribers, Wired, ClientRows,   \* of the list of clients, some on PPPoE
          TypingFrom, ListReads, ListEvents,
          Logins, Plans, Tries,        \* of a new account, and of the shelf
          Ports, Uplink, RowsPerPage, Requests         \* of the demo

\* Packages as the form stores them: none yet, a throttled one, a bundle.
NoPackage == [type |-> "none", hours |-> 0, days |-> 0, up |-> 0, down |-> 0, price |-> 0,
              cap |-> -1, size |-> 0, fup |-> FALSE, over |-> 0, slow |-> 0]
FormMade ==
    {NoPackage,
     [type |-> "pppoe", hours |-> 0, days |-> 30, up |-> 1, down |-> 2, price |-> 5,
      cap |-> 1, size |-> 10, fup |-> TRUE, over |-> 10, slow |-> 1],
     [type |-> "bundle", hours |-> 24, days |-> 0, up |-> 1, down |-> 2, price |-> 5,
      cap |-> 1, size |-> 10, fup |-> FALSE, over |-> 0, slow |-> 0]}

VARIABLES part,   \* what the behaviour is about, from the first state on
          s1, s2, s3, s4, s5, s6, s7, s8, s9, s10, s11, s12, s13   \* the variables of that part

vars == <<part, s1, s2, s3, s4, s5, s6, s7, s8, s9, s10, s11, s12, s13>>

\* Each part, with what its steps keep; what follows is put together at the end.

-----------------------------------------------------------------------------
(*                         Pages that list records                         *)

\* The pages that list records, with answers in order,
RecordLists == INSTANCE RecordPages
    WITH page <- s1, held <- s2, shown <- s3, view <- s4, due <- s5, loading <- s6,
         calls <- s7, busy <- s8, panel <- s9, tally <- s10, Ordered <- TRUE,
         Lossy <- FALSE, MaxOut <- ListOut, MaxOrders <- ListOrders, MaxViews <- ListViews,
         MaxPolls <- 0

\* and those that also read again by themselves.
PolledLists == INSTANCE RecordPages
    WITH page <- s1, held <- s2, shown <- s3, view <- s4, due <- s5, loading <- s6,
         calls <- s7, busy <- s8, panel <- s9, tally <- s10, Ordered <- TRUE,
         Lossy <- FALSE, MaxOut <- ListOut, MaxOrders <- PolledOrders, MaxViews <- ListViews,
         MaxPolls <- ListPolls

\* A sequence without its k-th element.
Without(q, k) == SubSeq(q, 1, k - 1) \o SubSeq(q, k + 1, Len(q))

LEMMA Dropped ==
    ASSUME NEW S, NEW q \in Seq(S), NEW k \in 1 .. Len(q)
    PROVE  /\ Without(q, k) \in Seq(S) /\ Len(Without(q, k)) = Len(q) - 1
           /\ \A i \in 1 .. Len(q) - 1 : Without(q, k)[i] = q[IF i < k THEN i ELSE i + 1]
<1> DEFINE r == Without(q, k)
<1> DEFINE n == Len(q)
<1> DEFINE a == SubSeq(q, 1, k - 1)
<1> DEFINE b == SubSeq(q, k + 1, n)
<1>1. n \in Nat /\ k \in Int /\ 1 <= k /\ k <= n /\ \A i \in 1 .. n : q[i] \in S
  OBVIOUS
<1>2. a \in Seq(S) /\ Len(a) = k - 1 /\ \A i \in 1 .. k - 1 : a[i] = q[i]
  <2>1. 1 \in Int /\ k - 1 \in Int /\ \A i \in 1 .. k - 1 : q[i] \in S
    BY <1>1
  <2>2. /\ a \in Seq(S) /\ Len(a) = IF 1 <= k - 1 THEN k - 1 - 1 + 1 ELSE 0
        /\ \A i \in 1 .. k - 1 - 1 + 1 : a[i] = q[1 + i - 1]
    BY <2>1, SubSeqProperties
  <2> HIDE DEF a
  <2> QED
    BY <1>1, <2>2
<1>3. b \in Seq(S) /\ Len(b) = n - k /\ \A i \in 1 .. n - k : b[i] = q[k + i]
  <2>1. k + 1 \in Int /\ n \in Int /\ \A i \in k + 1 .. n : q[i] \in S
    BY <1>1
  <2>2. /\ b \in Seq(S) /\ Len(b) = IF k + 1 <= n THEN n - (k + 1) + 1 ELSE 0
        /\ \A i \in 1 .. n - (k + 1) + 1 : b[i] = q[k + 1 + i - 1]
    BY <2>1, SubSeqProperties
  <2> HIDE DEF b
  <2>3. Len(b) = n - k
    BY <1>1, <2>2
  <2>4. ASSUME NEW i \in 1 .. n - k PROVE b[i] = q[k + i]
    <3>1. i \in 1 .. n - (k + 1) + 1 /\ k + 1 + i - 1 = k + i
      BY <1>1
    <3> QED
      BY <2>2, <3>1
  <2> QED
    BY <2>2, <2>3, <2>4
<1>4. /\ r \in Seq(S) /\ Len(r) = Len(a) + Len(b)
      /\ \A i \in 1 .. Len(a) + Len(b) : r[i] = IF i <= Len(a) THEN a[i] ELSE b[i - Len(a)]
  BY <1>2, <1>3, ConcatProperties DEF Without
<1> HIDE DEF a, b, r
<1>5. Len(r) = n - 1
  <2>1. Len(a) + Len(b) = (k - 1) + (n - k)
    BY <1>2, <1>3
  <2>2. (k - 1) + (n - k) = n - 1
    BY <1>1
  <2> QED
    BY <1>4, <2>1, <2>2
<1>6. ASSUME NEW i \in 1 .. n - 1 PROVE r[i] = q[IF i < k THEN i ELSE i + 1]
  <2>1. i \in 1 .. Len(a) + Len(b)
    BY <1>1, <1>2, <1>3
  <2>2. CASE i < k
    <3>1. i \in 1 .. k - 1 /\ i <= Len(a)
      BY <1>1, <1>2, <2>2
    <3> QED
      BY <1>2, <1>4, <2>1, <2>2, <3>1
  <2>3. CASE ~(i < k)
    <3>1. i - Len(a) \in 1 .. n - k /\ k + (i - Len(a)) = i + 1 /\ ~(i <= Len(a))
      BY <1>1, <1>2, <2>3
    <3> QED
      BY <1>3, <1>4, <2>1, <2>3, <3>1
  <2> QED
    BY <2>2, <2>3
<1> QED
  BY <1>4, <1>5, <1>6 DEF r

OrderFields == {"kind", "row", "to", "view", "turns", "done", "ok", "rows"}
OfForm == {"make", "edit"}

\* s7 are the requests, s9 is what lies over the page and s10 the counts: where Save is off while
\* it is under way, a form that has not been sent, and one that has not been served, leaves fewer
\* records made than forms opened.
FormsSound ==
    /\ \A i, j \in 1 .. Len(s7) : s7[i].kind \in OfForm /\ s7[j].kind \in OfForm => i = j
    /\ \A i \in 1 .. Len(s7) :
         s7[i].kind = "make" => IF s7[i].done THEN s7[i].ok ELSE s10.made < s10.forms
    /\ s9.kind = "form" /\ s9.row = 0 /\ (\A i \in 1 .. Len(s7) : s7[i].kind # "make")
         => s10.made < s10.forms
    /\ s10.made <= s10.forms
CountFields == {"orders", "views", "polls", "forms", "made"}
ListInv ==
    /\ s1.screen.once => s1.screen.form
    /\ DOMAIN s10 = CountFields /\ s10.forms \in Nat /\ s10.made \in Nat
    /\ \E S : s7 \in Seq(S)
    /\ \A i \in 1 .. Len(s7) : DOMAIN s7[i] = OrderFields
    /\ s1.screen.once => FormsSound

\* A form is over the page only where it was, and nothing is counted.
Quiet ==
    /\ s1' = s1 /\ DOMAIN s10' = CountFields /\ s10'.forms = s10.forms /\ s10'.made = s10.made
    /\ s9'.kind = "form" => s9' = s9

\* A request is made, of a form only when the form allows it.
Asks == \E c :
    /\ s7' = Append(s7, c) /\ DOMAIN c = OrderFields /\ ~c.done
    /\ c.kind \in OfForm =>
         /\ s9.kind = "form" /\ (c.kind = "make" => s9.row = 0)
         /\ s1.screen.once => \A i \in 1 .. Len(s7) : s7[i].kind \notin OfForm
\* A form is opened.
Opens ==
    /\ s1' = s1 /\ s7' = s7 /\ DOMAIN s10' = CountFields /\ s10'.made = s10.made
    /\ s10'.forms = s10.forms + (IF s9'.row = 0 THEN 1 ELSE 0)
\* A request is served.
Marked(i) ==
    /\ s7' = [j \in 1 .. Len(s7) |-> s7'[j]] /\ \A j \in 1 .. Len(s7) : j # i => s7'[j] = s7[j]
    /\ DOMAIN s7'[i] = OrderFields /\ s7'[i].kind = s7[i].kind /\ s7'[i].done
Served(i) ==
    /\ Marked(i)
    /\ s1' = s1 /\ s9' = s9 /\ DOMAIN s10' = CountFields /\ s10'.forms = s10.forms
    /\ s7[i].kind = "make" => ~s7[i].done /\ s7'[i].ok
    /\ s10'.made = s10.made + (IF s7[i].kind = "make" THEN 1 ELSE 0)

\* An answer arrives; a form that made a record closes, and one that is refused made none.
Arrives == \E i \in 1 .. Len(s7) :
    /\ \/ s7' = Without(s7, i)
       \/ \E c : s7' = Append(Without(s7, i), c) /\ DOMAIN c = OrderFields /\ c.kind \notin OfForm
    /\ s7[i].kind = "make" => s7[i].done
    /\ s7[i].kind = "make" /\ s7[i].ok => s9'.kind # "form"

\* The requests r that remain when the i-th is answered.
Remain(r, i) ==
    /\ \E S : r \in Seq(S)
    /\ Len(r) = Len(s7) - 1
    /\ \A j \in 1 .. Len(r) : DOMAIN r[j] = OrderFields
    /\ \A j \in 1 .. Len(r) : \E k \in 1 .. Len(s7) : k # i /\ r[j] = s7[k]
    /\ \A j \in 1 .. Len(s7) : j # i => \E k \in 1 .. Len(r) : r[k] = s7[j]
    /\ \A j, k \in 1 .. Len(r) : j # k =>
          \E m, n \in 1 .. Len(s7) : m # n /\ r[j] = s7[m] /\ r[k] = s7[n]

LEMMA RequestsStay ==
    ASSUME ListInv, NEW i \in 1 .. Len(s7), NEW r, r = Without(s7, i)
    PROVE  Remain(r, i)
<1>1. PICK S : s7 \in Seq(S)
  BY DEF ListInv
<1>2. /\ r \in Seq(S) /\ Len(r) = Len(s7) - 1 /\ Len(s7) \in Nat /\ i \in Int
      /\ \A j \in 1 .. Len(s7) - 1 : r[j] = s7[IF j < i THEN j ELSE j + 1]
  BY <1>1, Dropped
<1>3. ASSUME NEW j \in 1 .. Len(r)
      PROVE  \E k \in 1 .. Len(s7) : k # i /\ r[j] = s7[k] /\ k = IF j < i THEN j ELSE j + 1
  <2>1. (IF j < i THEN j ELSE j + 1) \in 1 .. Len(s7) /\ (IF j < i THEN j ELSE j + 1) # i
    BY <1>2
  <2> QED
    BY <1>2, <2>1
<1>4. ASSUME NEW j \in 1 .. Len(s7), j # i PROVE \E k \in 1 .. Len(r) : r[k] = s7[j]
  <2>1. CASE j < i
    <3>1. j \in 1 .. Len(s7) - 1
      BY <1>2, <2>1
    <3> QED
      BY <1>2, <2>1, <3>1
  <2>2. CASE ~(j < i)
    <3>1. j - 1 \in 1 .. Len(s7) - 1 /\ ~(j - 1 < i) /\ (j - 1) + 1 = j
      BY <1>2, <1>4, <2>2
    <3> QED
      BY <1>2, <3>1
  <2> QED
    BY <2>1, <2>2
<1>5. ASSUME NEW j \in 1 .. Len(r), NEW k \in 1 .. Len(r), j # k
      PROVE  \E m, n \in 1 .. Len(s7) : m # n /\ r[j] = s7[m] /\ r[k] = s7[n]
  <2>1. PICK m \in 1 .. Len(s7) : r[j] = s7[m] /\ m = IF j < i THEN j ELSE j + 1
    BY <1>3
  <2>2. PICK n \in 1 .. Len(s7) : r[k] = s7[n] /\ n = IF k < i THEN k ELSE k + 1
    BY <1>3
  <2>3. m # n
    BY <1>2, <1>5, <2>1, <2>2
  <2> QED
    BY <2>1, <2>2, <2>3
<1>6. ASSUME NEW j \in 1 .. Len(r) PROVE DOMAIN r[j] = OrderFields
  BY <1>3, <1>6 DEF ListInv
<1> QED
  BY <1>2, <1>3, <1>4, <1>5, <1>6 DEF Remain

LEMMA FormsKept ==
    ASSUME ListInv, \/ Quiet /\ s7' = s7
                    \/ Quiet /\ Asks
                    \/ Opens
                    \/ \E i \in 1 .. Len(s7) : Served(i)
                    \/ Quiet /\ Arrives
    PROVE  ListInv'
<1>0. /\ s10.forms \in Nat /\ s10.made \in Nat /\ \A i \in 1 .. Len(s7) : DOMAIN s7[i] = OrderFields
      /\ s1.screen.once => FormsSound
      /\ s1.screen.once => s1.screen.form
  BY DEF ListInv
<1>1. CASE Quiet /\ s7' = s7
  BY <1>1 DEF ListInv, FormsSound, Quiet
<1>2. CASE Quiet /\ Asks
  <2>1. PICK c : /\ s7' = Append(s7, c) /\ DOMAIN c = OrderFields /\ ~c.done
                 /\ c.kind \in OfForm =>
                      /\ s9.kind = "form" /\ (c.kind = "make" => s9.row = 0)
                      /\ s1.screen.once => \A i \in 1 .. Len(s7) : s7[i].kind \notin OfForm
    BY <1>2 DEF Asks
  <2>2. PICK S : s7 \in Seq(S)
    BY DEF ListInv
  <2>3. s7 \in Seq(S \cup {c}) /\ c \in S \cup {c}
    BY <2>2
  <2>4. /\ s7' \in Seq(S \cup {c}) /\ Len(s7') = Len(s7) + 1 /\ Len(s7) \in Nat
        /\ \A i \in 1 .. Len(s7) : s7'[i] = s7[i]
        /\ s7'[Len(s7) + 1] = c
    BY <2>1, <2>3, AppendProperties
  <2>5. \A i \in 1 .. Len(s7') : (i \in 1 .. Len(s7) /\ s7'[i] = s7[i]) \/ (i = Len(s7) + 1 /\ s7'[i] = c)
    BY <2>4
  <2>6. \A i \in 1 .. Len(s7') : DOMAIN s7'[i] = OrderFields
    BY <1>0, <2>1, <2>5
  <2>7. ASSUME s1.screen.once PROVE FormsSound'
    <3>1. FormsSound /\ s10'.forms = s10.forms /\ s10'.made = s10.made /\ (s9'.kind = "form" => s9' = s9)
      BY <1>0, <1>2, <2>7 DEF Quiet
    <3>2. c.kind \in OfForm => \A i \in 1 .. Len(s7) : s7[i].kind \notin OfForm
      BY <2>1, <2>7
    <3>3. ASSUME NEW i \in 1 .. Len(s7'), NEW j \in 1 .. Len(s7'), s7'[i].kind \in OfForm, s7'[j].kind \in OfForm
          PROVE  i = j
      BY <2>5, <3>1, <3>2, <3>3 DEF FormsSound
    <3>4. "make" \in OfForm
      BY DEF OfForm
    <3>5. c.kind = "make" => s10.made < s10.forms
      BY <2>1, <3>1, <3>2, <3>4 DEF FormsSound
    <3>6. ASSUME NEW i \in 1 .. Len(s7'), s7'[i].kind = "make"
          PROVE  IF s7'[i].done THEN s7'[i].ok ELSE s10'.made < s10'.forms
      BY <2>1, <2>5, <3>1, <3>5, <3>6 DEF FormsSound
    <3>7. ASSUME s9'.kind = "form", s9'.row = 0, \A i \in 1 .. Len(s7') : s7'[i].kind # "make"
          PROVE  s10'.made < s10'.forms
      <4>1. \A i \in 1 .. Len(s7) : i \in 1 .. Len(s7') /\ s7[i].kind # "make"
        BY <2>4, <3>7
      <4> QED
        BY <3>1, <3>7, <4>1 DEF FormsSound
    <3>8. s10'.made <= s10'.forms
      BY <3>1 DEF FormsSound
    <3> QED
      BY <3>3, <3>6, <3>7, <3>8 DEF FormsSound
  <2>8. \E T : s7' \in Seq(T)
    BY <2>4
  <2> QED
    BY <1>0, <1>2, <2>6, <2>7, <2>8 DEF ListInv, Quiet
<1>3. CASE Opens
  <2>1. /\ s1' = s1 /\ s7' = s7 /\ DOMAIN s10' = CountFields /\ s10'.made = s10.made
        /\ s10'.forms = s10.forms + (IF s9'.row = 0 THEN 1 ELSE 0)
    BY <1>3 DEF Opens
  <2>2. s10'.forms \in Nat /\ s10.forms <= s10'.forms /\ (s9'.row = 0 => s10'.forms = s10.forms + 1)
    BY <1>0, <2>1
  <2>3. ASSUME FormsSound PROVE FormsSound'
    <3>1. s10'.made <= s10'.forms /\ (s9'.row = 0 => s10'.made < s10'.forms)
      BY <1>0, <2>1, <2>2, <2>3 DEF FormsSound
    <3>2. s10.made < s10.forms => s10'.made < s10'.forms
      BY <1>0, <2>1, <2>2
    <3> QED
      BY <2>1, <2>3, <3>1, <3>2 DEF FormsSound
  <2> QED
    BY <1>0, <2>1, <2>2, <2>3 DEF ListInv
<1>4. ASSUME NEW i \in 1 .. Len(s7), Served(i) PROVE ListInv'
  <2>1. /\ s1' = s1 /\ s9' = s9 /\ DOMAIN s10' = CountFields /\ s10'.forms = s10.forms
        /\ s7[i].kind = "make" => ~s7[i].done /\ s7'[i].ok
        /\ s10'.made = s10.made + (IF s7[i].kind = "make" THEN 1 ELSE 0)
    BY <1>4 DEF Served
  <2>2. PICK S : s7 \in Seq(S)
    BY DEF ListInv
  <2>3. PICK c : c = s7'[i]
    OBVIOUS
  <2>4. DOMAIN c = OrderFields /\ c.kind = s7[i].kind /\ c.done
    BY <1>4, <2>3 DEF Served, Marked
  <2>5. DOMAIN s7 = 1 .. Len(s7) /\ Len(s7) \in Nat
    BY <2>2
  <2>6. s7'[i] = c /\ \A j \in 1 .. Len(s7) : j # i => s7'[j] = s7[j]
    BY <1>4, <2>3 DEF Served, Marked
  <2>7. s7' \in Seq(S \cup {c}) /\ Len(s7') = Len(s7)
    <3>1. s7' = [j \in 1 .. Len(s7) |-> s7'[j]]
      BY <1>4 DEF Served, Marked
    <3>2. \A j \in 1 .. Len(s7) : s7'[j] \in S \cup {c}
      BY <2>2, <2>6
    <3> QED
      BY <2>5, <3>1, <3>2
  <2>8. \A j \in 1 .. Len(s7') : DOMAIN s7'[j] = OrderFields
    BY <1>0, <2>4, <2>6, <2>7
  <2>9. ASSUME s1.screen.once PROVE FormsSound'
    <3>0. FormsSound
      BY <1>0, <2>9
    <3>1. \A j \in 1 .. Len(s7) : s7'[j].kind = s7[j].kind
      BY <2>4, <2>6
    <3>2. s10'.made \in Nat /\ s10'.made <= s10.forms
          /\ (s7[i].kind # "make" => s10'.made = s10.made)
      BY <1>0, <2>1, <3>0 DEF FormsSound
    <3>3. ASSUME NEW j \in 1 .. Len(s7), s7[j].kind = "make"
          PROVE  IF s7'[j].done THEN s7'[j].ok ELSE s10'.made < s10'.forms
      <4>1. CASE j = i
        BY <2>1, <2>4, <2>6, <3>3, <4>1
      <4>2. CASE j # i
        <5>1. s7[i].kind # "make"
          BY <3>0, <3>3, <4>2 DEF FormsSound, OfForm
        <5> QED
          BY <2>1, <2>6, <3>0, <3>2, <3>3, <4>2, <5>1 DEF FormsSound
      <4> QED
        BY <4>1, <4>2
    <3>4. ASSUME s9.kind = "form", s9.row = 0, \A j \in 1 .. Len(s7) : s7[j].kind # "make"
          PROVE  s10'.made < s10'.forms
      BY <2>1, <3>0, <3>2, <3>4 DEF FormsSound
    <3> QED
      BY <2>1, <2>7, <3>0, <3>1, <3>2, <3>3, <3>4 DEF FormsSound
  <2>10. s10'.made \in Nat
    BY <1>0, <2>1
  <2>11. \E T : s7' \in Seq(T)
    BY <2>7
  <2> QED
    BY <1>0, <2>1, <2>8, <2>9, <2>10, <2>11 DEF ListInv
<1>5. CASE Quiet /\ Arrives
  <2>1. PICK i \in 1 .. Len(s7) :
          /\ \/ s7' = Without(s7, i)
             \/ \E c : s7' = Append(Without(s7, i), c) /\ DOMAIN c = OrderFields /\ c.kind \notin OfForm
          /\ s7[i].kind = "make" => s7[i].done
          /\ s7[i].kind = "make" /\ s7[i].ok => s9'.kind # "form"
    BY <1>5 DEF Arrives
  <2>2. PICK r : r = Without(s7, i)
    OBVIOUS
  <2>r. Remain(r, i)
    BY <2>2, RequestsStay
  <2>3. /\ \E S : r \in Seq(S)
        /\ \A j \in 1 .. Len(r) : DOMAIN r[j] = OrderFields
        /\ \A j \in 1 .. Len(r) : \E k \in 1 .. Len(s7) : r[j] = s7[k]
        /\ \A j \in 1 .. Len(s7) : j # i => \E k \in 1 .. Len(r) : r[k] = s7[j]
        /\ \A j, k \in 1 .. Len(r) : j # k =>
              \E m, n \in 1 .. Len(s7) : m # n /\ r[j] = s7[m] /\ r[k] = s7[n]
    BY <2>r DEF Remain
  <2>4. /\ \E S : s7' \in Seq(S)
        /\ \A j \in 1 .. Len(r) : j \in 1 .. Len(s7') /\ s7'[j] = r[j]
        /\ \A j \in 1 .. Len(s7') :
             j \in 1 .. Len(r) \/ (DOMAIN s7'[j] = OrderFields /\ s7'[j].kind \notin OfForm)
    <3>1. CASE s7' = r
      BY <2>3, <3>1
    <3>2. ASSUME NEW c, s7' = Append(r, c), DOMAIN c = OrderFields, c.kind \notin OfForm
          PROVE  /\ \E S : s7' \in Seq(S)
                 /\ \A j \in 1 .. Len(r) : j \in 1 .. Len(s7') /\ s7'[j] = r[j]
                 /\ \A j \in 1 .. Len(s7') :
                      j \in 1 .. Len(r) \/ (DOMAIN s7'[j] = OrderFields /\ s7'[j].kind \notin OfForm)
      <4>1. PICK S : r \in Seq(S)
        BY <2>3
      <4>2. r \in Seq(S \cup {c}) /\ c \in S \cup {c}
        BY <4>1
      <4>3. /\ s7' \in Seq(S \cup {c}) /\ Len(s7') = Len(r) + 1 /\ Len(r) \in Nat
            /\ \A j \in 1 .. Len(r) : s7'[j] = r[j]
            /\ s7'[Len(r) + 1] = c
        BY <3>2, <4>2, AppendProperties
      <4>4. \A j \in 1 .. Len(s7') : j \in 1 .. Len(r) \/ s7'[j] = c
        BY <4>3
      <4>5. \A j \in 1 .. Len(r) : j \in 1 .. Len(s7')
        BY <4>3
      <4>6. \E T : s7' \in Seq(T)
        BY <4>3
      <4> QED
        BY <3>2, <4>3, <4>4, <4>5, <4>6, Zenon
    <3> QED
      BY <2>1, <2>2, <3>1, <3>2
  <2>5. \A j \in 1 .. Len(s7') : DOMAIN s7'[j] = OrderFields
    BY <2>3, <2>4
  <2>6. ASSUME s1.screen.once PROVE FormsSound'
    <3>0. FormsSound /\ s10'.forms = s10.forms /\ s10'.made = s10.made /\ (s9'.kind = "form" => s9' = s9)
      BY <1>0, <1>5, <2>6 DEF Quiet
    <3>1. ASSUME NEW j \in 1 .. Len(s7'), s7'[j].kind \in OfForm
          PROVE  j \in 1 .. Len(r) /\ s7'[j] = r[j]
      BY <2>4, <3>1
    <3>2. ASSUME NEW j \in 1 .. Len(s7'), NEW k \in 1 .. Len(s7'), s7'[j].kind \in OfForm,
                 s7'[k].kind \in OfForm, j # k
          PROVE  FALSE
      <4>1. PICK m \in 1 .. Len(s7), n \in 1 .. Len(s7) : m # n /\ r[j] = s7[m] /\ r[k] = s7[n]
        BY <2>3, <3>1, <3>2
      <4> QED
        BY <3>0, <3>1, <3>2, <4>1 DEF FormsSound
    <3>3. ASSUME NEW j \in 1 .. Len(s7'), s7'[j].kind = "make"
          PROVE  IF s7'[j].done THEN s7'[j].ok ELSE s10'.made < s10'.forms
      <4>1. j \in 1 .. Len(r) /\ s7'[j] = r[j]
        BY <3>1, <3>3 DEF OfForm
      <4>2. PICK k \in 1 .. Len(s7) : r[j] = s7[k]
        BY <2>3, <4>1
      <4> QED
        BY <3>0, <3>3, <4>1, <4>2 DEF FormsSound
    <3>4. ASSUME s9'.kind = "form", s9'.row = 0, \A j \in 1 .. Len(s7') : s7'[j].kind # "make"
          PROVE  s10'.made < s10'.forms
      <4>1. s7[i].kind # "make"
        BY <2>1, <3>0, <3>4 DEF FormsSound
      <4>2. \A j \in 1 .. Len(s7) : s7[j].kind # "make"
        <5>1. ASSUME NEW j \in 1 .. Len(s7), j # i PROVE s7[j].kind # "make"
          <6>1. PICK k \in 1 .. Len(r) : r[k] = s7[j]
            BY <2>3, <5>1
          <6> QED
            BY <2>4, <3>4, <6>1
        <5> QED
          BY <4>1, <5>1
      <4> QED
        BY <3>0, <3>4, <4>2 DEF FormsSound
    <3>5. s10'.made <= s10'.forms
      BY <3>0 DEF FormsSound
    <3> QED
      BY <3>2, <3>3, <3>4, <3>5 DEF FormsSound
  <2> QED
    BY <1>0, <1>5, <2>4, <2>5, <2>6 DEF ListInv, Quiet
<1> QED
  BY <1>1, <1>2, <1>3, <1>4, <1>5

LEMMA RecordListsBegin == RecordLists!Init => ListInv
<1> SUFFICES ASSUME RecordLists!Init PROVE ListInv
  OBVIOUS
<1>1. s1.screen.once => s1.screen.form
  <2>1. PICK logic, screen : s1 = [logic |-> logic, screen |-> screen] /\ screen \in
          {RecordLists!CustomersScreen, RecordLists!MikrotikScreen, RecordLists!OnlineUsersScreen,
           RecordLists!CustomerKycScreen, RecordLists!DeviceDetailScreen, RecordLists!FupMonitorScreen,
           RecordLists!PaymentsScreen, RecordLists!WireGuardServersScreen, RecordLists!WireGuardPeersScreen,
           RecordLists!EquipmentScreen, RecordLists!TransactionsScreen, RecordLists!VouchersScreen,
           RecordLists!FinanceExpensesScreen, RecordLists!SubscriptionsScreen, RecordLists!DeviceFirmwareScreen,
           RecordLists!DeviceStatusScreen, RecordLists!RadiusScreen, RecordLists!SystemUsersScreen,
           RecordLists!VpnScreen, RecordLists!IspsScreen, RecordLists!DeviceBackupScreen,
           RecordLists!FinanceLeadsScreen, RecordLists!SnmpScreen, RecordLists!LdapScreen,
           RecordLists!EapScreen, RecordLists!TicketsScreen, RecordLists!TicketDrawerScreen,
           RecordLists!CustomerDetailScreen, RecordLists!DevicePortsScreen, RecordLists!AccessControlScreen,
           RecordLists!AccountingScreen, RecordLists!SystemLogsScreen, RecordLists!RadiusUsersScreen,
           RecordLists!RadiusGroupsScreen, RecordLists!DeviceStatsScreen, RecordLists!TrafficScreen,
           RecordLists!AlertsScreen, RecordLists!FinanceReportsScreen, RecordLists!DashboardScreen}
    BY DEF RecordLists!Init, RecordLists!Pages, RecordLists!Page
  <2>2. /\ RecordLists!Screen.form /\ ~RecordLists!Screen.once
        /\ {"form", "once"} \subseteq DOMAIN RecordLists!Screen
    BY DEF RecordLists!Screen
  <2>3. ASSUME screen \in {RecordLists!CustomersScreen, RecordLists!MikrotikScreen, RecordLists!OnlineUsersScreen,
                         RecordLists!CustomerKycScreen, RecordLists!DeviceDetailScreen}
        PROVE  screen.once => screen.form
    BY <2>2, <2>3
       DEF RecordLists!CustomersScreen, RecordLists!MikrotikScreen, RecordLists!OnlineUsersScreen,
           RecordLists!CustomerKycScreen, RecordLists!DeviceDetailScreen
  <2>4. ASSUME screen \in {RecordLists!FupMonitorScreen, RecordLists!PaymentsScreen, RecordLists!WireGuardServersScreen,
                         RecordLists!WireGuardPeersScreen, RecordLists!EquipmentScreen}
        PROVE  screen.once => screen.form
    BY <2>2, <2>4
       DEF RecordLists!FupMonitorScreen, RecordLists!PaymentsScreen,
           RecordLists!WireGuardServersScreen, RecordLists!WireGuardPeersScreen,
           RecordLists!EquipmentScreen
  <2>5. ASSUME screen \in {RecordLists!TransactionsScreen, RecordLists!VouchersScreen, RecordLists!FinanceExpensesScreen,
                         RecordLists!SubscriptionsScreen, RecordLists!DeviceFirmwareScreen}
        PROVE  screen.once => screen.form
    BY <2>2, <2>5
       DEF RecordLists!TransactionsScreen, RecordLists!VouchersScreen,
           RecordLists!FinanceExpensesScreen, RecordLists!SubscriptionsScreen,
           RecordLists!DeviceFirmwareScreen
  <2>6. ASSUME screen \in {RecordLists!DeviceStatusScreen, RecordLists!RadiusScreen, RecordLists!SystemUsersScreen,
                         RecordLists!VpnScreen, RecordLists!IspsScreen}
        PROVE  screen.once => screen.form
    BY <2>2, <2>6
       DEF RecordLists!DeviceStatusScreen, RecordLists!RadiusScreen, RecordLists!SystemUsersScreen,
           RecordLists!VpnScreen, RecordLists!IspsScreen
  <2>7. ASSUME screen \in {RecordLists!DeviceBackupScreen, RecordLists!FinanceLeadsScreen, RecordLists!SnmpScreen,
                         RecordLists!LdapScreen, RecordLists!EapScreen}
        PROVE  screen.once => screen.form
    BY <2>2, <2>7
       DEF RecordLists!DeviceBackupScreen, RecordLists!FinanceLeadsScreen, RecordLists!SnmpScreen,
           RecordLists!LdapScreen, RecordLists!EapScreen
  <2>8. ASSUME screen \in {RecordLists!TicketsScreen, RecordLists!TicketDrawerScreen, RecordLists!CustomerDetailScreen,
                         RecordLists!DevicePortsScreen, RecordLists!AccessControlScreen}
        PROVE  screen.once => screen.form
    BY <2>2, <2>8
       DEF RecordLists!TicketsScreen, RecordLists!TicketDrawerScreen, RecordLists!CustomerDetailScreen,
           RecordLists!DevicePortsScreen, RecordLists!AccessControlScreen
  <2>9. ASSUME screen \in {RecordLists!AccountingScreen, RecordLists!SystemLogsScreen, RecordLists!RadiusUsersScreen,
                         RecordLists!RadiusGroupsScreen, RecordLists!DeviceStatsScreen}
        PROVE  screen.once => screen.form
    BY <2>2, <2>9
       DEF RecordLists!AccountingScreen, RecordLists!SystemLogsScreen, RecordLists!RadiusUsersScreen,
           RecordLists!RadiusGroupsScreen, RecordLists!DeviceStatsScreen
  <2>10. ASSUME screen \in {RecordLists!TrafficScreen, RecordLists!AlertsScreen, RecordLists!FinanceReportsScreen,
                         RecordLists!DashboardScreen}
        PROVE  screen.once => screen.form
    BY <2>2, <2>10
       DEF RecordLists!TrafficScreen, RecordLists!AlertsScreen, RecordLists!FinanceReportsScreen,
           RecordLists!DashboardScreen
  <2> QED
    BY <2>1, <2>3, <2>4, <2>5, <2>6, <2>7, <2>8, <2>9, <2>10
<1>2. s7 = <<RecordLists!Load("all", {"rows"})>> /\ s9.kind = "none"
  BY DEF RecordLists!Init, RecordLists!None
<1>3. DOMAIN RecordLists!Load("all", {"rows"}) = OrderFields /\ RecordLists!Load("all", {"rows"}).kind = "load"
  BY DEF RecordLists!Load, RecordLists!Call, OrderFields
<1>4. Len(s7) = 1 /\ s7[1] = RecordLists!Load("all", {"rows"}) /\ s7 \in Seq({RecordLists!Load("all", {"rows"})})
  BY <1>2
<1>5. s10.forms = 0 /\ s10.made = 0 /\ DOMAIN s10 = CountFields
  BY DEF RecordLists!Init, CountFields
<1>6. FormsSound
  BY <1>2, <1>3, <1>4, <1>5 DEF FormsSound
<1>7. \E S : s7 \in Seq(S)
  BY <1>4
<1> QED
  BY <1>1, <1>3, <1>4, <1>5, <1>6, <1>7 DEF ListInv

LEMMA RecordListsStep == ListInv /\ [RecordLists!Next]_(RecordLists!vars) => ListInv'
<1> SUFFICES ASSUME ListInv, [RecordLists!Next]_(RecordLists!vars) PROVE ListInv'
  OBVIOUS
<1>0. /\ DOMAIN s10 = CountFields /\ s10.forms \in Nat /\ s10.made \in Nat
      /\ DOMAIN s7 = 1 .. Len(s7)
  BY DEF ListInv
<1>c. ASSUME NEW n, \/ s10' = [s10 EXCEPT !.orders = n]
                    \/ s10' = [s10 EXCEPT !.views = n]
                    \/ s10' = [s10 EXCEPT !.polls = n]
      PROVE  DOMAIN s10' = CountFields /\ s10'.forms = s10.forms /\ s10'.made = s10.made
  BY <1>0, <1>c DEF CountFields
<1>d. ASSUME NEW n, s10' = [s10 EXCEPT !.forms = n]
      PROVE  DOMAIN s10' = CountFields /\ s10'.forms = n /\ s10'.made = s10.made
  BY <1>0, <1>d DEF CountFields
<1>e. ASSUME NEW n, s10' = [s10 EXCEPT !.made = n]
      PROVE  DOMAIN s10' = CountFields /\ s10'.forms = s10.forms /\ s10'.made = n
  BY <1>0, <1>e DEF CountFields
<1>l. ASSUME NEW v, NEW turns PROVE
          /\ DOMAIN RecordLists!Load(v, turns) = OrderFields /\ ~RecordLists!Load(v, turns).done
          /\ RecordLists!Load(v, turns).kind \notin OfForm
  BY DEF RecordLists!Load, RecordLists!Call, OrderFields, OfForm
<1>q. ASSUME Quiet, s7' = s7 PROVE ListInv'
  BY <1>q, FormsKept
<1>r. ASSUME NEW v, NEW turns, RecordLists!Reads(v, turns), Quiet PROVE ListInv'
  <2>1. Asks
    BY <1>l, <1>r DEF RecordLists!Reads, Asks
  <2> QED
    BY <1>r, <2>1, FormsKept
\* An order of the page itself, or of a form.
<1>o. ASSUME NEW kind, NEW row, NEW to, RecordLists!Order(kind, row, to), s1' = s1, s9'.kind = "form" => s9' = s9,
             kind \in OfForm =>
               /\ s9.kind = "form" /\ (kind = "make" => s9.row = 0)
               /\ s1.screen.once => \A i \in 1 .. Len(s7) : s7[i].kind \notin OfForm
      PROVE  ListInv'
  <2>1. PICK c : c = RecordLists!Call(kind, row, to, RecordLists!InForce, {})
    OBVIOUS
  <2>2. DOMAIN c = OrderFields /\ ~c.done /\ c.kind = kind
    BY <2>1 DEF RecordLists!Call, OrderFields
  <2>3. s7' = Append(s7, c) /\ Quiet
    BY <1>c, <1>o, <2>1 DEF RecordLists!Order, Quiet
  <2>4. Asks
    BY <1>o, <2>2, <2>3 DEF Asks
  <2> QED
    BY <2>3, <2>4, FormsKept
<1>n. RecordLists!None.kind = "none" /\ RecordLists!Left.kind = "left" /\ \A p : [p EXCEPT !.kind = "drawer"].kind # "form"
  <2>1. RecordLists!None.kind = "none" /\ DOMAIN RecordLists!None = {"kind", "row", "was"}
    BY DEF RecordLists!None
  <2>2. RecordLists!Left.kind = "left"
    BY <2>1 DEF RecordLists!Left
  <2>3. ASSUME NEW p PROVE [p EXCEPT !.kind = "drawer"].kind # "form"
    <3>1. CASE "kind" \in DOMAIN p
      BY <3>1
    <3> QED
      BY <3>1
  <2> QED
    BY <2>1, <2>2, <2>3
<1>1. CASE RecordLists!Choose
  <2>1. Quiet
    BY <1>c, <1>1 DEF RecordLists!Choose, Quiet
  <2>2. s7' = s7 \/ \E v, turns : RecordLists!Reads(v, turns)
    BY <1>1 DEF RecordLists!Choose
  <2> QED
    BY <1>q, <1>r, <2>1, <2>2
<1>2. CASE RecordLists!Pause \/ RecordLists!Refresh \/ RecordLists!Poll
  <2>1. Quiet
    <3>1. /\ s1' = s1 /\ s9' = s9
          /\ s10' = s10 \/ \E n : s10' = [s10 EXCEPT !.polls = n]
      BY <1>2 DEF RecordLists!Pause, RecordLists!Refresh, RecordLists!Poll
    <3> QED
      BY <1>0, <1>c, <3>1 DEF Quiet
  <2>2. \E v, turns : RecordLists!Reads(v, turns)
    BY <1>2 DEF RecordLists!Pause, RecordLists!Refresh, RecordLists!Poll
  <2> QED
    BY <1>r, <2>1, <2>2
<1>3. CASE RecordLists!Dismiss
  <2>1. Quiet /\ s7' = s7
    BY <1>0, <1>3, <1>n DEF RecordLists!Dismiss, Quiet
  <2> QED
    BY <1>q, <2>1
<1>4. CASE RecordLists!Confirm
  <2>1. s9.kind = "sure" /\ s1' = s1 /\ RecordLists!Order("remove", s9.row, "off")
    BY <1>4 DEF RecordLists!Confirm
  <2>2. s9'.kind # "form"
    BY <1>4, <1>n, <2>1 DEF RecordLists!Confirm
  <2> QED
    BY <1>o, <2>1, <2>2 DEF OfForm
<1>5. CASE RecordLists!Submit
  <2>1. PICK kind : kind = IF s9.row = 0 THEN "make" ELSE "edit"
    OBVIOUS
  <2>2. RecordLists!Order(kind, s9.row, s9.was) /\ s1' = s1 /\ s9' = s9 /\ s9.kind = "form"
    BY <1>5, <2>1 DEF RecordLists!Submit
  <2>3. s1.screen.once => \A i \in 1 .. Len(s7) : s7[i].kind \notin OfForm
    BY <1>0, <1>5 DEF RecordLists!Submit, RecordLists!Face, RecordLists!UnderWay, OfForm
  <2> QED
    BY <1>o, <2>1, <2>2, <2>3
<1>6. CASE RecordLists!Make
  <2>1. ~s1.screen.once /\ s1' = s1 /\ s9' = s9 /\ DOMAIN s10' = CountFields
        /\ s10'.forms = s10.forms /\ s10'.made = s10.made
    BY <1>6, <1>c DEF RecordLists!Make, RecordLists!Face, RecordLists!Order, ListInv
  <2>2. PICK c : s7' = Append(s7, c) /\ DOMAIN c = OrderFields
    BY <1>6 DEF RecordLists!Make, RecordLists!Order, RecordLists!Call, OrderFields
  <2>3. PICK S : s7 \in Seq(S)
    BY DEF ListInv
  <2>4. s7 \in Seq(S \cup {c}) /\ c \in S \cup {c}
    BY <2>3
  <2>5. /\ s7' \in Seq(S \cup {c}) /\ Len(s7') = Len(s7) + 1 /\ Len(s7) \in Nat
        /\ \A i \in 1 .. Len(s7) : s7'[i] = s7[i]
        /\ s7'[Len(s7) + 1] = c
    BY <2>2, <2>4, AppendProperties
  <2>6. \A i \in 1 .. Len(s7') : DOMAIN s7'[i] = OrderFields
    <3>1. \A i \in 1 .. Len(s7') : i \in 1 .. Len(s7) \/ i = Len(s7) + 1
      BY <2>5
    <3> QED
      BY <2>2, <2>5, <3>1 DEF ListInv
  <2>7. \E T : s7' \in Seq(T)
    BY <2>5
  <2> QED
    BY <1>0, <2>1, <2>6, <2>7 DEF ListInv
<1>7. ASSUME NEW r, RecordLists!OpenDrawer(r) PROVE ListInv'
  <2>1. Quiet /\ s7' = s7
    BY <1>0, <1>7 DEF RecordLists!OpenDrawer, Quiet
  <2> QED
    BY <1>q, <2>1
<1>8. ASSUME NEW r, NEW kind, RecordLists!Press(kind, r) PROVE ListInv'
  <2>1. kind \notin OfForm /\ s1' = s1
    BY <1>8 DEF RecordLists!Press, OfForm
  <2>2. CASE s7' = s7 /\ s10' = s10 /\ s9'.kind = "sure"
    BY <1>0, <1>q, <2>1, <2>2 DEF Quiet
  <2>3. ASSUME NEW to, RecordLists!Order(kind, r, to), s9' = s9 PROVE ListInv'
    BY <1>o, <2>1, <2>3
  <2> QED
    BY <1>8, <2>2, <2>3 DEF RecordLists!Press
<1>9. ASSUME NEW r, RecordLists!OpenForm(r) PROVE ListInv'
  <2>1. s1' = s1 /\ s7' = s7 /\ s9'.row = r /\ s10' = [s10 EXCEPT !.forms = @ + (IF r = 0 THEN 1 ELSE 0)]
    BY <1>9 DEF RecordLists!OpenForm
  <2>2. Opens
    BY <1>d, <2>1 DEF Opens
  <2> QED
    BY <2>2, FormsKept
<1>10. ASSUME NEW i \in DOMAIN s7, RecordLists!Serve(i) PROVE ListInv'
  <2>1. ~s7[i].done /\ s1' = s1 /\ s9' = s9
    BY <1>10 DEF RecordLists!Serve
  <2>2. /\ DOMAIN s10' = CountFields /\ s10'.forms = s10.forms
        /\ s10'.made = s10.made + (IF s7[i].kind = "make" THEN 1 ELSE 0)
    <3>1. s10' = IF s7[i].kind = "make" THEN [s10 EXCEPT !.made = @ + 1] ELSE s10
      BY <1>10 DEF RecordLists!Serve
    <3> QED
      BY <1>0, <1>e, <3>1
  <2>3. s7' = [j \in 1 .. Len(s7) |-> s7'[j]]
    BY <1>0, <1>10 DEF RecordLists!Serve
  <2>4. \A j \in 1 .. Len(s7) : j # i => s7'[j] = s7[j]
    BY <1>0, <1>10 DEF RecordLists!Serve
  <2>5. DOMAIN s7'[i] = OrderFields /\ s7'[i].kind = s7[i].kind /\ s7'[i].done
    <3>1. DOMAIN s7[i] = OrderFields
      BY <1>0 DEF ListInv
    <3> QED
      BY <1>0, <1>10, <3>1 DEF RecordLists!Serve, OrderFields
  <2>6. s7[i].kind = "make" => s7'[i].ok
    <3>1. DOMAIN s7[i] = OrderFields
      BY <1>0 DEF ListInv
    <3> QED
      BY <1>0, <1>10, <3>1 DEF RecordLists!Serve, OrderFields
  <2>7. Served(i)
    BY <2>1, <2>2, <2>3, <2>4, <2>5, <2>6 DEF Served, Marked
  <2> QED
    BY <1>0, <2>7, FormsKept
<1>11. ASSUME NEW i PROVE RecordLists!RemoveAt(s7, i) = Without(s7, i)
  BY DEF RecordLists!RemoveAt, Without
<1>12. ASSUME NEW i \in DOMAIN s7, RecordLists!LoadAnswered(i) PROVE ListInv'
  <2>1. Quiet /\ s7' = Without(s7, i) /\ s7[i].kind = "load"
    BY <1>0, <1>11, <1>12 DEF RecordLists!LoadAnswered, Quiet
  <2>2. Arrives
    BY <1>0, <2>1 DEF Arrives
  <2> QED
    BY <2>1, <2>2, FormsKept
<1>13. ASSUME NEW i \in DOMAIN s7, RecordLists!OrderAnswered(i) PROVE ListInv'
  <2>1. s1' = s1 /\ s10' = s10 /\ s9' = RecordLists!Panel(s7[i]) /\ s7[i].done
    BY <1>13 DEF RecordLists!OrderAnswered
  <2>2. /\ s9'.kind = "form" => s9' = s9
        /\ s7[i].kind = "make" => s9'.kind # "form"
    BY <1>n, <2>1 DEF RecordLists!Panel
  <2>3. s7' = Without(s7, i) \/ \E v, turns : s7' = Append(Without(s7, i), RecordLists!Load(v, turns))
    BY <1>11, <1>13 DEF RecordLists!OrderAnswered
  <2>4. Arrives
    BY <1>0, <1>l, <2>1, <2>2, <2>3 DEF Arrives
  <2>5. Quiet
    BY <1>0, <2>1, <2>2 DEF Quiet
  <2> QED
    BY <2>4, <2>5, FormsKept
\* No record is refused, so a request that fails made none.
<1>14. ASSUME NEW i \in DOMAIN s7, RecordLists!OrderFailed(i) PROVE ListInv'
  <2>1. /\ s1' = s1 /\ s10' = s10 /\ s7' = Without(s7, i) /\ s7[i].done /\ ~s7[i].ok
        /\ (s9' = s9 \/ s9' = RecordLists!None)
    BY <1>11, <1>14 DEF RecordLists!OrderFailed
  <2>2. Arrives
    BY <1>0, <2>1 DEF Arrives
  <2>3. Quiet
    BY <1>0, <1>n, <2>1 DEF Quiet
  <2> QED
    BY <2>2, <2>3, FormsKept
<1>15. ASSUME NEW i PROVE ~RecordLists!LoadFailed(i)
  BY DEF RecordLists!LoadFailed
<1>16. CASE UNCHANGED RecordLists!vars
  <2>1. s1' = s1 /\ s7' = s7 /\ s9' = s9 /\ s10' = s10
    BY <1>16 DEF RecordLists!vars
  <2>2. Quiet
    BY <1>0, <2>1 DEF Quiet
  <2> QED
    BY <1>q, <2>1, <2>2
<1> QED
  BY <1>1, <1>2, <1>3, <1>4, <1>5, <1>6, <1>7, <1>8, <1>9, <1>10, <1>12, <1>13, <1>14, <1>15, <1>16
     DEF RecordLists!Next

LEMMA RecordListsSafe == ListInv => RecordLists!OneRecordPerForm
BY DEF ListInv, FormsSound, RecordLists!OneRecordPerForm, RecordLists!Face

LEMMA PolledListsBegin == PolledLists!Init => ListInv
<1> SUFFICES ASSUME PolledLists!Init PROVE ListInv
  OBVIOUS
<1>1. s1.screen.once => s1.screen.form
  <2>1. PICK logic, screen : s1 = [logic |-> logic, screen |-> screen] /\ screen \in
          {PolledLists!CustomersScreen, PolledLists!MikrotikScreen, PolledLists!OnlineUsersScreen,
           PolledLists!CustomerKycScreen, PolledLists!DeviceDetailScreen, PolledLists!FupMonitorScreen,
           PolledLists!PaymentsScreen, PolledLists!WireGuardServersScreen, PolledLists!WireGuardPeersScreen,
           PolledLists!EquipmentScreen, PolledLists!TransactionsScreen, PolledLists!VouchersScreen,
           PolledLists!FinanceExpensesScreen, PolledLists!SubscriptionsScreen, PolledLists!DeviceFirmwareScreen,
           PolledLists!DeviceStatusScreen, PolledLists!RadiusScreen, PolledLists!SystemUsersScreen,
           PolledLists!VpnScreen, PolledLists!IspsScreen, PolledLists!DeviceBackupScreen,
           PolledLists!FinanceLeadsScreen, PolledLists!SnmpScreen, PolledLists!LdapScreen,
           PolledLists!EapScreen, PolledLists!TicketsScreen, PolledLists!TicketDrawerScreen,
           PolledLists!CustomerDetailScreen, PolledLists!DevicePortsScreen, PolledLists!AccessControlScreen,
           PolledLists!AccountingScreen, PolledLists!SystemLogsScreen, PolledLists!RadiusUsersScreen,
           PolledLists!RadiusGroupsScreen, PolledLists!DeviceStatsScreen, PolledLists!TrafficScreen,
           PolledLists!AlertsScreen, PolledLists!FinanceReportsScreen, PolledLists!DashboardScreen}
    BY DEF PolledLists!Init, PolledLists!Pages, PolledLists!Page
  <2>2. /\ PolledLists!Screen.form /\ ~PolledLists!Screen.once
        /\ {"form", "once"} \subseteq DOMAIN PolledLists!Screen
    BY DEF PolledLists!Screen
  <2>3. ASSUME screen \in {PolledLists!CustomersScreen, PolledLists!MikrotikScreen, PolledLists!OnlineUsersScreen,
                         PolledLists!CustomerKycScreen, PolledLists!DeviceDetailScreen}
        PROVE  screen.once => screen.form
    BY <2>2, <2>3
       DEF PolledLists!CustomersScreen, PolledLists!MikrotikScreen, PolledLists!OnlineUsersScreen,
           PolledLists!CustomerKycScreen, PolledLists!DeviceDetailScreen
  <2>4. ASSUME screen \in {PolledLists!FupMonitorScreen, PolledLists!PaymentsScreen, PolledLists!WireGuardServersScreen,
                         PolledLists!WireGuardPeersScreen, PolledLists!EquipmentScreen}
        PROVE  screen.once => screen.form
    BY <2>2, <2>4
       DEF PolledLists!FupMonitorScreen, PolledLists!PaymentsScreen,
           PolledLists!WireGuardServersScreen, PolledLists!WireGuardPeersScreen,
           PolledLists!EquipmentScreen
  <2>5. ASSUME screen \in {PolledLists!TransactionsScreen, PolledLists!VouchersScreen, PolledLists!FinanceExpensesScreen,
                         PolledLists!SubscriptionsScreen, PolledLists!DeviceFirmwareScreen}
        PROVE  screen.once => screen.form
    BY <2>2, <2>5
       DEF PolledLists!TransactionsScreen, PolledLists!VouchersScreen,
           PolledLists!FinanceExpensesScreen, PolledLists!SubscriptionsScreen,
           PolledLists!DeviceFirmwareScreen
  <2>6. ASSUME screen \in {PolledLists!DeviceStatusScreen, PolledLists!RadiusScreen, PolledLists!SystemUsersScreen,
                         PolledLists!VpnScreen, PolledLists!IspsScreen}
        PROVE  screen.once => screen.form
    BY <2>2, <2>6
       DEF PolledLists!DeviceStatusScreen, PolledLists!RadiusScreen, PolledLists!SystemUsersScreen,
           PolledLists!VpnScreen, PolledLists!IspsScreen
  <2>7. ASSUME screen \in {PolledLists!DeviceBackupScreen, PolledLists!FinanceLeadsScreen, PolledLists!SnmpScreen,
                         PolledLists!LdapScreen, PolledLists!EapScreen}
        PROVE  screen.once => screen.form
    BY <2>2, <2>7
       DEF PolledLists!DeviceBackupScreen, PolledLists!FinanceLeadsScreen, PolledLists!SnmpScreen,
           PolledLists!LdapScreen, PolledLists!EapScreen
  <2>8. ASSUME screen \in {PolledLists!TicketsScreen, PolledLists!TicketDrawerScreen, PolledLists!CustomerDetailScreen,
                         PolledLists!DevicePortsScreen, PolledLists!AccessControlScreen}
        PROVE  screen.once => screen.form
    BY <2>2, <2>8
       DEF PolledLists!TicketsScreen, PolledLists!TicketDrawerScreen, PolledLists!CustomerDetailScreen,
           PolledLists!DevicePortsScreen, PolledLists!AccessControlScreen
  <2>9. ASSUME screen \in {PolledLists!AccountingScreen, PolledLists!SystemLogsScreen, PolledLists!RadiusUsersScreen,
                         PolledLists!RadiusGroupsScreen, PolledLists!DeviceStatsScreen}
        PROVE  screen.once => screen.form
    BY <2>2, <2>9
       DEF PolledLists!AccountingScreen, PolledLists!SystemLogsScreen, PolledLists!RadiusUsersScreen,
           PolledLists!RadiusGroupsScreen, PolledLists!DeviceStatsScreen
  <2>10. ASSUME screen \in {PolledLists!TrafficScreen, PolledLists!AlertsScreen, PolledLists!FinanceReportsScreen,
                         PolledLists!DashboardScreen}
        PROVE  screen.once => screen.form
    BY <2>2, <2>10
       DEF PolledLists!TrafficScreen, PolledLists!AlertsScreen, PolledLists!FinanceReportsScreen,
           PolledLists!DashboardScreen
  <2> QED
    BY <2>1, <2>3, <2>4, <2>5, <2>6, <2>7, <2>8, <2>9, <2>10
<1>2. s7 = <<PolledLists!Load("all", {"rows"})>> /\ s9.kind = "none"
  BY DEF PolledLists!Init, PolledLists!None
<1>3. DOMAIN PolledLists!Load("all", {"rows"}) = OrderFields /\ PolledLists!Load("all", {"rows"}).kind = "load"
  BY DEF PolledLists!Load, PolledLists!Call, OrderFields
<1>4. Len(s7) = 1 /\ s7[1] = PolledLists!Load("all", {"rows"}) /\ s7 \in Seq({PolledLists!Load("all", {"rows"})})
  BY <1>2
<1>5. s10.forms = 0 /\ s10.made = 0 /\ DOMAIN s10 = CountFields
  BY DEF PolledLists!Init, CountFields
<1>6. FormsSound
  BY <1>2, <1>3, <1>4, <1>5 DEF FormsSound
<1>7. \E S : s7 \in Seq(S)
  BY <1>4
<1> QED
  BY <1>1, <1>3, <1>4, <1>5, <1>6, <1>7 DEF ListInv

LEMMA PolledListsStep == ListInv /\ [PolledLists!Next]_(PolledLists!vars) => ListInv'
<1> SUFFICES ASSUME ListInv, [PolledLists!Next]_(PolledLists!vars) PROVE ListInv'
  OBVIOUS
<1>0. /\ DOMAIN s10 = CountFields /\ s10.forms \in Nat /\ s10.made \in Nat
      /\ DOMAIN s7 = 1 .. Len(s7)
  BY DEF ListInv
<1>c. ASSUME NEW n, \/ s10' = [s10 EXCEPT !.orders = n]
                    \/ s10' = [s10 EXCEPT !.views = n]
                    \/ s10' = [s10 EXCEPT !.polls = n]
      PROVE  DOMAIN s10' = CountFields /\ s10'.forms = s10.forms /\ s10'.made = s10.made
  BY <1>0, <1>c DEF CountFields
<1>d. ASSUME NEW n, s10' = [s10 EXCEPT !.forms = n]
      PROVE  DOMAIN s10' = CountFields /\ s10'.forms = n /\ s10'.made = s10.made
  BY <1>0, <1>d DEF CountFields
<1>e. ASSUME NEW n, s10' = [s10 EXCEPT !.made = n]
      PROVE  DOMAIN s10' = CountFields /\ s10'.forms = s10.forms /\ s10'.made = n
  BY <1>0, <1>e DEF CountFields
<1>l. ASSUME NEW v, NEW turns PROVE
          /\ DOMAIN PolledLists!Load(v, turns) = OrderFields /\ ~PolledLists!Load(v, turns).done
          /\ PolledLists!Load(v, turns).kind \notin OfForm
  BY DEF PolledLists!Load, PolledLists!Call, OrderFields, OfForm
<1>q. ASSUME Quiet, s7' = s7 PROVE ListInv'
  BY <1>q, FormsKept
<1>r. ASSUME NEW v, NEW turns, PolledLists!Reads(v, turns), Quiet PROVE ListInv'
  <2>1. Asks
    BY <1>l, <1>r DEF PolledLists!Reads, Asks
  <2> QED
    BY <1>r, <2>1, FormsKept
\* An order of the page itself, or of a form.
<1>o. ASSUME NEW kind, NEW row, NEW to, PolledLists!Order(kind, row, to), s1' = s1, s9'.kind = "form" => s9' = s9,
             kind \in OfForm =>
               /\ s9.kind = "form" /\ (kind = "make" => s9.row = 0)
               /\ s1.screen.once => \A i \in 1 .. Len(s7) : s7[i].kind \notin OfForm
      PROVE  ListInv'
  <2>1. PICK c : c = PolledLists!Call(kind, row, to, PolledLists!InForce, {})
    OBVIOUS
  <2>2. DOMAIN c = OrderFields /\ ~c.done /\ c.kind = kind
    BY <2>1 DEF PolledLists!Call, OrderFields
  <2>3. s7' = Append(s7, c) /\ Quiet
    BY <1>c, <1>o, <2>1 DEF PolledLists!Order, Quiet
  <2>4. Asks
    BY <1>o, <2>2, <2>3 DEF Asks
  <2> QED
    BY <2>3, <2>4, FormsKept
<1>n. PolledLists!None.kind = "none" /\ PolledLists!Left.kind = "left" /\ \A p : [p EXCEPT !.kind = "drawer"].kind # "form"
  <2>1. PolledLists!None.kind = "none" /\ DOMAIN PolledLists!None = {"kind", "row", "was"}
    BY DEF PolledLists!None
  <2>2. PolledLists!Left.kind = "left"
    BY <2>1 DEF PolledLists!Left
  <2>3. ASSUME NEW p PROVE [p EXCEPT !.kind = "drawer"].kind # "form"
    <3>1. CASE "kind" \in DOMAIN p
      BY <3>1
    <3> QED
      BY <3>1
  <2> QED
    BY <2>1, <2>2, <2>3
<1>1. CASE PolledLists!Choose
  <2>1. Quiet
    BY <1>c, <1>1 DEF PolledLists!Choose, Quiet
  <2>2. s7' = s7 \/ \E v, turns : PolledLists!Reads(v, turns)
    BY <1>1 DEF PolledLists!Choose
  <2> QED
    BY <1>q, <1>r, <2>1, <2>2
<1>2. CASE PolledLists!Pause \/ PolledLists!Refresh \/ PolledLists!Poll
  <2>1. Quiet
    <3>1. /\ s1' = s1 /\ s9' = s9
          /\ s10' = s10 \/ \E n : s10' = [s10 EXCEPT !.polls = n]
      BY <1>2 DEF PolledLists!Pause, PolledLists!Refresh, PolledLists!Poll
    <3> QED
      BY <1>0, <1>c, <3>1 DEF Quiet
  <2>2. \E v, turns : PolledLists!Reads(v, turns)
    BY <1>2 DEF PolledLists!Pause, PolledLists!Refresh, PolledLists!Poll
  <2> QED
    BY <1>r, <2>1, <2>2
<1>3. CASE PolledLists!Dismiss
  <2>1. Quiet /\ s7' = s7
    BY <1>0, <1>3, <1>n DEF PolledLists!Dismiss, Quiet
  <2> QED
    BY <1>q, <2>1
<1>4. CASE PolledLists!Confirm
  <2>1. s9.kind = "sure" /\ s1' = s1 /\ PolledLists!Order("remove", s9.row, "off")
    BY <1>4 DEF PolledLists!Confirm
  <2>2. s9'.kind # "form"
    BY <1>4, <1>n, <2>1 DEF PolledLists!Confirm
  <2> QED
    BY <1>o, <2>1, <2>2 DEF OfForm
<1>5. CASE PolledLists!Submit
  <2>1. PICK kind : kind = IF s9.row = 0 THEN "make" ELSE "edit"
    OBVIOUS
  <2>2. PolledLists!Order(kind, s9.row, s9.was) /\ s1' = s1 /\ s9' = s9 /\ s9.kind = "form"
    BY <1>5, <2>1 DEF PolledLists!Submit
  <2>3. s1.screen.once => \A i \in 1 .. Len(s7) : s7[i].kind \notin OfForm
    BY <1>0, <1>5 DEF PolledLists!Submit, PolledLists!Face, PolledLists!UnderWay, OfForm
  <2> QED
    BY <1>o, <2>1, <2>2, <2>3
<1>6. CASE PolledLists!Make
  <2>1. ~s1.screen.once /\ s1' = s1 /\ s9' = s9 /\ DOMAIN s10' = CountFields
        /\ s10'.forms = s10.forms /\ s10'.made = s10.made
    BY <1>6, <1>c DEF PolledLists!Make, PolledLists!Face, PolledLists!Order, ListInv
  <2>2. PICK c : s7' = Append(s7, c) /\ DOMAIN c = OrderFields
    BY <1>6 DEF PolledLists!Make, PolledLists!Order, PolledLists!Call, OrderFields
  <2>3. PICK S : s7 \in Seq(S)
    BY DEF ListInv
  <2>4. s7 \in Seq(S \cup {c}) /\ c \in S \cup {c}
    BY <2>3
  <2>5. /\ s7' \in Seq(S \cup {c}) /\ Len(s7') = Len(s7) + 1 /\ Len(s7) \in Nat
        /\ \A i \in 1 .. Len(s7) : s7'[i] = s7[i]
        /\ s7'[Len(s7) + 1] = c
    BY <2>2, <2>4, AppendProperties
  <2>6. \A i \in 1 .. Len(s7') : DOMAIN s7'[i] = OrderFields
    <3>1. \A i \in 1 .. Len(s7') : i \in 1 .. Len(s7) \/ i = Len(s7) + 1
      BY <2>5
    <3> QED
      BY <2>2, <2>5, <3>1 DEF ListInv
  <2>7. \E T : s7' \in Seq(T)
    BY <2>5
  <2> QED
    BY <1>0, <2>1, <2>6, <2>7 DEF ListInv
<1>7. ASSUME NEW r, PolledLists!OpenDrawer(r) PROVE ListInv'
  <2>1. Quiet /\ s7' = s7
    BY <1>0, <1>7 DEF PolledLists!OpenDrawer, Quiet
  <2> QED
    BY <1>q, <2>1
<1>8. ASSUME NEW r, NEW kind, PolledLists!Press(kind, r) PROVE ListInv'
  <2>1. kind \notin OfForm /\ s1' = s1
    BY <1>8 DEF PolledLists!Press, OfForm
  <2>2. CASE s7' = s7 /\ s10' = s10 /\ s9'.kind = "sure"
    BY <1>0, <1>q, <2>1, <2>2 DEF Quiet
  <2>3. ASSUME NEW to, PolledLists!Order(kind, r, to), s9' = s9 PROVE ListInv'
    BY <1>o, <2>1, <2>3
  <2> QED
    BY <1>8, <2>2, <2>3 DEF PolledLists!Press
<1>9. ASSUME NEW r, PolledLists!OpenForm(r) PROVE ListInv'
  <2>1. s1' = s1 /\ s7' = s7 /\ s9'.row = r /\ s10' = [s10 EXCEPT !.forms = @ + (IF r = 0 THEN 1 ELSE 0)]
    BY <1>9 DEF PolledLists!OpenForm
  <2>2. Opens
    BY <1>d, <2>1 DEF Opens
  <2> QED
    BY <2>2, FormsKept
<1>10. ASSUME NEW i \in DOMAIN s7, PolledLists!Serve(i) PROVE ListInv'
  <2>1. ~s7[i].done /\ s1' = s1 /\ s9' = s9
    BY <1>10 DEF PolledLists!Serve
  <2>2. /\ DOMAIN s10' = CountFields /\ s10'.forms = s10.forms
        /\ s10'.made = s10.made + (IF s7[i].kind = "make" THEN 1 ELSE 0)
    <3>1. s10' = IF s7[i].kind = "make" THEN [s10 EXCEPT !.made = @ + 1] ELSE s10
      BY <1>10 DEF PolledLists!Serve
    <3> QED
      BY <1>0, <1>e, <3>1
  <2>3. s7' = [j \in 1 .. Len(s7) |-> s7'[j]]
    BY <1>0, <1>10 DEF PolledLists!Serve
  <2>4. \A j \in 1 .. Len(s7) : j # i => s7'[j] = s7[j]
    BY <1>0, <1>10 DEF PolledLists!Serve
  <2>5. DOMAIN s7'[i] = OrderFields /\ s7'[i].kind = s7[i].kind /\ s7'[i].done
    <3>1. DOMAIN s7[i] = OrderFields
      BY <1>0 DEF ListInv
    <3> QED
      BY <1>0, <1>10, <3>1 DEF PolledLists!Serve, OrderFields
  <2>6. s7[i].kind = "make" => s7'[i].ok
    <3>1. DOMAIN s7[i] = OrderFields
      BY <1>0 DEF ListInv
    <3> QED
      BY <1>0, <1>10, <3>1 DEF PolledLists!Serve, OrderFields
  <2>7. Served(i)
    BY <2>1, <2>2, <2>3, <2>4, <2>5, <2>6 DEF Served, Marked
  <2> QED
    BY <1>0, <2>7, FormsKept
<1>11. ASSUME NEW i PROVE PolledLists!RemoveAt(s7, i) = Without(s7, i)
  BY DEF PolledLists!RemoveAt, Without
<1>12. ASSUME NEW i \in DOMAIN s7, PolledLists!LoadAnswered(i) PROVE ListInv'
  <2>1. Quiet /\ s7' = Without(s7, i) /\ s7[i].kind = "load"
    BY <1>0, <1>11, <1>12 DEF PolledLists!LoadAnswered, Quiet
  <2>2. Arrives
    BY <1>0, <2>1 DEF Arrives
  <2> QED
    BY <2>1, <2>2, FormsKept
<1>13. ASSUME NEW i \in DOMAIN s7, PolledLists!OrderAnswered(i) PROVE ListInv'
  <2>1. s1' = s1 /\ s10' = s10 /\ s9' = PolledLists!Panel(s7[i]) /\ s7[i].done
    BY <1>13 DEF PolledLists!OrderAnswered
  <2>2. /\ s9'.kind = "form" => s9' = s9
        /\ s7[i].kind = "make" => s9'.kind # "form"
    BY <1>n, <2>1 DEF PolledLists!Panel
  <2>3. s7' = Without(s7, i) \/ \E v, turns : s7' = Append(Without(s7, i), PolledLists!Load(v, turns))
    BY <1>11, <1>13 DEF PolledLists!OrderAnswered
  <2>4. Arrives
    BY <1>0, <1>l, <2>1, <2>2, <2>3 DEF Arrives
  <2>5. Quiet
    BY <1>0, <2>1, <2>2 DEF Quiet
  <2> QED
    BY <2>4, <2>5, FormsKept
\* No record is refused, so a request that fails made none.
<1>14. ASSUME NEW i \in DOMAIN s7, PolledLists!OrderFailed(i) PROVE ListInv'
  <2>1. /\ s1' = s1 /\ s10' = s10 /\ s7' = Without(s7, i) /\ s7[i].done /\ ~s7[i].ok
        /\ (s9' = s9 \/ s9' = PolledLists!None)
    BY <1>11, <1>14 DEF PolledLists!OrderFailed
  <2>2. Arrives
    BY <1>0, <2>1 DEF Arrives
  <2>3. Quiet
    BY <1>0, <1>n, <2>1 DEF Quiet
  <2> QED
    BY <2>2, <2>3, FormsKept
<1>15. ASSUME NEW i PROVE ~PolledLists!LoadFailed(i)
  BY DEF PolledLists!LoadFailed
<1>16. CASE UNCHANGED PolledLists!vars
  <2>1. s1' = s1 /\ s7' = s7 /\ s9' = s9 /\ s10' = s10
    BY <1>16 DEF PolledLists!vars
  <2>2. Quiet
    BY <1>0, <2>1 DEF Quiet
  <2> QED
    BY <1>q, <2>1, <2>2
<1> QED
  BY <1>1, <1>2, <1>3, <1>4, <1>5, <1>6, <1>7, <1>8, <1>9, <1>10, <1>12, <1>13, <1>14, <1>15, <1>16
     DEF PolledLists!Next

LEMMA PolledListsSafe == ListInv => PolledLists!OneRecordPerForm
BY DEF ListInv, FormsSound, PolledLists!OneRecordPerForm, PolledLists!Face

-----------------------------------------------------------------------------
(*                               The copilot                               *)

\* The copilot, with losses and a second machine.
Chat == INSTANCE CopilotChat
    WITH order <- s1, stored <- s2, given <- s3, asked <- s4, elsewhere <- s5, asks <- s6,
         open <- s7, booting <- s8, history <- s9, active <- s10, screen <- s11,
         sending <- s12, opening <- s13, Switching <- TRUE, Losses <- TRUE

ASSUME ChatAssumption == Chat!CopilotAssumption

\* A message that a chat holds in one place, and the messages there can be.
Once(chat, m) == \E i \in DOMAIN chat : \A j \in DOMAIN chat : chat[j] = m <=> j = i
Message == [role : {"user", "assistant"}, of : Nat, error : BOOLEAN]

\* s1 is the order of the threads, s2 their messages, s3 how many there were, s4 the questions
\* asked: a question that was taken is in its thread, and one on its way in none.
ThreadsSound ==
    /\ s1 \in Seq(Threads) /\ \A i, j \in 1 .. Len(s1) : s1[i] = s1[j] => i = j
    /\ s2 \in [Threads -> Seq(Message)] /\ s3 \in Nat /\ s4 \in Nat
    /\ \A t \in Threads : \A i \in 1 .. Len(s2[t]) : s2[t][i].of <= s4
AskFields == {"q", "at", "thread", "first", "seen", "shown", "heard"}
AskSound(a) ==
    /\ DOMAIN a = AskFields /\ a.q \in Nat /\ a.q <= s4
    /\ a.at = "sent" => \A t \in Threads : \A i \in 1 .. Len(s2[t]) : s2[t][i] # Chat!Question(a.q)
    /\ a.at \in {"asking", "answered"} =>
           /\ a.thread \in Nat /\ a.thread <= s3
           /\ a.thread \in Chat!ToSet(s1) => Once(s2[a.thread], Chat!Question(a.q))
ChatInv ==
    /\ ThreadsSound /\ \A a \in s6 : AskSound(a)
    /\ \A a, b \in s6 : a.q = b.q => a = b

LEMMA ChatBegin == Chat!Init => ChatInv
BY DEF Chat!Init, ChatInv, ThreadsSound

LEMMA OnceNew ==
    ASSUME NEW chat \in Seq(Message), NEW m \in Message, \A i \in 1 .. Len(chat) : chat[i] # m
    PROVE  Once(Append(chat, m), m)
<1>1. Append(chat, m)[Len(chat) + 1] = m /\ \A j \in 1 .. Len(chat) : Append(chat, m)[j] = chat[j]
  OBVIOUS
<1>2. DOMAIN Append(chat, m) = 1 .. Len(chat) + 1 /\ Len(chat) \in Nat
  OBVIOUS
<1>3. \A j \in DOMAIN Append(chat, m) : Append(chat, m)[j] = m <=> j = Len(chat) + 1
  BY <1>1, <1>2
<1> QED
  BY <1>2, <1>3 DEF Once

\* A chat goes on with other messages.
GoesOn(chat, d, m) ==
    /\ Len(chat) <= Len(d) /\ \A i \in 1 .. Len(chat) : d[i] = chat[i]
    /\ \A i \in 1 .. Len(d) : i > Len(chat) => d[i] # m

LEMMA OnceStays ==
    ASSUME NEW chat \in Seq(Message), NEW d \in Seq(Message), NEW m, GoesOn(chat, d, m),
           Once(chat, m)
    PROVE  Once(d, m)
<1>0. DOMAIN chat = 1 .. Len(chat) /\ DOMAIN d = 1 .. Len(d) /\ Len(chat) \in Nat /\ Len(d) \in Nat
  OBVIOUS
<1>1. PICK i \in DOMAIN chat : \A j \in DOMAIN chat : chat[j] = m <=> j = i
  BY Zenon DEF Once
<1>2. i \in DOMAIN d /\ i \in Nat /\ i <= Len(chat)
  BY <1>0 DEF GoesOn
<1>3. ASSUME NEW j \in DOMAIN d PROVE d[j] = m <=> j = i
  <2>1. CASE j \in DOMAIN chat
    <3>1. d[j] = chat[j]
      BY <1>0, <2>1 DEF GoesOn
    <3> QED
      BY <1>1, <2>1, <3>1, Zenon
  <2>2. CASE j \notin DOMAIN chat
    <3>1. j \in 1 .. Len(d) /\ j > Len(chat) /\ j # i
      BY <1>0, <1>2, <2>2
    <3> QED
      BY <3>1, Zenon DEF GoesOn
  <2> QED
    BY <2>1, <2>2
<1> QED
  BY <1>2, <1>3, Zenon DEF Once

LEMMA NoneStays ==
    ASSUME NEW chat \in Seq(Message), NEW d \in Seq(Message), NEW m, GoesOn(chat, d, m),
           \A i \in 1 .. Len(chat) : chat[i] # m
    PROVE  \A i \in 1 .. Len(d) : d[i] # m
BY DEF GoesOn

\* A thread taken out of the order, and put in front.
LEMMA Removed ==
    ASSUME ThreadsSound, NEW t
    PROVE  LET r == Chat!RemoveFirst(s1, t)
           IN  /\ r \in Seq(Threads) /\ \A i, j \in 1 .. Len(r) : r[i] = r[j] => i = j
               /\ \A i \in 1 .. Len(r) : r[i] # t /\ r[i] \in Chat!ToSet(s1)
<1> DEFINE r == Chat!RemoveFirst(s1, t)
<1> DEFINE at == {i \in 1 .. Len(s1) : s1[i] = t}
<1>0. s1 \in Seq(Threads) /\ Len(s1) \in Nat /\ (\A i, j \in 1 .. Len(s1) : s1[i] = s1[j] => i = j)
      /\ DOMAIN s1 = 1 .. Len(s1)
  BY DEF ThreadsSound
<1>1. CASE at = {}
  BY <1>0, <1>1 DEF Chat!RemoveFirst, Chat!ToSet
<1>2. ASSUME NEW k \in 1 .. Len(s1), s1[k] = t
      PROVE  /\ r \in Seq(Threads) /\ \A i, j \in 1 .. Len(r) : r[i] = r[j] => i = j
             /\ \A i \in 1 .. Len(r) : r[i] # t /\ r[i] \in Chat!ToSet(s1)
  <2>1. at = {k}
    BY <1>0, <1>2
  <2>2. Chat!Min({k}) = k
    BY DEF Chat!Min
  <2>3. Chat!SelectInSeq(s1, LAMBDA v : v = t) = k
    BY <2>1, <2>2 DEF Chat!SelectInSeq
  <2>4. r = Without(s1, k)
    BY <1>2, <2>3 DEF Chat!RemoveFirst, Chat!RemoveAt, Without
  <2>5. /\ r \in Seq(Threads) /\ Len(r) = Len(s1) - 1
        /\ \A i \in 1 .. Len(r) : r[i] = s1[IF i < k THEN i ELSE i + 1]
    <3>1. s1 \in Seq(Threads) /\ k \in 1 .. Len(s1)
      BY <1>0
    <3>2. /\ Without(s1, k) \in Seq(Threads) /\ Len(Without(s1, k)) = Len(s1) - 1
          /\ \A i \in 1 .. Len(s1) - 1 : Without(s1, k)[i] = s1[IF i < k THEN i ELSE i + 1]
      BY <3>1, Dropped, Zenon
    <3> QED
      BY <2>4, <3>2
  <2>6. \A i \in 1 .. Len(r) : /\ (IF i < k THEN i ELSE i + 1) \in 1 .. Len(s1)
                               /\ (IF i < k THEN i ELSE i + 1) # k
    BY <1>0, <2>5
  <2>7. ASSUME NEW i \in 1 .. Len(r) PROVE r[i] # t /\ r[i] \in Chat!ToSet(s1)
    <3>1. PICK j \in 1 .. Len(s1) : j # k /\ r[i] = s1[j]
      BY <2>5, <2>6
    <3> QED
      BY <1>0, <1>2, <3>1 DEF Chat!ToSet
  <2>8. ASSUME NEW i \in 1 .. Len(r), NEW j \in 1 .. Len(r), r[i] = r[j] PROVE i = j
    <3>1. (IF i < k THEN i ELSE i + 1) = (IF j < k THEN j ELSE j + 1)
      BY <1>0, <2>5, <2>6, <2>8
    <3> QED
      BY <1>0, <3>1
  <2> QED
    BY <2>5, <2>7, <2>8
<1> QED
  BY <1>1, <1>2

LEMMA Touched ==
    ASSUME ThreadsSound, NEW t \in Threads
    PROVE  LET q == Chat!Touch(t)
           IN  /\ q \in Seq(Threads) /\ \A i, j \in 1 .. Len(q) : q[i] = q[j] => i = j
               /\ \A u \in Chat!ToSet(q) : u = t \/ u \in Chat!ToSet(s1)
<1> DEFINE q == Chat!Touch(t)
<1> DEFINE r == Chat!RemoveFirst(s1, t)
<1> DEFINE all == <<t>> \o r
<1>1. /\ r \in Seq(Threads) /\ \A i, j \in 1 .. Len(r) : r[i] = r[j] => i = j
      /\ \A i \in 1 .. Len(r) : r[i] # t /\ r[i] \in Chat!ToSet(s1)
  BY Removed
<1>q. q = all \/ q = SubSeq(all, 1, IF Len(all) > MaxThreads THEN MaxThreads ELSE Len(all))
  BY DEF Chat!Touch
<1> HIDE DEF r, q
<1>2. all \in Seq(Threads) /\ Len(all) = Len(r) + 1 /\ all[1] = t
      /\ \A i \in 1 .. Len(all) : i # 1 => i - 1 \in 1 .. Len(r) /\ all[i] = r[i - 1]
  BY <1>1
<1> HIDE DEF all
<1>3. ASSUME NEW i \in 1 .. Len(all), NEW j \in 1 .. Len(all), all[i] = all[j] PROVE i = j
  <2>1. ~(i = 1 /\ j # 1) /\ ~(i # 1 /\ j = 1)
    BY <1>1, <1>2, <1>3
  <2>2. ASSUME i # 1, j # 1 PROVE i = j
    <3>1. i - 1 \in 1 .. Len(r) /\ j - 1 \in 1 .. Len(r) /\ r[i - 1] = r[j - 1]
      BY <1>2, <1>3, <2>2
    <3>2. i - 1 = j - 1
      BY <1>1, <3>1
    <3> QED
      BY <1>2, <3>2
  <2> QED
    BY <2>1, <2>2
<1>4. \A i \in 1 .. Len(all) : all[i] = t \/ all[i] \in Chat!ToSet(s1)
  BY <1>1, <1>2
<1>5. ASSUME q = all
      PROVE  /\ q \in Seq(Threads) /\ \A i, j \in 1 .. Len(q) : q[i] = q[j] => i = j
             /\ \A u \in Chat!ToSet(q) : u = t \/ u \in Chat!ToSet(s1)
  <2>1. DOMAIN all = 1 .. Len(all)
    BY <1>2
  <2> QED
    BY <1>2, <1>3, <1>4, <1>5, <2>1 DEF Chat!ToSet
<1>6. ASSUME NEW n \in 1 .. Len(all), q = SubSeq(all, 1, n)
      PROVE  /\ q \in Seq(Threads) /\ \A i, j \in 1 .. Len(q) : q[i] = q[j] => i = j
             /\ \A u \in Chat!ToSet(q) : u = t \/ u \in Chat!ToSet(s1)
  <2>1. 1 \in Int /\ n \in Int /\ \A i \in 1 .. n : all[i] \in Threads
    BY <1>2
  <2>2. /\ q \in Seq(Threads) /\ Len(q) = IF 1 <= n THEN n - 1 + 1 ELSE 0
        /\ \A i \in 1 .. n - 1 + 1 : q[i] = all[1 + i - 1]
    BY <1>6, <2>1, SubSeqProperties
  <2>3. Len(q) = n /\ \A i \in 1 .. n : q[i] = all[i] /\ i \in 1 .. Len(all)
    BY <2>2
  <2>4. DOMAIN q = 1 .. n
    BY <2>2, <2>3
  <2> QED
    BY <1>3, <1>4, <2>2, <2>3, <2>4 DEF Chat!ToSet
<1>7. MaxThreads \in Nat \ {0}
  BY ChatAssumption DEF Chat!CopilotAssumption
<1>8. (IF Len(all) > MaxThreads THEN MaxThreads ELSE Len(all)) \in 1 .. Len(all)
  BY <1>1, <1>2, <1>7
<1>9. /\ q \in Seq(Threads) /\ \A i, j \in 1 .. Len(q) : q[i] = q[j] => i = j
      /\ \A u \in Chat!ToSet(q) : u = t \/ u \in Chat!ToSet(s1)
  BY <1>q, <1>5, <1>6, <1>8
<1> QED
  BY <1>9 DEF q

LEMMA MessageOf ==
    ASSUME NEW chat \in Seq(Message), NEW i \in 1 .. Len(chat)
    PROVE  chat[i].of \in Nat
<1>1. chat[i] \in Message
  OBVIOUS
<1> QED
  BY <1>1 DEF Message

\* What the server does with a thread h that is asked in: it goes in front, and its chat
\* becomes d.  A question asked elsewhere keeps its place.
LEMMA ThreadServed ==
    ASSUME ChatInv, NEW x, NEW h \in Threads, h = Chat!Home(x), NEW d \in Seq(Message),
           s1' = Chat!Touch(h), s3' = (IF h > s3 THEN h ELSE s3),
           s2' = Chat!Kept([s2 EXCEPT ![h] = d], Chat!ToSet(Chat!Touch(h))),
           s4' \in Nat, s4 <= s4', \A i \in 1 .. Len(d) : d[i].of <= s4'
    PROVE  /\ ThreadsSound' /\ s3 <= s3' /\ h <= s3' /\ h \in Nat
           /\ h \in Chat!ToSet(s1') => s2'[h] = d
           /\ \A b \in s6 : GoesOn(s2[h], d, Chat!Question(b.q)) => AskSound(b)'
<1>0. ThreadsSound /\ Threads \subseteq Nat \ {0}
  BY ChatAssumption DEF ChatInv, Chat!CopilotAssumption
<1>1. /\ s1' \in Seq(Threads) /\ \A i, j \in 1 .. Len(s1') : s1'[i] = s1'[j] => i = j
      /\ \A u \in Chat!ToSet(s1') : u = h \/ u \in Chat!ToSet(s1)
  <2> DEFINE q == Chat!Touch(h)
  <2>1. /\ q \in Seq(Threads) /\ \A i, j \in 1 .. Len(q) : q[i] = q[j] => i = j
        /\ \A u \in Chat!ToSet(q) : u = h \/ u \in Chat!ToSet(s1)
    BY <1>0, Touched, Zenon
  <2>2. s1' = q
    OBVIOUS
  <2> HIDE DEF q
  <2> QED
    BY <2>1, <2>2
<1>2. s3 \in Nat /\ h \in Nat /\ s4 \in Nat
  BY <1>0 DEF ThreadsSound
<1>3. s3' \in Nat /\ s3 <= s3' /\ h <= s3'
  BY <1>2
<1>4. ASSUME NEW t \in Threads
      PROVE  /\ s2'[t] = IF t \in Chat!ToSet(s1') THEN IF t = h THEN d ELSE s2[t] ELSE <<>>
             /\ s2[t] \in Seq(Message) /\ \A i \in 1 .. Len(s2[t]) : s2[t][i].of <= s4
  BY <1>0 DEF Chat!Kept, ThreadsSound
<1>5. DOMAIN s2' = Threads
  BY DEF Chat!Kept
<1>e. <<>> \in Seq(Message) /\ Len(<<>>) = 0
  OBVIOUS
<1>6. ASSUME NEW t \in Threads
      PROVE  s2'[t] \in Seq(Message) /\ \A i \in 1 .. Len(s2'[t]) : s2'[t][i].of <= s4'
  <2>1. CASE s2'[t] = <<>>
    <3>1. 1 .. Len(s2'[t]) = {}
      BY <2>1
    <3> QED
      BY <1>e, <2>1, <3>1, Zenon
  <2>2. CASE s2'[t] = d
    BY <2>2
  <2>3. CASE s2'[t] = s2[t]
    <3>1. ASSUME NEW i \in 1 .. Len(s2[t]) PROVE s2[t][i].of <= s4'
      <4>1. s2[t][i].of \in Nat /\ s2[t][i].of <= s4
        BY <1>4, MessageOf
      <4> QED
        BY <1>2, <4>1
    <3> QED
      BY <1>4, <2>3, <3>1
  <2> QED
    BY <1>4, <2>1, <2>2, <2>3
<1>7. s2' \in [Threads -> Seq(Message)]
  BY <1>4, <1>5, <1>6 DEF Chat!Kept
<1>8. ThreadsSound'
  BY <1>1, <1>3, <1>6, <1>7 DEF ThreadsSound
<1>9. h \in Chat!ToSet(s1') => s2'[h] = d
  BY <1>4
<1>10. ASSUME NEW b \in s6, GoesOn(s2[h], d, Chat!Question(b.q)) PROVE AskSound(b)'
  <2>1. AskSound(b)
    BY DEF ChatInv
  <2>2. b.q \in Nat /\ b.q <= s4'
    BY <1>2, <2>1 DEF AskSound
  <2>3. ASSUME b.at = "sent", NEW t \in Threads, NEW i \in 1 .. Len(s2'[t])
        PROVE  s2'[t][i] # Chat!Question(b.q)
    <3>1. \A j \in 1 .. Len(s2[t]) : s2[t][j] # Chat!Question(b.q)
      BY <2>1, <2>3 DEF AskSound
    <3>2. \A j \in 1 .. Len(s2[h]) : s2[h][j] # Chat!Question(b.q)
      BY <2>1, <2>3 DEF AskSound
    <3>3. \A j \in 1 .. Len(d) : d[j] # Chat!Question(b.q)
      <4>1. s2[h] \in Seq(Message)
        BY <1>4
      <4> QED
        BY <1>10, <3>2, <4>1, NoneStays, Zenon
    <3>4. s2'[t] = <<>> => Len(s2'[t]) = 0
      BY <1>e, Zenon
    <3>5. s2'[t] = <<>> \/ s2'[t] = d \/ s2'[t] = s2[t]
      BY <1>4
    <3> QED
      BY <2>3, <3>1, <3>3, <3>4, <3>5
  <2>4. ASSUME b.at \in {"asking", "answered"}
        PROVE  /\ b.thread \in Nat /\ b.thread <= s3'
               /\ b.thread \in Chat!ToSet(s1') => Once(s2'[b.thread], Chat!Question(b.q))
    <3>1. /\ b.thread \in Nat /\ b.thread <= s3
          /\ b.thread \in Chat!ToSet(s1) => Once(s2[b.thread], Chat!Question(b.q))
      BY <2>1, <2>4 DEF AskSound
    <3>2. b.thread <= s3'
      BY <1>2, <1>3, <3>1
    <3>3. ASSUME b.thread \in Chat!ToSet(s1') PROVE Once(s2'[b.thread], Chat!Question(b.q))
      <4>1. b.thread \in Threads
        BY <1>1, <3>3 DEF Chat!ToSet
      <4>2. CASE b.thread # h
        BY <1>1, <1>4, <3>1, <3>3, <4>1, <4>2
      <4>3. CASE b.thread = h
        <5>1. h \in Chat!ToSet(s1)
          BY <1>2, <3>1, <4>3 DEF Chat!Home
        <5>2. Once(s2[h], Chat!Question(b.q))
          BY <3>1, <4>3, <5>1
        <5>3. Once(d, Chat!Question(b.q))
          BY <1>4, <1>10, <5>2, OnceStays
        <5> QED
          BY <1>9, <3>3, <4>3, <5>3
      <4> QED
        BY <4>2, <4>3
    <3> QED
      BY <3>1, <3>2, <3>3
  <2> QED
    BY <2>1, <2>2, <2>3, <2>4 DEF AskSound
<1> QED
  BY <1>2, <1>3, <1>8, <1>9, <1>10

LEMMA ChatStep == ChatInv /\ [Chat!Next]_(Chat!vars) => ChatInv'
<1> SUFFICES ASSUME ChatInv, [Chat!Next]_(Chat!vars) PROVE ChatInv'
  OBVIOUS
<1> USE DEF Chat!server, Chat!panel
<1>t. /\ ThreadsSound /\ s3 \in Nat /\ s4 \in Nat /\ Threads \subseteq Nat \ {0}
      /\ \A t \in Threads : s2[t] \in Seq(Message)
  BY ChatAssumption DEF ChatInv, ThreadsSound, Chat!CopilotAssumption
<1>a. \A a \in s6 : AskSound(a)
  BY DEF ChatInv
<1>d. \A a, b \in s6 : a.q = b.q => a = b
  BY DEF ChatInv
<1>m. \A q \in Nat, failed \in BOOLEAN :
          /\ Chat!Question(q) \in Message /\ Chat!Question(q).of = q
          /\ Chat!Reply(q, failed) \in Message /\ Chat!Reply(q, failed).of = q
          /\ \A p : Chat!Question(p) # Chat!Reply(q, failed)
  BY DEF Message, Chat!Question, Chat!Reply
<1>q. \A p, q \in Nat : Chat!Question(p) = Chat!Question(q) => p = q
  BY <1>m
\* Nothing is asked, or only ended.
<1>1. ASSUME UNCHANGED <<s1, s2, s3, s4>>, s6' \subseteq s6 PROVE ChatInv'
  BY <1>1 DEF ChatInv, ThreadsSound, AskSound
<1>2. ASSUME UNCHANGED <<s1, s2, s3, s4>>, NEW a \in s6, NEW b, s6' = (s6 \ {a}) \cup {b},
             b.q = a.q, AskSound(b)
      PROVE  ChatInv'
  <2>1. \A c \in s6' : AskSound(c)
    BY <1>2, <1>a
  <2>2. \A c, e \in s6' : c.q = e.q => c = e
    BY <1>2, <1>d
  <2> QED
    BY <1>2, <1>t, <2>1, <2>2 DEF ChatInv, ThreadsSound, AskSound
<1>3. CASE Chat!Open \/ Chat!Close \/ Chat!Boot \/ Chat!BootFails \/ Chat!StartNew \/ UNCHANGED Chat!vars
  BY <1>1, <1>3 DEF Chat!Open, Chat!Close, Chat!Boot, Chat!BootFails, Chat!StartNew, Chat!vars
<1>4. ASSUME NEW t, Chat!OpenThread(t) PROVE ChatInv'
  BY <1>1, <1>4 DEF Chat!OpenThread
<1>5. ASSUME NEW f, Chat!ServeThread(f) \/ Chat!ThreadArrives(f) PROVE ChatInv'
  BY <1>1, <1>5 DEF Chat!ServeThread, Chat!ThreadArrives
<1>6. ASSUME NEW a \in s6, Chat!AnswerArrives(a) \/ Chat!Forget(a) PROVE ChatInv'
  BY <1>1, <1>6 DEF Chat!AnswerArrives, Chat!Forget
<1>7. ASSUME NEW a \in s6, Chat!Refuse(a) PROVE ChatInv'
  <2> DEFINE b == [a EXCEPT !.at = "failed"]
  <2>1. UNCHANGED <<s1, s2, s3, s4>> /\ s6' = (s6 \ {a}) \cup {b}
    BY <1>7 DEF Chat!Refuse
  <2>2. DOMAIN b = AskFields /\ b.q = a.q /\ b.at = "failed"
    BY <1>a DEF AskSound, AskFields
  <2> HIDE DEF b
  <2>3. AskSound(b)
    BY <1>a, <2>2 DEF AskSound
  <2> QED
    BY <1>2, <2>1, <2>2, <2>3
<1>8. ASSUME NEW a \in s6, Chat!AnswerFails(a) PROVE ChatInv'
  <2> DEFINE b == [a EXCEPT !.heard = FALSE]
  <2>1. UNCHANGED <<s1, s2, s3, s4>> /\ (s6' = s6 \ {a} \/ s6' = (s6 \ {a}) \cup {b})
    BY <1>8 DEF Chat!AnswerFails
  <2>2. DOMAIN b = AskFields /\ b.q = a.q /\ b.at = a.at /\ b.thread = a.thread
    BY <1>a DEF AskSound, AskFields
  <2> HIDE DEF b
  <2>3. AskSound(b)
    BY <1>a, <2>2 DEF AskSound
  <2> QED
    BY <1>1, <1>2, <2>1, <2>2, <2>3
<1>9. CASE Chat!Send
  <2>0. PICK n, a : /\ n = s4 + 1
                    /\ a = [q |-> n, at |-> "sent", thread |-> s10, first |-> s10 = 0,
                            seen |-> <<>>, shown |-> s11, heard |-> TRUE]
    OBVIOUS
  <2>1. s4' = n /\ s6' = s6 \cup {a} /\ UNCHANGED <<s1, s2, s3>>
    BY <1>9, <2>0 DEF Chat!Send
  <2>2. DOMAIN a = AskFields /\ a.q = n /\ a.at = "sent"
    BY <2>0 DEF AskFields
  <2>3. n \in Nat /\ s4 <= n /\ n <= n /\ \A m \in Nat : m <= s4 => m <= n /\ m # n
    BY <1>t, <2>0
  <2>4. ASSUME NEW t \in Threads, NEW i \in 1 .. Len(s2[t])
        PROVE  s2[t][i].of <= n /\ s2[t][i] # Chat!Question(n)
    <3>1. s2[t][i].of \in Nat /\ s2[t][i].of <= s4
      BY <1>t, MessageOf DEF ThreadsSound
    <3> QED
      BY <1>m, <2>3, <3>1
  <2>5. AskSound(a)'
    BY <2>1, <2>2, <2>3, <2>4 DEF AskSound
  <2>6. \A b \in s6 : AskSound(b)' /\ b.q # n
    BY <1>a, <2>1, <2>3 DEF AskSound
  <2>7. ThreadsSound'
    BY <1>t, <2>1, <2>3, <2>4 DEF ThreadsSound
  <2>8. \A b, c \in s6' : b.q = c.q => b = c
    BY <1>d, <2>1, <2>2, <2>6
  <2>9. \A b \in s6' : AskSound(b)'
    BY <2>1, <2>5, <2>6
  <2> QED
    BY <2>7, <2>8, <2>9 DEF ChatInv
\* A question is saved, before it is asked.
<1>10. ASSUME NEW a \in s6, Chat!Save(a) PROVE ChatInv'
  <2>0. PICK h, m, d, b :
            /\ h = Chat!Home(a.thread) /\ m = Chat!Question(a.q) /\ d = Append(s2[h], m)
            /\ b = [a EXCEPT !.at = "asking", !.thread = h, !.seen = Chat!HistoryForModel(s2[h])]
    OBVIOUS
  <2>1. /\ a.at = "sent" /\ h \in Threads /\ s1' = Chat!Touch(h) /\ s3' = (IF h > s3 THEN h ELSE s3)
        /\ s2' = Chat!Kept([s2 EXCEPT ![h] = d], Chat!ToSet(Chat!Touch(h)))
        /\ s6' = (s6 \ {a}) \cup {b} /\ s4' = s4
    BY <1>10, <2>0 DEF Chat!Save
  <2>2. a.q \in Nat /\ a.q <= s4 /\ DOMAIN a = AskFields /\ \A i \in 1 .. Len(s2[h]) : s2[h][i] # m
    BY <1>a, <2>0, <2>1 DEF AskSound
  <2>3. DOMAIN b = AskFields /\ b.q = a.q /\ b.at = "asking" /\ b.thread = h
    BY <2>0, <2>2 DEF AskFields
  <2>4. m \in Message /\ m.of <= s4 /\ s2[h] \in Seq(Message)
    BY <1>t, <1>m, <2>0, <2>1, <2>2
  <2>5. /\ d \in Seq(Message) /\ Len(d) = Len(s2[h]) + 1 /\ d[Len(s2[h]) + 1] = m
        /\ \A i \in 1 .. Len(s2[h]) : d[i] = s2[h][i]
    BY <2>0, <2>4
  <2>6. Once(d, m)
    BY <2>0, <2>2, <2>4, OnceNew
  <2>7. \A i \in 1 .. Len(d) : d[i].of <= s4'
    <3>1. \A i \in 1 .. Len(s2[h]) : s2[h][i].of <= s4
      BY <1>t, <2>1 DEF ThreadsSound
    <3>2. Len(s2[h]) \in Nat
      BY <2>4
    <3> QED
      BY <2>1, <2>4, <2>5, <3>1, <3>2
  <2>8. s4' \in Nat /\ s4 <= s4'
    BY <1>t, <2>1
  <2>9. /\ ThreadsSound' /\ h <= s3' /\ h \in Nat /\ (h \in Chat!ToSet(s1') => s2'[h] = d)
        /\ \A c \in s6 : GoesOn(s2[h], d, Chat!Question(c.q)) => AskSound(c)'
    BY <2>0, <2>1, <2>5, <2>7, <2>8, ThreadServed
  <2>10. ASSUME NEW c \in s6, c # a PROVE AskSound(c)'
    <3>1. c.q \in Nat /\ c.q # a.q
      BY <1>a, <1>d, <2>10 DEF AskSound
    <3>2. m # Chat!Question(c.q)
      BY <1>q, <2>0, <2>2, <3>1
    <3>3. Len(s2[h]) \in Nat
      BY <2>4
    <3>4. GoesOn(s2[h], d, Chat!Question(c.q))
      BY <2>5, <3>2, <3>3 DEF GoesOn
    <3> QED
      BY <2>9, <3>4
  <2>11. AskSound(b)'
    BY <2>0, <2>1, <2>2, <2>3, <2>6, <2>9 DEF AskSound
  <2>12. \A c, e \in s6' : c.q = e.q => c = e
    BY <1>d, <2>1, <2>3
  <2>13. \A c \in s6' : AskSound(c)'
    BY <2>1, <2>10, <2>11
  <2> QED
    BY <2>9, <2>12, <2>13 DEF ChatInv
<1>11. ASSUME NEW a \in s6, NEW failed \in BOOLEAN, Chat!Answer(a, failed) PROVE ChatInv'
  <2>0. PICK at, b, r :
            /\ at = IF failed \/ a.thread \notin Chat!ToSet(s1) THEN "failed" ELSE "answered"
            /\ b = [a EXCEPT !.at = at] /\ r = Chat!Reply(a.q, failed)
    OBVIOUS
  <2>1. /\ a.at = "asking" /\ s6' = (s6 \ {a}) \cup {b} /\ UNCHANGED <<s1, s3, s4>>
        /\ s2' = IF a.thread \in Chat!ToSet(s1) THEN [s2 EXCEPT ![a.thread] = Append(@, r)] ELSE s2
    BY <1>11, <2>0 DEF Chat!Answer
  <2>2. a.q \in Nat /\ a.q <= s4 /\ DOMAIN a = AskFields
    BY <1>a DEF AskSound
  <2>3. DOMAIN b = AskFields /\ b.q = a.q /\ b.at = at /\ b.thread = a.thread
    BY <2>0, <2>2 DEF AskFields
  <2>4. r \in Message /\ r.of <= s4 /\ \A p : Chat!Question(p) # r
    BY <1>m, <2>0, <2>2
  <2>5. ASSUME NEW t \in Threads
        PROVE  /\ s2'[t] \in Seq(Message) /\ \A i \in 1 .. Len(s2'[t]) : s2'[t][i].of <= s4
               /\ \A q : GoesOn(s2[t], s2'[t], Chat!Question(q))
    <3>1. s2[t] \in Seq(Message) /\ Len(s2[t]) \in Nat /\ \A i \in 1 .. Len(s2[t]) : s2[t][i].of <= s4
      BY <1>t DEF ThreadsSound
    <3>2. s2'[t] = s2[t] \/ s2'[t] = Append(s2[t], r)
      BY <2>1 DEF ThreadsSound
    <3>3. CASE s2'[t] = s2[t]
      BY <3>1, <3>3 DEF GoesOn
    <3>4. CASE s2'[t] = Append(s2[t], r)
      <4>1. /\ s2'[t] \in Seq(Message) /\ Len(s2'[t]) = Len(s2[t]) + 1 /\ s2'[t][Len(s2[t]) + 1] = r
            /\ \A i \in 1 .. Len(s2[t]) : s2'[t][i] = s2[t][i]
        BY <2>4, <3>1, <3>4
      <4>2. \A i \in 1 .. Len(s2'[t]) : s2'[t][i].of <= s4
        BY <2>4, <3>1, <4>1
      <4>3. \A q : GoesOn(s2[t], s2'[t], Chat!Question(q))
        BY <2>4, <3>1, <4>1 DEF GoesOn
      <4> QED
        BY <4>1, <4>2, <4>3
    <3> QED
      BY <3>2, <3>3, <3>4
  <2>6. ThreadsSound'
    <3>1. DOMAIN s2' = Threads
      BY <1>t, <2>1 DEF ThreadsSound
    <3>2. s2' \in [Threads -> Seq(Message)]
      <4>1. s2' = [t \in Threads |-> s2'[t]]
        BY <1>t, <2>1 DEF ThreadsSound
      <4> QED
        BY <2>5, <4>1
    <3> QED
      BY <1>t, <2>1, <2>5, <3>2 DEF ThreadsSound
  <2>7. \A u \in Chat!ToSet(s1) : u \in Threads
    BY <1>t DEF ThreadsSound, Chat!ToSet
  <2>8. ASSUME NEW c, AskSound(c) PROVE AskSound(c)'
    <3>1. ASSUME c.at = "sent", NEW t \in Threads
          PROVE  \A i \in 1 .. Len(s2'[t]) : s2'[t][i] # Chat!Question(c.q)
      BY <1>t, <2>5, <2>8, <3>1, NoneStays DEF AskSound
    <3>2. ASSUME c.at \in {"asking", "answered"}, c.thread \in Chat!ToSet(s1')
          PROVE  Once(s2'[c.thread], Chat!Question(c.q))
      <4>1. c.thread \in Chat!ToSet(s1) /\ c.thread \in Threads
        BY <2>1, <2>7, <3>2
      <4>2. Once(s2[c.thread], Chat!Question(c.q))
        BY <2>8, <3>2, <4>1 DEF AskSound
      <4> QED
        BY <1>t, <2>5, <4>1, <4>2, OnceStays
    <3> QED
      BY <2>1, <2>8, <3>1, <3>2 DEF AskSound
  <2>9. AskSound(b)
    BY <1>a, <2>0, <2>1, <2>2, <2>3 DEF AskSound
  <2>10. \A c \in s6' : AskSound(c)'
    BY <1>a, <2>1, <2>8, <2>9
  <2>11. \A c, e \in s6' : c.q = e.q => c = e
    BY <1>d, <2>1, <2>3
  <2> QED
    BY <2>6, <2>10, <2>11 DEF ChatInv
<1>12. ASSUME NEW x, Chat!AskElsewhere(x) PROVE ChatInv'
  <2> DEFINE h == Chat!Home(x)
  <2> DEFINE n == s4 + 1
  <2> DEFINE m == Chat!Question(n)
  <2> DEFINE r == Chat!Reply(n, FALSE)
  <2> DEFINE d == s2[h] \o <<m, r>>
  <2>1. /\ s4' = n /\ h \in Threads /\ s1' = Chat!Touch(h) /\ s3' = (IF h > s3 THEN h ELSE s3)
        /\ s2' = Chat!Kept([s2 EXCEPT ![h] = d], Chat!ToSet(Chat!Touch(h))) /\ s6' = s6
    BY <1>12 DEF Chat!AskElsewhere
  <2>2. n \in Nat /\ s4 <= n /\ \A q \in Nat : q <= s4 => q # n /\ q <= n
    BY <1>t
  <2> HIDE DEF h, n
  <2>3. m \in Message /\ r \in Message /\ m.of = n /\ r.of = n /\ s2[h] \in Seq(Message)
    BY <1>t, <1>m, <2>1, <2>2
  <2>4. ASSUME NEW b \in s6 PROVE m # Chat!Question(b.q) /\ r # Chat!Question(b.q)
    <3>1. b.q \in Nat /\ b.q # n
      BY <1>a, <2>2 DEF AskSound
    <3> QED
      BY <1>m, <1>q, <2>2, <3>1
  <2> HIDE DEF m, r
  <2>5. /\ d \in Seq(Message) /\ Len(d) = Len(s2[h]) + 2 /\ d[Len(s2[h]) + 1] = m /\ d[Len(s2[h]) + 2] = r
        /\ \A i \in 1 .. Len(s2[h]) : d[i] = s2[h][i]
    <3>1. <<m, r>> \in Seq(Message) /\ Len(<<m, r>>) = 2 /\ <<m, r>>[1] = m /\ <<m, r>>[2] = r
      BY <2>3
    <3>2. Len(s2[h]) \in Nat
      BY <2>3
    <3>3. /\ d \in Seq(Message) /\ Len(d) = Len(s2[h]) + Len(<<m, r>>)
          /\ \A i \in 1 .. Len(s2[h]) + Len(<<m, r>>) :
                 d[i] = IF i <= Len(s2[h]) THEN s2[h][i] ELSE <<m, r>>[i - Len(s2[h])]
      BY <2>3, <3>1, ConcatProperties
    <3> QED
      BY <3>1, <3>2, <3>3
  <2> HIDE DEF d
  <2>6. Len(s2[h]) \in Nat /\ \A i \in 1 .. Len(s2[h]) : s2[h][i].of \in Nat /\ s2[h][i].of <= s4
    BY <1>t, <2>1, <2>3, MessageOf DEF ThreadsSound
  <2>7. \A i \in 1 .. Len(d) : d[i].of <= n
    <3>1. ASSUME NEW i \in 1 .. Len(d)
          PROVE  i \in 1 .. Len(s2[h]) \/ i = Len(s2[h]) + 1 \/ i = Len(s2[h]) + 2
      BY <2>5, <2>6
    <3>2. ASSUME NEW i \in 1 .. Len(s2[h]) PROVE d[i].of <= n
      BY <2>2, <2>5, <2>6
    <3>3. n <= n
      BY <2>2
    <3> QED
      BY <2>3, <2>5, <3>1, <3>2, <3>3
  <2>8. ASSUME NEW b \in s6 PROVE GoesOn(s2[h], d, Chat!Question(b.q))
    BY <2>4, <2>5, <2>6 DEF GoesOn
  <2>9. ThreadsSound' /\ \A b \in s6 : GoesOn(s2[h], d, Chat!Question(b.q)) => AskSound(b)'
    BY <2>1, <2>2, <2>5, <2>7, ThreadServed DEF h
  <2> QED
    BY <1>d, <2>1, <2>8, <2>9 DEF ChatInv
<1>13. ASSUME NEW t \in Threads, Chat!RemoveThread(t) PROVE ChatInv'
  <2>1. s1' = Chat!RemoveFirst(s1, t) /\ s2' = [s2 EXCEPT ![t] = <<>>] /\ UNCHANGED <<s3, s4, s6>>
    BY <1>13 DEF Chat!RemoveThread
  <2>2. /\ s1' \in Seq(Threads) /\ \A i, j \in 1 .. Len(s1') : s1'[i] = s1'[j] => i = j
        /\ \A u \in Chat!ToSet(s1') : u # t /\ u \in Chat!ToSet(s1) /\ u \in Threads
    <3> DEFINE r == Chat!RemoveFirst(s1, t)
    <3>1. /\ r \in Seq(Threads) /\ \A i, j \in 1 .. Len(r) : r[i] = r[j] => i = j
          /\ \A i \in 1 .. Len(r) : r[i] # t /\ r[i] \in Chat!ToSet(s1)
      BY <1>t, Removed, Zenon
    <3> HIDE DEF r
    <3>2. \A i \in 1 .. Len(r) : r[i] \in Threads
      BY <3>1
    <3>3. DOMAIN r = 1 .. Len(r) /\ Chat!ToSet(r) = {r[i] : i \in DOMAIN r}
      BY <3>1 DEF Chat!ToSet
    <3> QED
      BY <2>1, <3>1, <3>2, <3>3 DEF r
  <2>3. <<>> \in Seq(Message) /\ Len(<<>>) = 0
    OBVIOUS
  <2>4. /\ s2' \in [Threads -> Seq(Message)] /\ s2'[t] = <<>>
        /\ \A u \in Threads : u # t => s2'[u] = s2[u]
    BY <1>t, <2>1, <2>3 DEF ThreadsSound
  <2>5. ThreadsSound'
    BY <1>t, <2>1, <2>2, <2>3, <2>4 DEF ThreadsSound
  <2>6. ASSUME NEW c \in s6 PROVE AskSound(c)'
    <3>1. \A u \in Threads : s2'[u] = s2[u] \/ Len(s2'[u]) = 0
      BY <2>3, <2>4
    <3>2. c.at = "sent" => \A u \in Threads : \A i \in 1 .. Len(s2'[u]) : s2'[u][i] # Chat!Question(c.q)
      BY <1>a, <3>1 DEF AskSound
    <3> QED
      BY <1>a, <2>1, <2>2, <2>4, <3>2 DEF AskSound
  <2> QED
    BY <1>d, <2>1, <2>5, <2>6 DEF ChatInv
<1> QED
  BY <1>3, <1>4, <1>5, <1>6, <1>7, <1>8, <1>9, <1>10, <1>11, <1>12, <1>13 DEF Chat!Next

LEMMA ChatSafe == ChatInv => Chat!QuestionKept
BY DEF ChatInv, AskSound, Once, Chat!QuestionKept

-----------------------------------------------------------------------------
(*                    Two people sign up with one email                    *)

\* Two people sign up with one email.
Rivals == INSTANCE Onboarding
    WITH step <- s1, email <- s2, token <- s3, saved <- s4, busy <- s5, reply <- s6,
         screen <- s7, reloads <- s8, row <- s9, job <- s10, tenants <- s11, admins <- s12,
         MaxReloads <- 0, MayLose <- FALSE, MayCrash <- FALSE

ASSUME SignupAssumption == Rivals!OnboardingAssumption

Rows == 1 .. MaxSignups
RowFields == {"status", "reached", "email", "verified", "slug", "expired", "error"}

\* s9 are the rows of the server, s10 the jobs, s11 the tenants and s12 the administrators: a
\* job works on a row that waits for it, and has made what it has passed.
RowSound(i) ==
    /\ DOMAIN s9[i] = RowFields /\ DOMAIN s10[i] = {"at", "slug"}
    /\ s9[i].status # "none" => s9[i].email \in Emails
    /\ s10[i].at # "idle" => s9[i].status = "provisioning"
    /\ s10[i].at \in {"insert", "admin", "finish"} => s10[i].slug \in Slugs
    /\ s10[i].at \in {"admin", "finish"} \/ s9[i].status = "completed" => Rivals!HasTenant(i)
    /\ s10[i].at = "finish" \/ s9[i].status = "completed" => s12[s9[i].email] = i
ServerSound ==
    /\ DOMAIN s9 = Rows /\ DOMAIN s10 = Rows /\ DOMAIN s11 = Slugs /\ DOMAIN s12 = Emails
    /\ \A i \in Rows : RowSound(i)

\* s2 are the addresses typed, s5 the requests under way and s8 the reloads: there are none.
RivalsInv ==
    /\ ServerSound
    /\ s2 \in [Persons -> Emails] /\ DOMAIN s5 = Persons /\ \A p \in Persons : s5[p] # "boot" /\ s8[p] = 0

LEMMA RowsCount == MaxSignups \in Nat /\ 0 \notin Rows /\ \A i \in Rows : MaxSignups + 1 # i /\ i # 0
BY SignupAssumption DEF Rivals!OnboardingAssumption, Rows

LEMMA RivalsBegin == Rivals!Init => RivalsInv
<1> SUFFICES ASSUME Rivals!Init PROVE RivalsInv
  OBVIOUS
<1>1. ASSUME NEW i \in Rows PROVE RowSound(i)
  <2>1. s9[i] = Rivals!NoRow /\ s10[i] = Rivals!Idle
    BY DEF Rivals!Init, Rivals!Signups, Rows
  <2> QED
    BY <2>1 DEF RowSound, RowFields, Rivals!NoRow, Rivals!Idle
<1>2. DOMAIN s9 = Rows /\ DOMAIN s10 = Rows /\ DOMAIN s11 = Slugs /\ DOMAIN s12 = Emails
  BY DEF Rivals!Init, Rivals!Signups, Rows
<1> QED
  BY <1>1, <1>2 DEF Rivals!Init, RivalsInv, ServerSound

\* What a person's request does to a row that is not in work, or to its other fields.
LEMMA RowServed ==
    ASSUME ServerSound, NEW i, NEW r, s9' = [s9 EXCEPT ![i] = r], s11' = s11, s12' = s12,
           i \in Rows => DOMAIN r = RowFields /\ (r.status # "none" => r.email \in Emails),
           \/ s10' = s10 /\ (i \in Rows => r.status = s9[i].status /\ r.email = s9[i].email)
           \/ s10' = s10 /\ (i \in Rows => s9[i].status = "none" /\ r.status = "pending")
           \/ /\ s10' = [s10 EXCEPT ![i] = [at |-> "claim", slug |-> "none"]]
              /\ i \in Rows => s9[i].status \in {"pending", "failed"} /\ r.status = "provisioning"
    PROVE  ServerSound'
<1>1. /\ DOMAIN s9' = Rows /\ DOMAIN s10' = Rows
      /\ \A j \in Rows : j # i => s9'[j] = s9[j] /\ s10'[j] = s10[j]
  BY DEF ServerSound
<1>2. ASSUME NEW j \in Rows, j # i PROVE RowSound(j)'
  BY <1>1, <1>2 DEF ServerSound, RowSound, Rivals!HasTenant
<1>3. ASSUME i \in Rows PROVE RowSound(i)'
  <2>1. s9'[i] = r /\ RowSound(i)
    BY <1>3 DEF ServerSound
  <2>2. Rivals!HasTenant(i)' <=> Rivals!HasTenant(i)
    BY DEF Rivals!HasTenant
  <2>3. CASE s10' = s10 /\ r.status = s9[i].status /\ r.email = s9[i].email
    BY <1>3, <2>1, <2>2, <2>3 DEF RowSound
  <2>4. CASE s10' = s10 /\ s9[i].status = "none" /\ r.status = "pending"
    BY <1>3, <2>1, <2>2, <2>4 DEF RowSound
  <2>5. CASE /\ s10' = [s10 EXCEPT ![i] = [at |-> "claim", slug |-> "none"]]
             /\ s9[i].status \in {"pending", "failed"} /\ r.status = "provisioning"
    <3>1. s10'[i] = [at |-> "claim", slug |-> "none"]
      BY <1>3, <2>5 DEF ServerSound
    <3> QED
      BY <1>3, <2>1, <2>2, <2>5, <3>1 DEF RowSound
  <2> QED
    BY <1>3, <2>3, <2>4, <2>5
<1> QED
  BY <1>1, <1>2, <1>3 DEF ServerSound

\* What the handlers write of a row.
LEMMA Written ==
    ASSUME NEW q, DOMAIN q = RowFields, NEW a, NEW b, NEW c
    PROVE  /\ LET r == [q EXCEPT !.verified = a, !.reached = b] IN
                 DOMAIN r = RowFields /\ r.status = q.status /\ r.email = q.email
           /\ LET r == [q EXCEPT !.slug = a, !.reached = b] IN
                 DOMAIN r = RowFields /\ r.status = q.status /\ r.email = q.email
           /\ LET r == [q EXCEPT !.reached = b] IN
                 DOMAIN r = RowFields /\ r.status = q.status /\ r.email = q.email
           /\ LET r == [q EXCEPT !.status = c] IN
                 DOMAIN r = RowFields /\ r.status = c /\ r.email = q.email
           /\ LET r == [q EXCEPT !.status = c, !.error = a] IN
                 DOMAIN r = RowFields /\ r.status = c /\ r.email = q.email
           /\ LET r == [q EXCEPT !.status = c, !.reached = b] IN
                 DOMAIN r = RowFields /\ r.status = c /\ r.email = q.email
           /\ LET r == [q EXCEPT !.status = c, !.reached = b, !.email = a] IN
                 DOMAIN r = RowFields /\ r.status = c /\ r.email = a
           /\ LET r == [q EXCEPT !.expired = a] IN
                 DOMAIN r = RowFields /\ r.status = q.status /\ r.email = q.email
           /\ LET r == [q EXCEPT !.slug = a] IN
                 DOMAIN r = RowFields /\ r.status = q.status /\ r.email = q.email
BY DEF RowFields

\* What a person does, and the answers: the server stays.
LEMMA PersonStep ==
    ASSUME RivalsInv, NEW p \in Persons,
           \/ \E e \in Emails : Rivals!TypeEmail(p, e)
           \/ Rivals!Submit(p) \/ Rivals!GoBack(p) \/ Rivals!ChangeNumber(p) \/ Rivals!Answered(p)
           \/ Rivals!Lost(p) \/ Rivals!Reload(p) \/ Rivals!Restored(p) \/ Rivals!NotRestored(p)
           \/ Rivals!Poll(p) \/ Rivals!Finish(p)
    PROVE  RivalsInv'
<1> USE DEF Rivals!server
<1>r. ~Rivals!Reload(p) /\ ~Rivals!Restored(p) /\ ~Rivals!NotRestored(p)
  BY DEF RivalsInv, Rivals!Reload, Rivals!Restored, Rivals!NotRestored
<1>1. UNCHANGED <<s8, s9, s10, s11, s12>>
  BY <1>r DEF Rivals!TypeEmail, Rivals!Submit, Rivals!GoBack, Rivals!ChangeNumber, Rivals!Answered,
     Rivals!Lost, Rivals!Poll, Rivals!Finish
<1>2. s2' \in [Persons -> Emails]
  BY <1>r DEF RivalsInv, Rivals!TypeEmail, Rivals!Submit, Rivals!GoBack, Rivals!ChangeNumber,
     Rivals!Answered, Rivals!Lost, Rivals!Poll, Rivals!Finish
<1>3. DOMAIN s5' = Persons /\ \A q \in Persons : s5'[q] # "boot"
  <2>1. CASE Rivals!Submit(p)
    <3>1. PICK k \in Rivals!IdentityForm(p) \cup Rivals!CodeForm(p) \cup Rivals!AccountForm(p)
                         \cup Rivals!LocaleForm(p) \cup Rivals!PasswordForm(p) : s5' = [s5 EXCEPT ![p] = k]
      BY <2>1 DEF Rivals!Submit
    <3>2. k # "boot"
      BY DEF Rivals!IdentityForm, Rivals!CodeForm, Rivals!AccountForm, Rivals!LocaleForm,
         Rivals!PasswordForm
    <3> QED
      BY <3>1, <3>2 DEF RivalsInv
  <2>2. CASE ~Rivals!Submit(p)
    BY <1>r, <2>2 DEF RivalsInv, Rivals!TypeEmail, Rivals!GoBack, Rivals!ChangeNumber,
       Rivals!Answered, Rivals!Lost, Rivals!Poll, Rivals!Finish
  <2> QED
    BY <2>1, <2>2
<1>4. ServerSound'
  BY <1>1 DEF RivalsInv, ServerSound, RowSound, Rivals!HasTenant
<1> QED
  BY <1>1, <1>2, <1>3, <1>4 DEF RivalsInv

LEMMA RequestStep ==
    ASSUME RivalsInv, NEW p \in Persons,
           \/ Rivals!Start(p) \/ Rivals!Retarget(p) \/ Rivals!Verify(p) \/ Rivals!Profile(p)
           \/ Rivals!Complete(p) \/ \E s \in Slugs : Rivals!Account(p, s)
    PROVE  RivalsInv'
<1>0. ServerSound /\ \A i \in Rows : RowSound(i) /\ DOMAIN s9[i] = RowFields
  BY DEF RivalsInv, ServerSound, RowSound
<1>s. ASSUME NEW i, NEW r, NEW answer, Rivals!Serve(p, i, r, answer), ServerSound' PROVE RivalsInv'
  BY <1>s DEF RivalsInv, Rivals!Serve
<1>q. Rivals!Own(p) = s9[s3[p]]
  BY DEF Rivals!Own
\* A handler of the wizard's own row.
<1>w. ASSUME NEW r, NEW answer, Rivals!Serve(p, s3[p], r, answer), s10' = s10,
             s3[p] \in Rows => /\ DOMAIN r = RowFields /\ r.status = s9[s3[p]].status
                               /\ r.email = s9[s3[p]].email
      PROVE  RivalsInv'
  <2>1. s9' = [s9 EXCEPT ![s3[p]] = r] /\ s11' = s11 /\ s12' = s12
    BY <1>w DEF Rivals!Serve
  <2>2. s3[p] \in Rows => (r.status # "none" => r.email \in Emails)
    BY <1>0, <1>w DEF RowSound
  <2>3. ServerSound'
    BY <1>0, <1>w, <2>1, <2>2, RowServed
  <2> QED
    BY <1>s, <1>w, <2>3
<1>f. ASSUME Rivals!Refuse(p), s10' = s10 PROVE RivalsInv'
  BY <1>0, <1>f, <1>w DEF Rivals!Refuse
<1>1. CASE Rivals!Start(p)
  <2>1. PICK i \in Rows : /\ Rivals!Fresh(i)
                          /\ IF s12[s2[p]] # 0 THEN Rivals!Serve(p, i, s9[i], "refused")
                             ELSE Rivals!Serve(p, i, [Rivals!NoRow EXCEPT !.status = "pending", !.reached = 2,
                                                                          !.email = s2[p]], "ok")
    BY <1>1 DEF Rivals!Start, Rivals!Signups, Rows, Rivals!None
  <2>2. PICK r, answer : /\ Rivals!Serve(p, i, r, answer)
                         /\ \/ r = s9[i]
                            \/ r = [Rivals!NoRow EXCEPT !.status = "pending", !.reached = 2, !.email = s2[p]]
    BY <2>1
  <2>3. s10' = s10 /\ s9[i].status = "none"
    BY <1>1, <2>1 DEF Rivals!Start, Rivals!Fresh
  <2>4. s9' = [s9 EXCEPT ![i] = r] /\ s11' = s11 /\ s12' = s12
    BY <2>2 DEF Rivals!Serve
  <2>5. CASE r = s9[i]
    <3>1. ServerSound'
      BY <1>0, <2>3, <2>4, <2>5, RowServed
    <3> QED
      BY <1>s, <2>2, <3>1
  <2>6. CASE r = [Rivals!NoRow EXCEPT !.status = "pending", !.reached = 2, !.email = s2[p]]
    <3>1. DOMAIN Rivals!NoRow = RowFields
      BY DEF Rivals!NoRow, RowFields
    <3>2. DOMAIN r = RowFields /\ r.status = "pending" /\ r.email = s2[p]
      BY <2>6, <3>1, Written
    <3>3. s2[p] \in Emails
      BY DEF RivalsInv
    <3>4. ServerSound'
      BY <1>0, <2>3, <2>4, <3>2, <3>3, RowServed
    <3> QED
      BY <1>s, <2>2, <3>4
  <2> QED
    BY <2>2, <2>5, <2>6
<1>2. CASE Rivals!Retarget(p)
  BY <1>0, <1>2, <1>q, <1>w DEF Rivals!Retarget
<1>3. CASE Rivals!Verify(p)
  <2>1. PICK r : r = [Rivals!Own(p) EXCEPT !.verified = TRUE, !.reached = Rivals!Reached(Rivals!Own(p), 3)]
    OBVIOUS
  <2>2. s10' = s10 /\ (Rivals!Refuse(p) \/ Rivals!Serve(p, s3[p], r, "ok"))
    BY <1>3, <2>1 DEF Rivals!Verify
  <2>3. s3[p] \in Rows => /\ DOMAIN r = RowFields /\ r.status = s9[s3[p]].status
                          /\ r.email = s9[s3[p]].email
    BY <1>0, <1>q, <2>1 DEF RowFields
  <2> QED
    BY <1>f, <1>w, <2>2, <2>3
<1>4. ASSUME NEW s \in Slugs, Rivals!Account(p, s) PROVE RivalsInv'
  <2>1. PICK r : r = [Rivals!Own(p) EXCEPT !.slug = s, !.reached = Rivals!Reached(Rivals!Own(p), 4)]
    OBVIOUS
  <2>2. s10' = s10 /\ (Rivals!Refuse(p) \/ Rivals!Serve(p, s3[p], r, "ok"))
    BY <1>4, <2>1 DEF Rivals!Account
  <2>3. s3[p] \in Rows => /\ DOMAIN r = RowFields /\ r.status = s9[s3[p]].status
                          /\ r.email = s9[s3[p]].email
    BY <1>0, <1>q, <2>1 DEF RowFields
  <2> QED
    BY <1>f, <1>w, <2>2, <2>3
<1>5. CASE Rivals!Profile(p)
  <2>1. PICK r : r = [Rivals!Own(p) EXCEPT !.reached = Rivals!Reached(Rivals!Own(p), 5)]
    OBVIOUS
  <2>2. s10' = s10 /\ (Rivals!Refuse(p) \/ Rivals!Serve(p, s3[p], r, "ok"))
    BY <1>5, <2>1 DEF Rivals!Profile
  <2>3. s3[p] \in Rows => /\ DOMAIN r = RowFields /\ r.status = s9[s3[p]].status
                          /\ r.email = s9[s3[p]].email
    BY <1>0, <1>q, <2>1 DEF RowFields
  <2> QED
    BY <1>f, <1>w, <2>2, <2>3
\* A signup is completed into a job, which is its row's first: the row was not waiting.
<1>6. CASE Rivals!Complete(p)
  <2>1. CASE Rivals!Refuse(p) /\ s10' = s10
    BY <1>f, <2>1
  <2>2. ASSUME NEW r, r = [Rivals!Own(p) EXCEPT !.status = "provisioning"],
               Rivals!Live(Rivals!Own(p)), Rivals!Serve(p, s3[p], r, "ok"),
               s10' = [s10 EXCEPT ![s3[p]] = [at |-> "claim", slug |-> "none"]]
        PROVE  RivalsInv'
    <3>1. s9[s3[p]].status \in {"pending", "failed"}
      BY <1>q, <2>2 DEF Rivals!Live
    <3>2. s3[p] \in Rows =>
              /\ DOMAIN r = RowFields /\ r.status = "provisioning" /\ r.email = s9[s3[p]].email
              /\ r.email \in Emails
      BY <1>0, <1>q, <2>2, <3>1, Written DEF RowSound
    <3>3. s9' = [s9 EXCEPT ![s3[p]] = r] /\ s11' = s11 /\ s12' = s12
      BY <2>2 DEF Rivals!Serve
    <3>4. ServerSound'
      BY <1>0, <2>2, <3>1, <3>2, <3>3, RowServed
    <3> QED
      BY <1>s, <2>2, <3>4
  <2> QED
    BY <1>6, <2>1, <2>2 DEF Rivals!Complete
<1> QED
  BY <1>1, <1>2, <1>3, <1>4, <1>5, <1>6

\* A tenant, or an administrator, is made only where there is none: nobody loses one.
LEMMA JobWorks ==
    ASSUME ServerSound, NEW i \in Rows, Rivals!JobStep(i)
    PROVE  ServerSound'
<1>0. /\ RowSound(i) /\ i # 0 /\ DOMAIN s9[i] = RowFields /\ DOMAIN s10[i] = {"at", "slug"}
      /\ \A j \in Rows : RowSound(j) /\ j # 0
      /\ DOMAIN s9 = Rows /\ DOMAIN s10 = Rows /\ DOMAIN s11 = Slugs /\ DOMAIN s12 = Emails
  BY RowsCount DEF ServerSound, RowSound
\* The other rows are not touched, and keep what they have.
<1>o. ASSUME DOMAIN s9' = Rows, DOMAIN s10' = Rows, DOMAIN s11' = Slugs, DOMAIN s12' = Emails,
             \A j \in Rows : j # i => s9'[j] = s9[j] /\ s10'[j] = s10[j],
             \A s \in Slugs : s11[s] # 0 => s11'[s] = s11[s],
             \A e \in Emails : s12[e] # 0 => s12'[e] = s12[e],
             RowSound(i)'
      PROVE  ServerSound'
  <2>1. ASSUME NEW j \in Rows, j # i PROVE RowSound(j)'
    <3>1. s9'[j] = s9[j] /\ s10'[j] = s10[j] /\ RowSound(j) /\ j # 0
      BY <1>0, <1>o, <2>1
    <3>2. Rivals!HasTenant(j) => Rivals!HasTenant(j)'
      BY <1>o, <3>1 DEF Rivals!HasTenant
    <3>3. s9[j].email \in Emails /\ s12[s9[j].email] = j => s12'[s9[j].email] = j
      BY <1>o, <3>1
    <3> QED
      BY <3>1, <3>2, <3>3 DEF RowSound
  <2> QED
    BY <1>0, <1>o, <2>1 DEF ServerSound
<1>1. CASE Rivals!Claim(i)
  <2>1. PICK s \in Slugs : s10' = [s10 EXCEPT ![i] = [at |-> "insert", slug |-> s]]
    BY <1>1 DEF Rivals!Claim
  <2>2. s10[i].at = "claim" /\ UNCHANGED <<s9, s11, s12>>
    BY <1>1 DEF Rivals!Claim
  <2>3. s10'[i] = [at |-> "insert", slug |-> s] /\ s9'[i] = s9[i]
    BY <1>0, <2>1, <2>2
  <2>4. RowSound(i)'
    BY <1>0, <2>2, <2>3 DEF RowSound
  <2> QED
    BY <1>0, <1>o, <2>1, <2>2, <2>3, <2>4
<1>f. ASSUME NEW cause, Rivals!FailJob(i, cause), s10[i].at # "idle" PROVE ServerSound'
  <2>0. PICK r : r = [s9[i] EXCEPT !.status = "failed", !.error = cause]
    OBVIOUS
  <2>1. s10' = [s10 EXCEPT ![i] = Rivals!Idle] /\ s9' = [s9 EXCEPT ![i] = r] /\ UNCHANGED <<s11, s12>>
    BY <1>f, <1>0, <2>0 DEF Rivals!FailJob
  <2>2. DOMAIN r = RowFields /\ r.status = "failed" /\ r.email = s9[i].email
    BY <1>0, <2>0, Written
  <2>3. s9'[i] = r /\ s10'[i] = Rivals!Idle
    BY <1>0, <2>1
  <2>4. DOMAIN Rivals!Idle = {"at", "slug"} /\ Rivals!Idle.at = "idle"
    BY DEF Rivals!Idle
  <2>5. s9[i].email \in Emails
    BY <1>0, <1>f DEF RowSound
  <2>6. RowSound(i)'
    BY <2>2, <2>3, <2>4, <2>5 DEF RowSound
  <2> QED
    BY <1>0, <1>o, <2>1, <2>6
<1>2. CASE Rivals!Insert(i)
  <2>0. s10[i].at = "insert" /\ s10[i].slug \in Slugs /\ s9[i].status = "provisioning" /\ s9[i].email \in Emails
    BY <1>0, <1>2 DEF Rivals!Insert, RowSound
  <2>1. CASE Rivals!FailJob(i, "slug") \/ Rivals!FailJob(i, "email")
    BY <1>f, <2>0, <2>1
  <2>2. ASSUME s11[s10[i].slug] = 0, s11' = [s11 EXCEPT ![s10[i].slug] = i], s12' = s12,
               s9' = [s9 EXCEPT ![i].slug = s10[i].slug], s10' = [s10 EXCEPT ![i].at = "admin"]
        PROVE  ServerSound'
    <3>0. PICK r, q : r = [s9[i] EXCEPT !.slug = s10[i].slug] /\ q = [s10[i] EXCEPT !.at = "admin"]
      OBVIOUS
    <3>1. s9'[i] = r /\ s10'[i] = q /\ DOMAIN s11' = Slugs /\ s11'[s10[i].slug] = i
      BY <1>0, <2>0, <2>2, <3>0
    <3>2. DOMAIN r = RowFields /\ r.status = s9[i].status /\ r.email = s9[i].email
      BY <1>0, <3>0, Written
    <3>3. DOMAIN q = {"at", "slug"} /\ q.at = "admin" /\ q.slug = s10[i].slug
      BY <1>0, <3>0
    <3>4. Rivals!HasTenant(i)'
      BY <2>0, <3>1 DEF Rivals!HasTenant
    <3>5. RowSound(i)'
      BY <2>0, <3>1, <3>2, <3>3, <3>4 DEF RowSound
    <3> QED
      BY <1>0, <1>o, <2>0, <2>2, <3>5
  <2> QED
    BY <1>2, <2>1, <2>2 DEF Rivals!Insert, Rivals!None
<1>3. CASE Rivals!CreateAdmin(i)
  <2>0. /\ s10[i].at = "admin" /\ s10[i].slug \in Slugs /\ s9[i].status = "provisioning"
        /\ s9[i].email \in Emails /\ Rivals!HasTenant(i)
    BY <1>0, <1>3 DEF Rivals!CreateAdmin, RowSound
  <2>1. CASE Rivals!FailJob(i, "email")
    BY <1>f, <2>0, <2>1
  <2>2. ASSUME s12[s9[i].email] = 0, s12' = [s12 EXCEPT ![s9[i].email] = i], UNCHANGED <<s9, s11>>,
               s10' = [s10 EXCEPT ![i].at = "finish"]
        PROVE  ServerSound'
    <3>1. /\ DOMAIN s10'[i] = {"at", "slug"} /\ s10'[i].at = "finish" /\ s10'[i].slug = s10[i].slug
          /\ s9'[i] = s9[i] /\ DOMAIN s12' = Emails /\ s12'[s9[i].email] = i
      BY <1>0, <2>0, <2>2
    <3>2. Rivals!HasTenant(i)'
      BY <2>0, <2>2 DEF Rivals!HasTenant
    <3>3. RowSound(i)'
      BY <1>0, <2>0, <3>1, <3>2 DEF RowSound
    <3> QED
      BY <1>0, <1>o, <2>0, <2>2, <3>3
  <2> QED
    BY <1>3, <2>1, <2>2 DEF Rivals!CreateAdmin, Rivals!None
<1>4. CASE Rivals!FinishJob(i)
  <2>0. PICK r : r = [s9[i] EXCEPT !.status = "completed", !.reached = 6]
    OBVIOUS
  <2>1. /\ s10[i].at = "finish" /\ s10' = [s10 EXCEPT ![i] = Rivals!Idle] /\ s9' = [s9 EXCEPT ![i] = r]
        /\ UNCHANGED <<s11, s12>>
    BY <1>4, <1>0, <2>0 DEF Rivals!FinishJob
  <2>2. DOMAIN r = RowFields /\ r.status = "completed" /\ r.email = s9[i].email
    BY <1>0, <2>0, Written
  <2>3. s9'[i] = r /\ s10'[i] = Rivals!Idle
    BY <1>0, <2>1
  <2>4. DOMAIN Rivals!Idle = {"at", "slug"} /\ Rivals!Idle.at = "idle"
    BY DEF Rivals!Idle
  <2>5. s9[i].email \in Emails /\ Rivals!HasTenant(i) /\ s12[s9[i].email] = i
    BY <1>0, <2>1 DEF RowSound
  <2>6. Rivals!HasTenant(i)'
    BY <2>1, <2>5 DEF Rivals!HasTenant
  <2>7. RowSound(i)'
    BY <2>1, <2>2, <2>3, <2>4, <2>5, <2>6 DEF RowSound
  <2> QED
    BY <1>0, <1>o, <2>1, <2>7
<1> QED
  BY <1>1, <1>2, <1>3, <1>4 DEF Rivals!JobStep

LEMMA RivalsStep == RivalsInv /\ [Rivals!Next]_(Rivals!vars) => RivalsInv'
<1> SUFFICES ASSUME RivalsInv, [Rivals!Next]_(Rivals!vars) PROVE RivalsInv'
  OBVIOUS
<1> USE DEF Rivals!wizard, Rivals!server
<1>0. ServerSound
  BY DEF RivalsInv
<1>s. ASSUME UNCHANGED <<s2, s5, s8>>, ServerSound' PROVE RivalsInv'
  BY <1>s DEF RivalsInv
<1>1. ~Rivals!Crash
  BY DEF Rivals!Crash
<1>2. ASSUME NEW e \in Emails, Rivals!RegisterElsewhere(e) PROVE RivalsInv'
  <2>1. s12[e] = 0 /\ s12' = [s12 EXCEPT ![e] = MaxSignups + 1] /\ UNCHANGED <<s2, s5, s8, s9, s10, s11>>
    BY <1>2 DEF Rivals!RegisterElsewhere, Rivals!Other, Rivals!None
  <2>2. DOMAIN s12' = Emails /\ \A f \in Emails : s12[f] # 0 => s12'[f] = s12[f]
    BY <1>0, <2>1 DEF ServerSound
  <2>3. ASSUME NEW i \in Rows PROVE RowSound(i)'
    <3>1. RowSound(i) /\ i # 0 /\ (Rivals!HasTenant(i)' <=> Rivals!HasTenant(i))
      BY <1>0, <2>1, RowsCount DEF ServerSound, Rivals!HasTenant
    <3> QED
      BY <2>1, <2>2, <3>1 DEF RowSound
  <2> QED
    BY <1>0, <1>s, <2>1, <2>2, <2>3 DEF ServerSound
<1>3. ASSUME NEW i \in Rows, Rivals!Expire(i) PROVE RivalsInv'
  <2>0. PICK r : r = [s9[i] EXCEPT !.expired = TRUE]
    OBVIOUS
  <2>1. s9' = [s9 EXCEPT ![i] = r] /\ UNCHANGED <<s2, s5, s8, s10, s11, s12>>
    BY <1>3, <2>0 DEF Rivals!Expire
  <2>2. RowSound(i) /\ DOMAIN s9[i] = RowFields
    BY <1>0 DEF ServerSound, RowSound
  <2>3. DOMAIN r = RowFields /\ r.status = s9[i].status /\ r.email = s9[i].email
    BY <2>0, <2>2, Written
  <2>4. ServerSound'
    BY <1>0, <2>1, <2>2, <2>3, RowServed DEF RowSound
  <2> QED
    BY <1>s, <2>1, <2>4
<1>4. ASSUME NEW i \in Rows, Rivals!JobStep(i) PROVE RivalsInv'
  <2>1. UNCHANGED <<s2, s5, s8>>
    BY <1>4 DEF Rivals!JobStep, Rivals!Claim, Rivals!Insert, Rivals!CreateAdmin, Rivals!FinishJob
  <2> QED
    BY <1>0, <1>4, <1>s, <2>1, JobWorks
<1>5. CASE UNCHANGED Rivals!vars
  <2>1. UNCHANGED <<s2, s5, s8, s9, s10, s11, s12>>
    BY <1>5 DEF Rivals!vars
  <2> QED
    BY <2>1 DEF RivalsInv, ServerSound, RowSound, Rivals!HasTenant
<1> QED
  BY <1>1, <1>2, <1>3, <1>4, <1>5, PersonStep, RequestStep DEF Rivals!Next, Rivals!Signups, Rows

LEMMA RivalsSafe == RivalsInv => Rivals!CompletedIsUsable
BY DEF RivalsInv, ServerSound, RowSound, Rows, Rivals!Signups, Rivals!CompletedIsUsable

-----------------------------------------------------------------------------
(*                         The list of integrations                        *)

\* All integrations and the mail server.
Panel == INSTANCE IntegrationsPanel
    WITH rows <- s1, shown <- s2, modal <- s3, fields <- s4, puts <- s5, email <- s6,
         baseline <- s7, edits <- s8, sent <- s9, Others <- Others, Hosts <- Hosts,
         Fails <- TRUE, LoadFails <- FALSE, Overlap <- FALSE, MaxEdits <- MaxEdits,
         MaxPuts <- MaxPuts

\* What a form may hold of a password: never the stored one.
Typed == {"new", Panel!Empty, Panel!Mask}
Hidden == {Panel!Empty, Panel!Mask}

Settled(r) == DOMAIN r = {"enabled", "host", "password"}

\* The list as it was loaded, and the fields of "Email".
Listing(m) ==
    /\ DOMAIN m = Panel!Keys
    /\ \A k \in Panel!Keys : Settled(m[k]) /\ m[k].password \in Hidden
Mail(m) == m # Panel!NotLoaded => Settled(m) /\ m.password \in {"new", Panel!Empty}

Sent == {"id", "from", "key", "body", "prev", "stage", "answer"}

\* s1 are the rows, s2 the list, s3 and s4 the dialog and its fields, s5 the requests, s6
\* and s7 the fields of "Email": no stored password is in the console to be sent back.
PanelInv ==
    /\ DOMAIN s1 = Panel!Keys /\ \A k \in Panel!Keys : Settled(s1[k])
    /\ s2 # Panel!NotLoaded => Listing(s2)
    /\ s3 # "none" => s3 \in Panel!Keys /\ Listing(s2)
    /\ DOMAIN s4 = {"host", "password"} /\ s4.password \in Typed
    /\ \A p \in s5 :
           /\ DOMAIN p = Sent /\ p.key \in Panel!Keys
           /\ "config" \in DOMAIN p.body => p.body.config.password \in Typed
           /\ p.from = "list" => Listing(s2) /\ Listing(p.prev)
           /\ p.stage = "done" => Settled(p.answer) /\ p.answer.password \in Hidden
    /\ Mail(s6) /\ Mail(s7)

LEMMA PanelBegin == Panel!Init => PanelInv
<1> SUFFICES ASSUME Panel!Init PROVE PanelInv
  OBVIOUS
<1>1. DOMAIN s1 = Panel!Keys
  BY DEF Panel!Init
<1>2. ASSUME NEW k \in Panel!Keys PROVE Settled(s1[k])
  <2>1. \/ s1[k] = [enabled |-> FALSE, host |-> Panel!Empty, password |-> Panel!Empty]
        \/ \E h : s1[k] = [enabled |-> TRUE, host |-> h, password |-> "kept"]
    BY <1>2 DEF Panel!Init
  <2> QED
    BY <2>1 DEF Settled
<1> QED
  BY <1>1, <1>2 DEF Panel!Init, PanelInv, Typed, Mail

\* A list is not mistaken for one that is not there.
LEMMA ListingIsLoaded == ASSUME NEW m, Listing(m) PROVE m # Panel!NotLoaded
<1>1. "smtp" \in Panel!Keys
  BY DEF Panel!Keys
<1>2. "smtp" \notin DOMAIN Panel!NotLoaded
  BY DEF Panel!NotLoaded
<1> QED
  BY <1>1, <1>2 DEF Listing

LEMMA PublicHides ==
    ASSUME NEW r, Settled(r)
    PROVE  Settled(Panel!Public(r)) /\ Panel!Public(r).password \in Hidden
BY DEF Settled, Panel!Public, Hidden

LEMMA UnmaskedIsMail ==
    ASSUME NEW r, Settled(r)
    PROVE  Settled(Panel!Unmasked(r)) /\ Panel!Unmasked(r).password = Panel!Empty
BY DEF Settled, Panel!Unmasked

LEMMA StoredKeeps ==
    ASSUME NEW r, NEW body, Settled(r),
           "config" \in DOMAIN body => body.config.password \in Typed
    PROVE  /\ Settled(Panel!Stored(r, body))
           /\ Panel!Stored(r, body).password \in {r.password, "new"}
<1>1. CASE "config" \notin DOMAIN body
  BY <1>1 DEF Panel!Stored, Settled
<1>2. CASE "config" \in DOMAIN body
  BY <1>2 DEF Panel!Stored, Settled, Typed
<1> QED
  BY <1>1, <1>2

LEMMA PanelStep == PanelInv /\ [Panel!Next]_(Panel!vars) => PanelInv' /\ Panel!PasswordStays
<1> SUFFICES ASSUME PanelInv, [Panel!Next]_(Panel!vars) PROVE PanelInv' /\ Panel!PasswordStays
  OBVIOUS
<1>t. /\ DOMAIN s1 = Panel!Keys /\ \A k \in Panel!Keys : Settled(s1[k])
      /\ s2 # Panel!NotLoaded => Listing(s2)
      /\ s3 # "none" => s3 \in Panel!Keys /\ Listing(s2)
      /\ DOMAIN s4 = {"host", "password"} /\ s4.password \in Typed
      /\ Mail(s6) /\ Mail(s7)
  BY DEF PanelInv
<1> DEFINE Fine(p, list) ==
        /\ DOMAIN p = Sent /\ p.key \in Panel!Keys
        /\ "config" \in DOMAIN p.body => p.body.config.password \in Typed
        /\ p.from = "list" => Listing(list) /\ Listing(p.prev)
        /\ p.stage = "done" => Settled(p.answer) /\ p.answer.password \in Hidden
<1>p. \A p \in s5 : Fine(p, s2)
  BY DEF PanelInv
\* Nothing is stored.
<1>1. ASSUME UNCHANGED s1, s2' # Panel!NotLoaded => Listing(s2'), s3' # "none" => s3' \in Panel!Keys /\ Listing(s2'),
             DOMAIN s4' = {"host", "password"}, s4'.password \in Typed,
             \A p \in s5' : Fine(p, s2'), Mail(s6'), Mail(s7')
      PROVE  PanelInv' /\ Panel!PasswordStays
  BY <1>1, <1>t DEF PanelInv, Panel!PasswordStays
\* The list and the requests are as they were.
<1>2. ASSUME UNCHANGED <<s1, s2, s5>>, s3' = "none" \/ s3' = s3 \/ (s2 # Panel!NotLoaded /\ s3' \in Panel!Keys),
             DOMAIN s4' = {"host", "password"}, s4'.password \in Typed, Mail(s6'), Mail(s7')
      PROVE  PanelInv' /\ Panel!PasswordStays
  BY <1>1, <1>2, <1>t, <1>p
\* A request is sent.
<1>3. ASSUME UNCHANGED <<s1, s3, s4, s6, s7>>, Listing(s2) => Listing(s2'), s2' = s2 \/ Listing(s2'),
             NEW from, NEW k \in Panel!Keys, NEW body, NEW prev, Panel!Put(from, k, body, prev),
             "config" \in DOMAIN body => body.config.password \in Typed,
             from = "list" => Listing(s2') /\ Listing(prev)
      PROVE  PanelInv' /\ Panel!PasswordStays
  <2> DEFINE q == [id |-> s9 + 1, from |-> from, key |-> k, body |-> body, prev |-> prev,
                   stage |-> "sent", answer |-> Panel!NotLoaded]
  <2>1. s5' = s5 \cup {q}
    BY <1>3 DEF Panel!Put
  <2>2. Fine(q, s2')
    BY <1>3 DEF Sent
  <2>3. \A p \in s5 : Fine(p, s2')
    BY <1>3, <1>p
  <2> HIDE DEF q
  <2>4. \A p \in s5' : Fine(p, s2')
    BY <2>1, <2>2, <2>3
  <2> HIDE DEF Fine
  <2> QED
    BY <1>1, <1>3, <1>t, <2>4
\* A request is over, and what the list shows is what it was of.
<1>4. ASSUME UNCHANGED <<s1, s4>>, NEW p \in s5, s5' = s5 \ {p}, s2' = s2 \/ Listing(s2'),
             s3' \in {s3, "none"}, Mail(s6'), Mail(s7')
      PROVE  PanelInv' /\ Panel!PasswordStays
  <2>1. \A q \in s5' : Fine(q, s2')
    BY <1>4, <1>p
  <2> HIDE DEF Fine
  <2> QED
    BY <1>1, <1>4, <1>t, <2>1
<1>5. CASE Panel!Load
  <2>1. Listing(s2')
    <3>1. \A k \in Panel!Keys : Settled(Panel!Public(s1[k])) /\ Panel!Public(s1[k]).password \in Hidden
      BY <1>t, PublicHides
    <3>2. \/ s2' = [k \in Panel!Keys |-> Panel!Public(s1[k])]
          \/ s2' = [k \in Panel!Keys |-> [enabled |-> FALSE, host |-> Panel!Empty, password |-> Panel!Empty]]
      BY <1>5 DEF Panel!Load
    <3> QED
      BY <3>1, <3>2 DEF Listing, Settled, Hidden
  <2>2. UNCHANGED <<s1, s3, s4, s5, s6, s7>>
    BY <1>5 DEF Panel!Load
  <2>3. \A p \in s5' : Fine(p, s2')
    BY <1>p, <2>1, <2>2
  <2> HIDE DEF Fine
  <2> QED
    BY <1>1, <1>t, <2>1, <2>2, <2>3
<1>6. CASE Panel!Leave
  <2>1. UNCHANGED <<s1, s4, s5, s6, s7>> /\ s2' = Panel!NotLoaded /\ s3' = "none"
    BY <1>6 DEF Panel!Leave
  <2>2. \A p \in s5 : p.from # "list"
    BY <1>6 DEF Panel!Leave, Panel!Saving
  <2>3. \A p \in s5' : Fine(p, s2')
    BY <1>p, <2>1, <2>2
  <2> HIDE DEF Fine
  <2> QED
    BY <1>1, <1>t, <2>1, <2>3
<1>7. ASSUME NEW k \in Panel!Keys, Panel!Toggle(k) PROVE PanelInv' /\ Panel!PasswordStays
  <2> DEFINE next == ~s2[k].enabled
  <2>1. /\ Listing(s2) /\ s2' = [s2 EXCEPT ![k].enabled = next]
        /\ Panel!Put("list", k, [enabled |-> next], s2)
        /\ UNCHANGED <<s1, s3, s4, s6, s7>>
    BY <1>7, <1>t DEF Panel!Toggle
  <2>2. Listing(s2')
    BY <2>1 DEF Listing, Settled
  <2>3. "config" \notin DOMAIN [enabled |-> next]
    OBVIOUS
  <2> HIDE DEF next, Fine
  <2> QED
    BY <1>3, <2>1, <2>2, <2>3
<1>8. ASSUME NEW k \in Panel!Keys, Panel!OpenConfig(k) PROVE PanelInv' /\ Panel!PasswordStays
  <2>1. /\ s2 # Panel!NotLoaded /\ s4' = [host |-> s2[k].host, password |-> s2[k].password]
        /\ UNCHANGED <<s1, s2, s5, s6, s7>> /\ s3' = k
    BY <1>8 DEF Panel!OpenConfig
  <2>2. s2[k].password \in Typed
    BY <1>t, <2>1 DEF Listing, Hidden, Typed
  <2>3. DOMAIN s4' = {"host", "password"} /\ s4'.password \in Typed
    BY <2>1, <2>2
  <2> HIDE DEF Fine
  <2> QED
    BY <1>2, <1>t, <2>1, <2>3
<1>9. CASE Panel!CloseConfig
  BY <1>2, <1>9, <1>t DEF Panel!CloseConfig
<1>10. CASE Panel!TypeConfig
  <2>1. /\ UNCHANGED <<s1, s2, s3, s5, s6, s7>>
        /\ \/ \E h : s4' = [s4 EXCEPT !.host = h]
           \/ \E p \in Typed : s4' = [s4 EXCEPT !.password = p]
    BY <1>10 DEF Panel!TypeConfig, Typed
  <2>2. DOMAIN s4' = {"host", "password"} /\ s4'.password \in Typed
    BY <1>t, <2>1
  <2> HIDE DEF Fine
  <2> QED
    BY <1>2, <1>t, <2>1, <2>2
<1>11. CASE Panel!SaveConfig
  <2> DEFINE body == [enabled |-> TRUE, config |-> s4]
  <2>1. Listing(s2) /\ s3 \in Panel!Keys /\ UNCHANGED <<s1, s2, s3, s4, s6, s7>> /\ Panel!Put("list", s3, body, s2)
    BY <1>11, <1>t DEF Panel!SaveConfig
  <2>2. body.config.password \in Typed
    BY <1>t
  <2> HIDE DEF body, Fine
  <2> QED
    BY <1>3, <2>1, <2>2
<1>12. CASE Panel!Disconnect
  <2> DEFINE body == [enabled |-> FALSE, close |-> TRUE]
  <2>1. Listing(s2) /\ s3 \in Panel!Keys /\ UNCHANGED <<s1, s2, s3, s4, s6, s7>> /\ Panel!Put("list", s3, body, s2)
    BY <1>12, <1>t DEF Panel!Disconnect
  <2>2. "config" \notin DOMAIN body
    OBVIOUS
  <2> HIDE DEF body, Fine
  <2> QED
    BY <1>3, <2>1, <2>2
<1>13. CASE Panel!LoadEmail
  <2>1. /\ UNCHANGED <<s1, s2, s3, s4, s5>> /\ s6' = Panel!Unmasked(s1["smtp"]) /\ s7' = s6'
        /\ "smtp" \in Panel!Keys
    BY <1>13 DEF Panel!LoadEmail, Panel!Keys
  <2>2. Settled(s6') /\ s6'.password = Panel!Empty
    BY <1>t, <2>1, UnmaskedIsMail
  <2>3. Mail(s6') /\ Mail(s7')
    BY <2>1, <2>2 DEF Mail
  <2> HIDE DEF Fine
  <2> QED
    BY <1>2, <1>t, <2>1, <2>3
<1>14. CASE Panel!LeaveEmail
  <2>1. UNCHANGED <<s1, s2, s3, s4, s5>> /\ Mail(s6') /\ Mail(s7')
    BY <1>14 DEF Panel!LeaveEmail, Mail
  <2> HIDE DEF Fine
  <2> QED
    BY <1>2, <1>t, <2>1
<1>15. CASE Panel!TypeEmail
  <2>1. /\ UNCHANGED <<s1, s2, s3, s4, s5, s7>> /\ s6 # Panel!NotLoaded
        /\ \/ s6' = [s6 EXCEPT !.enabled = ~@]
           \/ \E h : s6' = [s6 EXCEPT !.host = h]
           \/ \E p \in {"new", Panel!Empty} : s6' = [s6 EXCEPT !.password = p]
    BY <1>15 DEF Panel!TypeEmail
  <2>2. Mail(s6')
    BY <1>t, <2>1 DEF Mail, Settled
  <2> HIDE DEF Fine
  <2> QED
    BY <1>2, <1>t, <2>1, <2>2
<1>16. CASE Panel!ResetEmail
  <2>1. UNCHANGED <<s1, s2, s3, s4, s5, s7>> /\ s6' = s7
    BY <1>16 DEF Panel!ResetEmail
  <2> HIDE DEF Fine
  <2> QED
    BY <1>2, <1>t, <2>1
<1>17. CASE Panel!SaveEmail
  <2> DEFINE body == [enabled |-> s6.enabled, config |-> [host |-> s6.host, password |-> s6.password]]
  <2>1. /\ UNCHANGED <<s1, s2, s3, s4, s6, s7>> /\ Panel!Put("email", "smtp", body, s6)
        /\ "smtp" \in Panel!Keys
    BY <1>17 DEF Panel!SaveEmail, Panel!Keys
  <2>2. body.config.password \in Typed
    BY <1>17, <1>t DEF Panel!SaveEmail, Mail, Typed
  <2> HIDE DEF body, Fine
  <2> QED
    BY <1>3, <2>1, <2>2
<1>18. ASSUME NEW p \in s5, Panel!Store(p) PROVE PanelInv' /\ Panel!PasswordStays
  <2> DEFINE new == Panel!Stored(s1[p.key], p.body)
             q == [p EXCEPT !.stage = "done", !.answer = Panel!Public(new)]
  <2>1. /\ s1' = [s1 EXCEPT ![p.key] = new] /\ s5' = (s5 \ {p}) \cup {q}
        /\ UNCHANGED <<s2, s3, s4, s6, s7>>
    BY <1>18 DEF Panel!Store
  <2>2. Settled(new) /\ new.password \in {s1[p.key].password, "new"}
    BY <1>p, <1>t, StoredKeeps
  <2>a. Fine(p, s2)
    BY <1>p
  <2>3. Fine(q, s2)
    <3>1. Settled(Panel!Public(new)) /\ Panel!Public(new).password \in Hidden
      BY <2>2, PublicHides
    <3> HIDE DEF new
    <3>2. /\ DOMAIN q = Sent /\ q.body = p.body /\ q.from = p.from /\ q.prev = p.prev
          /\ q.answer = Panel!Public(new) /\ q.key = p.key
      BY <2>a DEF Sent
    <3> QED
      BY <2>a, <3>1, <3>2
  <2> HIDE DEF new, q
  <2>4. \A r \in s5' : Fine(r, s2')
    BY <1>p, <2>1, <2>3
  <2> HIDE DEF Fine
  <2>5. /\ DOMAIN s1' = Panel!Keys
        /\ \A k \in Panel!Keys :
               s1'[k] = s1[k] \/ (Settled(s1'[k]) /\ s1'[k].password \in {s1[k].password, "new"})
    BY <1>t, <2>1, <2>2
  <2>6. (\A k \in Panel!Keys : Settled(s1'[k])) /\ Panel!PasswordStays
    BY <1>t, <2>5 DEF Panel!PasswordStays
  <2>7. Mail(s6)' /\ Mail(s7)' /\ (s2' # Panel!NotLoaded => Listing(s2'))
    BY <1>t, <2>1
  <2> QED
    BY <1>t, <2>1, <2>4, <2>5, <2>6, <2>7 DEF PanelInv, Fine
<1>19. ASSUME NEW p \in s5, Panel!AnswerList(p) PROVE PanelInv' /\ Panel!PasswordStays
  <2>1. /\ UNCHANGED <<s1, s4, s6, s7>> /\ s5' = s5 \ {p} /\ s3' \in {s3, "none"}
        /\ p.stage = "done" /\ p.from = "list"
        /\ \/ s2' = [s2 EXCEPT ![p.key] = [p.answer EXCEPT !.enabled = TRUE]]
           \/ s2' = [s2 EXCEPT ![p.key].enabled = FALSE]
           \/ s2' = s2
    BY <1>19 DEF Panel!AnswerList
  <2>2. Listing(s2) /\ Settled(p.answer) /\ p.answer.password \in Hidden
    BY <1>p, <2>1
  <2>3. CASE s2' = [s2 EXCEPT ![p.key] = [p.answer EXCEPT !.enabled = TRUE]]
    <3>1. Settled([p.answer EXCEPT !.enabled = TRUE]) /\ [p.answer EXCEPT !.enabled = TRUE].password \in Hidden
      BY <2>2 DEF Settled
    <3>2. Listing(s2')
      BY <2>2, <2>3, <3>1 DEF Listing
    <3> HIDE DEF Fine
    <3> QED
      BY <1>4, <1>t, <2>1, <3>2
  <2>4. CASE s2' = [s2 EXCEPT ![p.key].enabled = FALSE]
    <3>1. Listing(s2')
      BY <2>2, <2>4 DEF Listing, Settled
    <3> HIDE DEF Fine
    <3> QED
      BY <1>4, <1>t, <2>1, <3>1
  <2> HIDE DEF Fine
  <2> QED
    BY <1>4, <1>t, <2>1, <2>3, <2>4
<1>20. ASSUME NEW p \in s5, Panel!FailList(p) PROVE PanelInv' /\ Panel!PasswordStays
  <2>1. /\ UNCHANGED <<s1, s3, s4, s6, s7>> /\ s5' = s5 \ {p} /\ p.from = "list"
        /\ s2' \in {p.prev, s2}
    BY <1>20 DEF Panel!FailList
  <2>2. s2' = s2 \/ Listing(s2')
    BY <1>p, <2>1
  <2> HIDE DEF Fine
  <2> QED
    BY <1>4, <1>t, <2>1, <2>2
<1>21. ASSUME NEW p \in s5, Panel!AnswerEmail(p) PROVE PanelInv' /\ Panel!PasswordStays
  <2>1. /\ UNCHANGED <<s1, s2, s3, s4>> /\ s5' = s5 \ {p} /\ p.stage = "done"
        /\ s6' = [Panel!Unmasked(p.answer) EXCEPT !.enabled = s6.enabled]
        /\ s7' = [Panel!Unmasked(p.answer) EXCEPT !.enabled = p.body.enabled]
    BY <1>21 DEF Panel!AnswerEmail
  <2>2. Settled(Panel!Unmasked(p.answer)) /\ Panel!Unmasked(p.answer).password = Panel!Empty
    BY <1>p, <2>1, UnmaskedIsMail
  <2>3. Mail(s6') /\ Mail(s7')
    BY <2>1, <2>2 DEF Mail, Settled
  <2> HIDE DEF Fine
  <2> QED
    BY <1>4, <1>t, <2>1, <2>3
<1>22. ASSUME NEW p \in s5, Panel!FailEmail(p) PROVE PanelInv' /\ Panel!PasswordStays
  <2> HIDE DEF Fine
  <2> QED
    BY <1>4, <1>t, <1>22 DEF Panel!FailEmail
<1>23. CASE UNCHANGED Panel!vars
  <2> HIDE DEF Fine
  <2> QED
    BY <1>2, <1>t, <1>23 DEF Panel!vars
<1> QED
  BY <1>5, <1>6, <1>7, <1>8, <1>9, <1>10, <1>11, <1>12, <1>13, <1>14, <1>15, <1>16, <1>17, <1>18,
     <1>19, <1>20, <1>21, <1>22, <1>23 DEF Panel!Next

-----------------------------------------------------------------------------
(*                         The route payments take                         *)

\* The route payments take.
Route == INSTANCE PaymentRoute
    WITH row <- s1, form <- s2, baseline <- s3, view <- s4, chrome <- s5, puts <- s6,
         cleared <- s7, told <- s8, prompted <- s9, edits <- s10, sent <- s11,
         Consoles <- {"c1"}, Values <- Values, LoadFails <- FALSE, Overlap <- FALSE,
         PlatformKeys <- FALSE, MaxEdits <- MaxRouteEdits, MaxPuts <- MaxPuts

Operator == "c1"

\* A row: its fields, the route, the switch.
Whole(x) == DOMAIN x = 1..3 /\ DOMAIN x[1] = Route!Fields

\* What x would leave empty was emptied by hand, or is empty already.
ByHand(x) == \A f \in Route!Fields : x[1][f] = Route!Empty => f \in s7 \/ s1[1][f] = Route!Empty

Answered == \E p \in s6 : p.stage = "done"

\* s1 is the row, and of the one operator s2 are the fields, s3 what they were last equal
\* to, s4 the page, s5 what the header's button sends; s6 are the requests, s7 the fields
\* emptied by hand.  Nothing that can be sent empties a field that was not, unless an
\* answer is on its way, and that is what is stored.
RouteInv ==
    /\ Whole(s1) /\ Whole(s2[Operator]) /\ Whole(s5[Operator])
    /\ s3[Operator] # Route!Never => Whole(s3[Operator])
    /\ DOMAIN s2 = {Operator} /\ DOMAIN s3 = {Operator} /\ DOMAIN s4 = {Operator} /\ DOMAIN s5 = {Operator}
    /\ s4[Operator] = "loading" => s6 = {}
    /\ \A p, q \in s6 : p = q
    /\ \A p \in s6 : DOMAIN p = {"by", "body", "stage", "says", "id"} /\ p.by = Operator /\ Whole(p.body)
    /\ \A p \in s6 : /\ p.stage = "sent" => ByHand(p.body)
                     /\ p.stage = "done" => p.body = s1
    /\ ~Answered => /\ s4[Operator] # "loading" => ByHand(s2[Operator])
                    /\ s3[Operator] # Route!Never => ByHand(s3[Operator])
                    /\ s4[Operator] \in Route!Gateways => ByHand(s5[Operator])

LEMMA RouteBegin == Route!Init => RouteInv
<1> SUFFICES ASSUME Route!Init PROVE RouteInv
  OBVIOUS
<1>1. Whole(Route!Blank)
  BY DEF Whole, Route!Blank
<1>2. Whole(s1)
  <2>1. PICK f \in [Route!Fields -> Values \cup {Route!Empty}] : s1 = <<f, "paybill", TRUE>>
    BY DEF Route!Init
  <2>2. DOMAIN s1 = 1..3 /\ s1[1] = f
    BY <2>1
  <2> QED
    BY <2>2 DEF Whole
<1> QED
  BY <1>1, <1>2 DEF Route!Init, RouteInv, Operator, Answered, Route!Gateways

LEMMA Kept ==
    ASSUME NEW x, Whole(x)
    PROVE  /\ \A f, v : LET y == [x EXCEPT ![1][f] = v] IN
                  Whole(y) /\ \A g \in Route!Fields : y[1][g] = IF g = f THEN v ELSE x[1][g]
           /\ \A r : Whole([x EXCEPT ![2] = r]) /\ [x EXCEPT ![2] = r][1] = x[1]
           /\ \A b : Whole([x EXCEPT ![3] = b]) /\ [x EXCEPT ![3] = b][1] = x[1]
BY DEF Whole

LEMMA RouteStep == RouteInv /\ [Route!Next]_(Route!vars) => RouteInv' /\ Route!OnlyByHand
<1> DEFINE Safe == RouteInv' /\ Route!OnlyByHand
<1> SUFFICES ASSUME RouteInv, [Route!Next]_(Route!vars) PROVE Safe
  OBVIOUS
<1> DEFINE row == s1  form == s2[Operator]  base == s3[Operator]  view == s4[Operator]
           chrome == s5[Operator]
<1>t. /\ Whole(row) /\ Whole(form) /\ Whole(chrome) /\ (base # Route!Never => Whole(base))
      /\ DOMAIN s2 = {Operator} /\ DOMAIN s3 = {Operator} /\ DOMAIN s4 = {Operator} /\ DOMAIN s5 = {Operator}
      /\ view = "loading" => s6 = {}
      /\ \A p, q \in s6 : p = q
      /\ \A p \in s6 : DOMAIN p = {"by", "body", "stage", "says", "id"} /\ p.by = Operator /\ Whole(p.body)
      /\ \A p \in s6 : (p.stage = "sent" => ByHand(p.body)) /\ (p.stage = "done" => p.body = row)
  BY DEF RouteInv
<1>h. ~Answered => /\ view # "loading" => ByHand(form)
                   /\ base # Route!Never => ByHand(base)
                   /\ view \in Route!Gateways => ByHand(chrome)
  BY DEF RouteInv
<1>r. ASSUME NEW g, NEW f, NEW saves
      PROVE  \/ Route!Rechrome(Operator, g, f, saves) = [s5 EXCEPT ![Operator] = f]
             \/ /\ Route!Rechrome(Operator, g, f, saves) = s5
                /\ g \notin Route!Gateways \/ g = view
  BY DEF Route!Rechrome
<1>s. ~Route!Saving(Operator) => s6 = {}
  BY <1>t DEF Route!Saving
\* The page goes on: no row is stored, no request is sent or answered.
<1>1. ASSUME UNCHANGED <<s1, s6>>, s7 \subseteq s7', s6 = {} \/ UNCHANGED <<s2, s3, s7>>,
             DOMAIN s2' = {Operator}, DOMAIN s3' = {Operator}, DOMAIN s4' = {Operator}, DOMAIN s5' = {Operator},
             Whole(form'), Whole(chrome'), base' # Route!Never => Whole(base'),
             view' # "loading" \/ UNCHANGED s4,
             ~Answered => /\ view' # "loading" => ByHand(form)'
                          /\ base' # Route!Never => ByHand(base)'
                          /\ view' \in Route!Gateways => ByHand(chrome)'
      PROVE  Safe
  BY <1>1, <1>t DEF RouteInv, Route!OnlyByHand, Answered, ByHand
<1>2. CASE Route!Load(Operator)
  <2>1. /\ s4' = [s4 EXCEPT ![Operator] = "list"] /\ s2' = [s2 EXCEPT ![Operator] = s1]
        /\ s3' = [s3 EXCEPT ![Operator] = s1] /\ UNCHANGED <<s1, s5, s6, s7>> /\ s6 = {}
    BY <1>2, <1>t DEF Route!Load
  <2> QED
    BY <1>1, <1>t, <2>1 DEF ByHand, Route!Gateways
<1>3. ASSUME NEW g \in Route!Gateways, Route!Open(Operator, g) PROVE Safe
  <2>1. /\ view = "list" /\ s4' = [s4 EXCEPT ![Operator] = g] /\ UNCHANGED <<s1, s2, s3, s6, s7>>
        /\ s5' = [s5 EXCEPT ![Operator] = form]
    BY <1>3, <1>r DEF Route!Open, Route!Rechrome, Route!Gateways
  <2> QED
    BY <1>1, <1>t, <1>h, <2>1 DEF ByHand, Route!Gateways
<1>4. CASE Route!Back(Operator)
  <2>1. /\ view \in Route!Gateways /\ s4' = [s4 EXCEPT ![Operator] = "list"]
        /\ UNCHANGED <<s1, s2, s3, s5, s6, s7>>
    BY <1>4 DEF Route!Back
  <2> QED
    BY <1>1, <1>t, <1>h, <2>1 DEF ByHand, Route!Gateways
\* The operator changes the fields to those of x.
<1>5. ASSUME NEW x, Whole(x), s6 = {}, view \in Route!Gateways, s7 \subseteq s7', ByHand(x)',
             s2' = [s2 EXCEPT ![Operator] = x], UNCHANGED <<s1, s3, s4, s6>>,
             NEW saves, s5' = Route!Rechrome(Operator, view, x, saves)
      PROVE  Safe
  <2>1. s5' = [s5 EXCEPT ![Operator] = x] \/ s5' = s5
    BY <1>5, <1>r
  <2>2. ~Answered
    BY <1>5 DEF Answered
  <2>3. ByHand(chrome)' /\ Whole(chrome')
    BY <1>5, <1>t, <1>h, <2>1, <2>2 DEF ByHand
  <2>4. base' # Route!Never => ByHand(base)'
    BY <1>5, <1>h, <2>2 DEF ByHand
  <2> QED
    BY <1>1, <1>5, <1>t, <2>1, <2>3, <2>4
<1>6. CASE Route!Type(Operator)
  <2>1. view \in Route!Gateways /\ s6 = {}
    BY <1>6, <1>s DEF Route!Type
  <2>2. PICK f, v : /\ Route!Edited(Operator, [form EXCEPT ![1][f] = v])
                    /\ s7' = IF v = Route!Empty THEN s7 \cup {f} ELSE s7
    BY <1>6 DEF Route!Type
  <2> DEFINE y == [form EXCEPT ![1][f] = v]
  <2>y. Whole(y) /\ \A g \in Route!Fields : y[1][g] = IF g = f THEN v ELSE form[1][g]
    BY <1>t, Kept
  <2>3. PICK x : x = y
    OBVIOUS
  <2>4. Whole(x) /\ \A g \in Route!Fields : x[1][g] = IF g = f THEN v ELSE form[1][g]
    <3> HIDE DEF y
    <3> QED
      BY <2>y, <2>3
  <2>5. /\ s2' = [s2 EXCEPT ![Operator] = x] /\ UNCHANGED <<s1, s3, s4, s6>>
        /\ s5' = Route!Rechrome(Operator, view, x, Route!Saving(Operator))
    BY <2>2, <2>3 DEF Route!Edited
  <2>6. ByHand(form)
    BY <1>h, <2>1 DEF Answered, Route!Gateways
  <2>7. ByHand(x)'
    BY <2>2, <2>4, <2>5, <2>6 DEF ByHand
  <2>8. s7 \subseteq s7'
    BY <2>2
  <2> QED
    BY <1>5, <2>1, <2>4, <2>5, <2>7, <2>8
<1>7. CASE Route!ChooseRoute(Operator)
  <2>1. view \in Route!Gateways /\ s6 = {} /\ s7' = s7
    BY <1>7, <1>s DEF Route!ChooseRoute, Route!Gateways
  <2>2. PICK r : Route!Edited(Operator, [form EXCEPT ![2] = r])
    BY <1>7 DEF Route!ChooseRoute
  <2>3. PICK x : x = [form EXCEPT ![2] = r]
    OBVIOUS
  <2>4. Whole(x) /\ x[1] = form[1]
    BY <1>t, <2>3, Kept
  <2>5. /\ s2' = [s2 EXCEPT ![Operator] = x] /\ UNCHANGED <<s1, s3, s4, s6>>
        /\ s5' = Route!Rechrome(Operator, view, x, Route!Saving(Operator))
    BY <2>2, <2>3 DEF Route!Edited
  <2>6. ByHand(form)
    BY <1>h, <2>1 DEF Answered, Route!Gateways
  <2>7. ByHand(x)'
    BY <2>1, <2>4, <2>5, <2>6 DEF ByHand
  <2> QED
    BY <1>5, <2>1, <2>4, <2>5, <2>7
<1>8. CASE Route!Reset(Operator)
  <2>1. /\ view \in Route!Gateways /\ s6 = {} /\ base # Route!Never /\ s7' = s7
        /\ s2' = [s2 EXCEPT ![Operator] = base] /\ UNCHANGED <<s1, s3, s4, s6>>
        /\ s5' = Route!Rechrome(Operator, view, base, FALSE)
    BY <1>8, <1>t DEF Route!Reset, Route!Dirty, Route!Saving
  <2>2. ByHand(base)'
    BY <1>h, <2>1 DEF Answered, ByHand
  <2> QED
    BY <1>5, <1>t, <2>1, <2>2
\* The operator sends body, and the fields become those of x.
<1>9. ASSUME NEW body, Whole(body), ByHand(body), NEW x, Whole(x), ByHand(x), NEW says, s6 = {},
             view # "loading", Route!Send(Operator, body, says, x)
      PROVE  Safe
  <2> DEFINE p == [by |-> Operator, body |-> body, stage |-> "sent", says |-> says, id |-> s11 + 1]
  <2>1. /\ s2' = [s2 EXCEPT ![Operator] = x] /\ s6' = {p} /\ UNCHANGED <<s1, s3, s4, s7>>
        /\ s5' = Route!Rechrome(Operator, view, x, TRUE)
    BY <1>9 DEF Route!Send
  <2>2. s5' = [s5 EXCEPT ![Operator] = x] \/ s5' = s5
    BY <1>r, <2>1
  <2>3. ~Answered /\ ~Answered'
    BY <1>9, <2>1 DEF Answered
  <2>4. /\ DOMAIN p = {"by", "body", "stage", "says", "id"} /\ p.by = Operator /\ Whole(p.body)
        /\ p.stage = "sent" /\ ByHand(p.body)
    BY <1>9
  <2> HIDE DEF p
  <2>5. \A q \in s6' : /\ DOMAIN q = {"by", "body", "stage", "says", "id"} /\ q.by = Operator /\ Whole(q.body)
                       /\ q.stage = "sent" /\ ByHand(q.body)'
    BY <2>1, <2>4 DEF ByHand
  <2>6. Whole(s2'[Operator]) /\ Whole(s5'[Operator]) /\ ByHand(s2[Operator])'
    BY <1>9, <1>t, <2>1, <2>2 DEF ByHand
  <2>7. view \in Route!Gateways => ByHand(s5[Operator])'
    BY <1>9, <1>t, <1>h, <2>1, <2>2, <2>3 DEF ByHand
  <2>8. base # Route!Never => ByHand(s3[Operator])'
    BY <1>h, <2>1, <2>3 DEF ByHand
  <2>9. DOMAIN s2' = {Operator} /\ DOMAIN s5' = {Operator}
    BY <1>t, <2>1, <2>2
  <2> QED
    BY <1>9, <1>t, <2>1, <2>3, <2>5, <2>6, <2>7, <2>8, <2>9 DEF RouteInv, Route!OnlyByHand
<1>10. CASE Route!Save(Operator)
  <2>1. view \in Route!Gateways /\ s6 = {} /\ Route!Send(Operator, form, "saved", form)
    BY <1>10, <1>t DEF Route!Save, Route!Saving
  <2>2. view # "loading" /\ ByHand(form)
    BY <1>h, <2>1 DEF Answered, Route!Gateways
  <2> QED
    BY <1>9, <1>t, <2>1, <2>2
<1>11. CASE Route!Activate(Operator)
  <2> DEFINE body == [chrome EXCEPT ![2] = Route!RouteOf(view)]
  <2>1. view \in Route!Gateways /\ s6 = {} /\ Route!Send(Operator, body, view, form)
    BY <1>11, <1>t DEF Route!Activate, Route!Saving
  <2>2. view # "loading" /\ ByHand(form) /\ ByHand(chrome)
    BY <1>h, <2>1 DEF Answered, Route!Gateways
  <2>3. Whole(body) /\ body[1] = chrome[1]
    BY <1>t, Kept
  <2> HIDE DEF body
  <2>4. ByHand(body)
    BY <2>2, <2>3 DEF ByHand
  <2> QED
    BY <1>9, <1>t, <2>1, <2>2, <2>3, <2>4
<1>12. CASE Route!ToggleMethod(Operator)
  <2> DEFINE next == [form EXCEPT ![3] = ~@]
  <2>1. view = "list" /\ s6 = {} /\ Route!Send(Operator, next, "saved", next)
    BY <1>12, <1>t DEF Route!ToggleMethod, Route!Saving
  <2>2. ByHand(form)
    BY <1>h, <2>1 DEF Answered
  <2>3. Whole(next) /\ next[1] = form[1]
    BY <1>t, Kept
  <2> HIDE DEF next
  <2>4. ByHand(next)
    BY <2>2, <2>3 DEF ByHand
  <2> QED
    BY <1>9, <2>1, <2>3, <2>4
<1>13. ASSUME NEW p \in s6, Route!Store(p) PROVE Safe
  <2> DEFINE q == [p EXCEPT !.stage = "done"]
  <2>1. /\ p.stage = "sent" /\ s1' = p.body /\ s6' = {q} /\ UNCHANGED <<s2, s3, s4, s5, s7>>
    BY <1>13, <1>t DEF Route!Store, Route!local
  <2>2. /\ DOMAIN q = {"by", "body", "stage", "says", "id"} /\ q.by = Operator
        /\ q.body = p.body /\ q.stage = "done" /\ Whole(p.body) /\ ByHand(p.body)
    BY <1>t, <2>1
  <2> HIDE DEF q
  <2>3. Answered'
    BY <2>1, <2>2 DEF Answered
  <2>4. Route!OnlyByHand
    BY <2>1, <2>2 DEF Route!OnlyByHand, ByHand
  <2>5. view # "loading"
    BY <1>t
  <2> QED
    BY <1>t, <2>1, <2>2, <2>3, <2>4, <2>5 DEF RouteInv
<1>14. ASSUME NEW p \in s6, Route!PutFails(p) PROVE Safe
  <2> DEFINE q == [p EXCEPT !.stage = "failed"]
  <2>1. /\ p.stage = "sent" /\ s6' = {q} /\ UNCHANGED <<s1, s2, s3, s4, s5, s7>>
    BY <1>14, <1>t DEF Route!PutFails, Route!local
  <2>2. /\ DOMAIN q = {"by", "body", "stage", "says", "id"} /\ q.by = Operator
        /\ q.body = p.body /\ q.stage = "failed" /\ Whole(p.body)
    BY <1>t, <2>1
  <2> HIDE DEF q
  <2>3. ~Answered /\ ~Answered'
    BY <1>t, <2>1, <2>2 DEF Answered
  <2>4. view # "loading"
    BY <1>t
  <2> QED
    BY <1>t, <1>h, <2>1, <2>2, <2>3, <2>4 DEF RouteInv, Route!OnlyByHand, ByHand
<1>15. ASSUME NEW p \in s6, Route!Answer(p) PROVE Safe
  <2> DEFINE f == IF p.stage = "done" THEN p.body ELSE form
  <2>1. /\ p.by = Operator /\ s6' = {} /\ p.stage # "sent" /\ UNCHANGED <<s1, s4, s7>>
        /\ s2' = [s2 EXCEPT ![Operator] = f]
        /\ s3' = IF p.stage = "done" THEN [s3 EXCEPT ![Operator] = f] ELSE s3
        /\ s5' = Route!Rechrome(Operator, view, f, FALSE)
    BY <1>15, <1>t DEF Route!Answer
  <2>2. Route!Saving(Operator)
    BY <2>1 DEF Route!Saving
  <2>3. s5' = [s5 EXCEPT ![Operator] = f] \/ (s5' = s5 /\ view \notin Route!Gateways)
    BY <2>1, <2>2 DEF Route!Rechrome
  <2>4. Answered <=> p.stage = "done"
    BY <1>t DEF Answered
  <2>5. view # "loading"
    BY <1>t
  <2>6. Whole(f) /\ ByHand(f)
    BY <1>t, <1>h, <2>4, <2>5 DEF ByHand
  <2>7. base' # Route!Never => Whole(base') /\ ByHand(base')
    BY <1>t, <1>h, <2>1, <2>4, <2>6
  <2> HIDE DEF f
  <2>8. ~Answered'
    BY <2>1 DEF Answered
  <2> QED
    BY <1>t, <2>1, <2>3, <2>5, <2>6, <2>7, <2>8 DEF RouteInv, Route!OnlyByHand, ByHand
<1>16. CASE Route!Prompt
  BY <1>1, <1>16, <1>t, <1>h DEF Route!Prompt, Route!local, ByHand
<1>17. CASE UNCHANGED Route!vars
  BY <1>1, <1>17, <1>t, <1>h DEF Route!vars, ByHand
<1> HIDE DEF Safe, row, form, base, view, chrome
<1> QED
  BY <1>2, <1>3, <1>4, <1>6, <1>7, <1>8, <1>10, <1>11, <1>12, <1>13, <1>14, <1>15, <1>16, <1>17
  DEF Route!Next, Operator

-----------------------------------------------------------------------------
(*                      The credentials of a provider                      *)

\* Messaging providers and their credentials.
Vault == INSTANCE ProviderVault
    WITH rows <- s1, selected <- s2, tab <- s3, data <- s4, loads <- s5, open <- s6,
         form <- s7, request <- s8, stale <- s9, edits <- s10, asked <- s11, tabs <- s12,
         Sms <- Sms, Whatsapp <- Whatsapp, Listed <- Listed, Values <- Values,
         Overlap <- FALSE, Toggles <- TRUE, MaxEdits <- MaxEdits, MaxLoads <- MaxLoads,
         MaxTabs <- MaxTabs

Pair == {"plain", "secret"}

\* s1 are the rows, s2 the providers selected, s7 the form, s8 the request under way: the
\* rows are rows, and what is typed or sent is a whole set of credentials.
VaultInv ==
    /\ DOMAIN s1 = Vault!Providers
    /\ \A p \in Vault!Providers : DOMAIN s1[p] = {"enabled", "config"} /\ DOMAIN s1[p].config = Pair
    /\ DOMAIN s7 = Pair
    /\ s8.kind = "save" => DOMAIN s8.config = Pair

LEMMA VaultBegin == Vault!Init => VaultInv
<1> SUFFICES ASSUME Vault!Init PROVE VaultInv
  OBVIOUS
<1>1. DOMAIN s1 = Vault!Providers
  BY DEF Vault!Init
<1>2. ASSUME NEW p \in Vault!Providers
      PROVE  DOMAIN s1[p] = {"enabled", "config"} /\ DOMAIN s1[p].config = Pair
  <2>1. \/ s1[p] = [enabled |-> FALSE, config |-> Vault!Blank]
        \/ \E v : s1[p] = [enabled |-> TRUE, config |-> [plain |-> v, secret |-> v]]
    BY <1>2 DEF Vault!Init
  <2>2. CASE s1[p] = [enabled |-> FALSE, config |-> Vault!Blank]
    <3>1. s1[p].config = Vault!Blank /\ DOMAIN Vault!Blank = Pair
      BY <2>2 DEF Vault!Blank, Pair
    <3> QED
      BY <2>2, <3>1
  <2>3. ASSUME NEW v, s1[p] = [enabled |-> TRUE, config |-> [plain |-> v, secret |-> v]]
        PROVE  DOMAIN s1[p] = {"enabled", "config"} /\ DOMAIN s1[p].config = Pair
    <3>1. s1[p].config = [plain |-> v, secret |-> v]
      BY <2>3
    <3> QED
      BY <2>3, <3>1 DEF Pair
  <2> QED
    BY <2>1, <2>2, <2>3
<1>3. DOMAIN s7 = Pair /\ s8.kind # "save"
  BY DEF Vault!Init, Vault!Blank, Vault!Idle, Pair
<1> QED
  BY <1>1, <1>2, <1>3 DEF VaultInv

LEMMA VaultStep ==
    VaultInv /\ [Vault!Next]_(Vault!vars) => VaultInv' /\ Vault!SecretsStay /\ Vault!SwitchingKeeps
<1> DEFINE Safe == VaultInv' /\ Vault!SecretsStay /\ Vault!SwitchingKeeps
<1> SUFFICES ASSUME VaultInv, [Vault!Next]_(Vault!vars) PROVE Safe
  OBVIOUS
<1>t. /\ DOMAIN s1 = Vault!Providers
      /\ \A p \in Vault!Providers : DOMAIN s1[p] = {"enabled", "config"} /\ DOMAIN s1[p].config = Pair
      /\ DOMAIN s7 = Pair
      /\ s8.kind = "save" => DOMAIN s8.config = Pair
  BY DEF VaultInv
\* The panel goes on, and nothing is stored.
<1>1. ASSUME UNCHANGED <<s1, s2>>, DOMAIN s7' = Pair, s8'.kind = "save" => DOMAIN s8'.config = Pair
      PROVE  Safe
  BY <1>1, <1>t DEF VaultInv, Vault!SecretsStay, Vault!SwitchingKeeps
\* A switch is stored: of a provider, or of which one is used.
<1>2. ASSUME DOMAIN s1' = DOMAIN s1, DOMAIN s7' = Pair, s8'.kind = "save" => DOMAIN s8'.config = Pair,
             \A p \in Vault!Providers : DOMAIN s1'[p] = DOMAIN s1[p] /\ s1'[p].config = s1[p].config
      PROVE  Safe
  BY <1>2, <1>t DEF VaultInv, Vault!SecretsStay, Vault!SwitchingKeeps
<1>i. /\ \A d, p : DOMAIN Vault!Initial(d, p) = Pair
      /\ DOMAIN Vault!Blank = Pair /\ Vault!Idle.kind # "save"
  BY DEF Vault!Initial, Vault!Blank, Vault!Idle, Pair
<1>3. ASSUME NEW ch, Vault!GoTo(ch) PROVE Safe
  BY <1>1, <1>3, <1>t DEF Vault!GoTo, Vault!server
<1>4. ASSUME NEW l, Vault!Serve(l) \/ Vault!Loaded(l) \/ Vault!LoadFails(l) PROVE Safe
  BY <1>1, <1>4, <1>t, <1>i DEF Vault!Serve, Vault!Loaded, Vault!LoadFails, Vault!server
<1>5. ASSUME NEW p, Vault!OpenProvider(p) PROVE Safe
  BY <1>1, <1>5, <1>t, <1>i DEF Vault!OpenProvider, Vault!server
<1>6. CASE Vault!Back \/ Vault!Reset
  BY <1>1, <1>6, <1>t, <1>i DEF Vault!Back, Vault!Reset, Vault!server
<1>7. CASE Vault!Type
  <2>1. PICK v : s7' \in {[s7 EXCEPT !.plain = v], [s7 EXCEPT !.secret = v]}
    BY <1>7 DEF Vault!Type
  <2>2. DOMAIN s7' = Pair
    BY <1>t, <2>1
  <2> QED
    BY <1>1, <1>7, <1>t, <2>2 DEF Vault!Type, Vault!server
<1>8. CASE Vault!Save
  BY <1>1, <1>8, <1>t DEF Vault!Save, Vault!Sends, Vault!server, Vault!panel
<1>9. CASE Vault!Activate \/ Vault!Revert
  BY <1>1, <1>9, <1>t DEF Vault!Activate, Vault!Revert, Vault!Sends, Vault!server, Vault!panel
<1>10. CASE Vault!StoreSaved
  <2> DEFINE new(p) == Vault!Merged(s1[p].config, s8.config)
  <2>1. /\ s1' = [s1 EXCEPT ![s8.of] = [enabled |-> TRUE, config |-> new(s8.of)]]
        /\ UNCHANGED <<s2, s7>> /\ s8' = Vault!Idle /\ DOMAIN s8.config = Pair
    BY <1>10, <1>t DEF Vault!StoreSaved, Vault!Answered
  <2>2. ASSUME NEW p
        PROVE  /\ DOMAIN new(p) = Pair
               /\ s1[p].config.secret # Vault!Empty => new(p).secret # Vault!Empty
    BY <2>1 DEF Vault!Merged, Pair
  <2>3. ASSUME NEW p \in Vault!Providers
        PROVE  s1'[p] = s1[p] \/ s1'[p] = [enabled |-> TRUE, config |-> new(p)]
    BY <1>t, <2>1, <2>3
  <2> HIDE DEF new
  <2>4. ASSUME NEW p \in Vault!Providers
        PROVE  /\ DOMAIN s1'[p] = {"enabled", "config"} /\ DOMAIN s1'[p].config = Pair
               /\ s1[p].config.secret # Vault!Empty => s1'[p].config.secret # Vault!Empty
    <3>1. CASE s1'[p] = s1[p]
      BY <1>t, <2>4, <3>1
    <3>2. CASE s1'[p] = [enabled |-> TRUE, config |-> new(p)]
      <4>1. DOMAIN s1'[p] = {"enabled", "config"} /\ s1'[p].config = new(p)
        BY <3>2
      <4> QED
        BY <2>2, <4>1
    <3> QED
      BY <2>3, <2>4, <3>1, <3>2
  <2>5. DOMAIN s1' = Vault!Providers
    BY <1>t, <2>1
  <2> QED
    BY <1>t, <1>i, <2>1, <2>4, <2>5 DEF VaultInv, Vault!SecretsStay, Vault!SwitchingKeeps
<1>11. CASE Vault!StoreActive
  <2>1. s1' = [s1 EXCEPT ![s8.of].enabled = TRUE] /\ s7' = Vault!Blank /\ s8' = Vault!Idle
    BY <1>11 DEF Vault!StoreActive, Vault!Answered
  <2> QED
    BY <1>2, <1>t, <1>i, <2>1
<1>12. CASE Vault!StoreReverted
  BY <1>2, <1>12, <1>t, <1>i DEF Vault!StoreReverted, Vault!Answered
<1>13. CASE Vault!WriteFails
  BY <1>1, <1>13, <1>t, <1>i DEF Vault!WriteFails, Vault!server, Vault!panel
<1>14. CASE Vault!ToggleRow
  <2>1. s1' = [s1 EXCEPT ![Listed].enabled = ~@] /\ UNCHANGED <<s7, s8>>
    BY <1>14 DEF Vault!ToggleRow
  <2> QED
    BY <1>2, <1>t, <2>1
<1>15. CASE UNCHANGED Vault!vars
  BY <1>1, <1>15, <1>t DEF Vault!vars
<1> QED
  BY <1>3, <1>4, <1>5, <1>6, <1>7, <1>8, <1>9, <1>10, <1>11, <1>12, <1>13, <1>14, <1>15
  DEF Vault!Next

-----------------------------------------------------------------------------
(*                         The tabs of the settings                        *)

\* The tabs of the settings, for one who waits, with refusals.
Settings == INSTANCE SettingsForms
    WITH tab <- s1, stored <- s2, form <- s3, base <- s4, on <- s5, stage <- s6,
         saving <- s7, locked <- s8, calls <- s9, tally <- s10, Ordered <- TRUE,
         Refusals <- TRUE, Patient <- TRUE, MaxOut <- TabsOut, MaxEdits <- TabEdits,
         MaxSaves <- TabSaves, MaxTurns <- TabTurns

\* A queue of calls with one added, and without the first.
LEMMA QueueGrows ==
    ASSUME NEW S, NEW q \in Seq(S), NEW c
    PROVE  /\ Append(q, c) \in Seq(S \cup {c}) /\ Len(Append(q, c)) = Len(q) + 1
           /\ \A i \in 1 .. Len(q) : Append(q, c)[i] = q[i]
           /\ Append(q, c)[Len(q) + 1] = c
OBVIOUS

LEMMA QueueGoesOn ==
    ASSUME NEW S, NEW q \in Seq(S), 1 \in DOMAIN q
    PROVE  /\ Settings!RemoveAt(q, 1) \in Seq(S) /\ Len(Settings!RemoveAt(q, 1)) = Len(q) - 1
           /\ \A i \in 1 .. Len(q) - 1 : Settings!RemoveAt(q, 1)[i] = q[i + 1]
<1>1. Len(q) \in Nat \ {0}
  OBVIOUS
<1>2. SubSeq(q, 1, 0) = <<>>
  BY <1>1
<1>3. /\ SubSeq(q, 2, Len(q)) \in Seq(S) /\ Len(SubSeq(q, 2, Len(q))) = Len(q) - 1
      /\ \A i \in 1 .. Len(q) - 1 : SubSeq(q, 2, Len(q))[i] = q[i + 1]
  <2>1. \A i \in 2 .. Len(q) : q[i] \in S
    OBVIOUS
  <2>2. /\ SubSeq(q, 2, Len(q)) \in Seq(S)
        /\ Len(SubSeq(q, 2, Len(q))) = IF 2 <= Len(q) THEN Len(q) - 2 + 1 ELSE 0
        /\ \A i \in 1 .. Len(q) - 2 + 1 : SubSeq(q, 2, Len(q))[i] = q[2 + i - 1]
    BY <1>1, <2>1, SubSeqProperties
  <2>3. ASSUME NEW i \in 1 .. Len(q) - 1 PROVE SubSeq(q, 2, Len(q))[i] = q[i + 1]
    <3>1. i \in 1 .. Len(q) - 2 + 1 /\ 2 + i - 1 = i + 1
      BY <1>1
    <3> QED
      BY <2>2, <3>1
  <2>4. \A n \in Nat \ {0} : n - 2 + 1 = n - 1 /\ (2 <= n \/ n - 1 = 0)
    OBVIOUS
  <2>5. Len(SubSeq(q, 2, Len(q))) = Len(q) - 1
    BY <1>1, <2>2, <2>4, Zenon
  <2> QED
    BY <2>2, <2>3, <2>5
<1> DEFINE rest == SubSeq(q, 2, Len(q))
<1> HIDE DEF rest
<1>4. Settings!RemoveAt(q, 1) = <<>> \o rest
  BY <1>2 DEF Settings!RemoveAt, rest
<1>5. <<>> \o rest = rest
  BY <1>3 DEF rest
<1> QED
  BY <1>3, <1>4, <1>5 DEF rest

\* A text in two parts, and one without blanks.
Text(t) == DOMAIN t = {1, 2} /\ \A p \in {1, 2} : t[p] \in {"", "x", "y"}
Clean(t) == Text(t) /\ "" \notin {t[1], t[2]}
CallFields == {"kind", "part", "text", "s", "to", "was", "done", "ok", "read"}

\* A request under way: a save sends no blanks, and what was read held none.
Sound(c) ==
    /\ DOMAIN c = CallFields
    /\ c.kind = "save" => Clean(c.text)
    /\ c.ok => c.done /\ Clean(c.read.text)

\* s1 is the tab, s2 what the server holds, s3 and s4 the text typed and its base, s6 how
\* far the tab got, s9 the requests: a form that shows Save holds no blanks.
SettingsInv ==
    (s1.blank => s1.bar) =>
        /\ DOMAIN s2 = {"text", "on"} /\ Clean(s2.text)
        /\ Text(s3)
        /\ s6 = "ready" => Clean(s3) /\ Clean(s4)
        /\ s6 = "blank" => s1.blank
        /\ \E S : s9 \in Seq(S)
        /\ \A i \in DOMAIN s9 : Sound(s9[i])

LEMMA SettingsBegin == Settings!Init => SettingsInv
<1> SUFFICES ASSUME Settings!Init PROVE SettingsInv
  OBVIOUS
<1> DEFINE load == [Settings!Call("load", 1, Settings!Blank, 0, FALSE) EXCEPT !.was = {}]
<1>1. Sound(load)
  BY DEF Sound, CallFields, Settings!Call
<1>2. s9 = <<load>>
  BY DEF Settings!Init, Settings!Load
<1> HIDE DEF load
<1>3. s9 \in Seq({load}) /\ \A i \in DOMAIN s9 : s9[i] = load
  BY <1>2
<1>4. Text(Settings!Blank) /\ Clean(<<"x", "x">>)
  BY DEF Settings!Blank, Clean, Text
<1> QED
  BY <1>1, <1>3, <1>4 DEF Settings!Init, SettingsInv

LEMMA TabStays == [Settings!Next]_(Settings!vars) => s1' = s1
<1> SUFFICES ASSUME [Settings!Next]_(Settings!vars) PROVE s1' = s1
  OBVIOUS
<1>1. ASSUME NEW x, \/ Settings!Type(x) \/ Settings!Turn(x) \/ Settings!Order(x) PROVE s1' = s1
  BY <1>1 DEF Settings!Type, Settings!Turn, Settings!Order
<1>2. ASSUME NEW i, \/ Settings!Serve(i) \/ Settings!LoadAnswered(i) \/ Settings!SaveAnswered(i)
                    \/ Settings!TurnAnswered(i) \/ Settings!OrderAnswered(i)
      PROVE  s1' = s1
  BY <1>2 DEF Settings!Serve, Settings!LoadAnswered, Settings!SaveAnswered,
              Settings!TurnAnswered, Settings!OrderAnswered
<1>3. CASE Settings!Reset \/ Settings!Save \/ UNCHANGED Settings!vars
  BY <1>3 DEF Settings!Reset, Settings!Save, Settings!vars
<1> QED
  BY <1>1, <1>2, <1>3 DEF Settings!Next

LEMMA SettingsStep == SettingsInv /\ [Settings!Next]_(Settings!vars) => SettingsInv'
<1> SUFFICES ASSUME SettingsInv, [Settings!Next]_(Settings!vars), s1.blank => s1.bar, s1' = s1
             PROVE  SettingsInv'
  BY TabStays DEF SettingsInv
<1>t. /\ DOMAIN s2 = {"text", "on"} /\ Clean(s2.text)
      /\ Text(s3)
      /\ s6 = "ready" => Clean(s3) /\ Clean(s4)
      /\ s6 = "blank" => s1.blank
      /\ \A i \in DOMAIN s9 : Sound(s9[i])
  BY DEF SettingsInv
<1>s. PICK S : s9 \in Seq(S)
  BY DEF SettingsInv
<1> DEFINE Fine(q) == (\E T : q \in Seq(T)) /\ \A i \in DOMAIN q : Sound(q[i])
<1>f. Fine(s9)
  BY <1>t, <1>s
<1>a. ASSUME NEW q, Fine(q), NEW c, Sound(c) PROVE Fine(Append(q, c))
  <2>1. PICK T : q \in Seq(T)
    BY <1>a
  <2>2. \A i \in DOMAIN Append(q, c) : Sound(Append(q, c)[i])
    BY <1>a, <2>1, QueueGrows
  <2> QED
    BY <2>1, <2>2, QueueGrows
<1>r. ASSUME NEW i \in DOMAIN s9, i = 1 PROVE Fine(Settings!RemoveAt(s9, i))
  <2>1. /\ Settings!RemoveAt(s9, 1) \in Seq(S) /\ Len(Settings!RemoveAt(s9, 1)) = Len(s9) - 1
        /\ \A j \in 1 .. Len(s9) - 1 : Settings!RemoveAt(s9, 1)[j] = s9[j + 1]
    BY <1>r, <1>s, QueueGoesOn
  <2>2. ASSUME NEW j \in DOMAIN Settings!RemoveAt(s9, 1) PROVE Sound(Settings!RemoveAt(s9, 1)[j])
    <3>1. j \in 1 .. Len(s9) - 1 /\ j + 1 \in DOMAIN s9
      BY <1>s, <2>1
    <3> QED
      BY <1>t, <2>1, <3>1
  <2> QED
    BY <1>r, <2>1, <2>2
<1>l. Sound(Settings!Load)
  BY DEF Sound, CallFields, Settings!Load, Settings!Call
<1>n. \A kind, half, text, s, to : (kind = "save" => Clean(text)) => Sound(Settings!Call(kind, half, text, s, to))
  BY DEF Sound, CallFields, Settings!Call
<1> HIDE DEF Fine
\* The server's side stays, and what is shown holds no blanks.
<1>1. ASSUME s2' = s2, Text(s3'),
             s6' = "ready" => Clean(s3') /\ Clean(s4'), s6' = "blank" => s1.blank, Fine(s9')
      PROVE  SettingsInv'
  BY <1>1, <1>t DEF SettingsInv, Fine
<1>c. \A t : Clean(t) => Text(t)
  BY DEF Clean
<1>2. ASSUME NEW p \in {1, 2}, Settings!Type(p) PROVE SettingsInv'
  <2>1. s3' = [s3 EXCEPT ![p] = IF @ = "y" THEN "x" ELSE "y"] /\ UNCHANGED <<s2, s4, s6, s9>>
    BY <1>2 DEF Settings!Type
  <2>2. Text(s3') /\ (Clean(s3) => Clean(s3'))
    BY <1>t, <2>1 DEF Text, Clean
  <2> QED
    BY <1>1, <1>t, <1>f, <2>1, <2>2
<1>3. CASE Settings!Reset
  BY <1>1, <1>3, <1>t, <1>f, <1>c DEF Settings!Reset, Settings!Dirty
<1>4. CASE Settings!Save
  <2>1. PICK half : s9' = Append(s9, Settings!Call("save", half, s3, 0, FALSE))
    BY <1>4 DEF Settings!Save
  <2>2. UNCHANGED <<s2, s3, s4, s6>> /\ s6 = "ready"
    BY <1>4, <1>t DEF Settings!Save, Settings!Open, Settings!Dirty
  <2>3. Fine(s9')
    BY <1>a, <1>f, <1>n, <1>t, <2>1, <2>2
  <2> QED
    BY <1>1, <1>t, <2>2, <2>3
<1>5. ASSUME NEW s, Settings!Turn(s) PROVE SettingsInv'
  <2>1. s9' = Append(s9, Settings!Call("turn", 1, Settings!Blank, s, s \notin s5)) /\ UNCHANGED <<s2, s3, s4, s6>>
    BY <1>5 DEF Settings!Turn
  <2> QED
    BY <1>1, <1>a, <1>f, <1>n, <1>t, <2>1
<1>6. ASSUME NEW kind \in {"add", "also"}, Settings!Order(kind) PROVE SettingsInv'
  <2>1. s9' = Append(s9, Settings!Call(kind, 1, Settings!Blank, 0, FALSE)) /\ UNCHANGED <<s2, s3, s4, s6>>
    BY <1>6 DEF Settings!Order
  <2> QED
    BY <1>1, <1>a, <1>f, <1>n, <1>t, <2>1
<1>7. ASSUME NEW i \in DOMAIN s9, Settings!Serve(i) PROVE SettingsInv'
  <2> DEFINE c == s9[i]
  <2>1. /\ \/ /\ s2' = Settings!Done(c)
              /\ \E n : s9' = [s9 EXCEPT ![i] = [c EXCEPT !.done = TRUE, !.ok = TRUE, !.read = s2', !.s = n]]
           \/ s2' = s2 /\ s9' = [s9 EXCEPT ![i] = [c EXCEPT !.done = TRUE]] /\ ~c.done
        /\ UNCHANGED <<s3, s4, s6>>
    BY <1>7 DEF Settings!Serve
  <2>2. Sound(c)
    BY <1>t
  <2>u. ASSUME NEW d, Sound(d), s9' = [s9 EXCEPT ![i] = d] PROVE Fine(s9')
    <3>1. s9' \in Seq(S \cup {d}) /\ \A j \in DOMAIN s9' : j \in DOMAIN s9 /\ s9'[j] = IF j = i THEN d ELSE s9[j]
      BY <1>s, <2>u
    <3> QED
      BY <1>t, <2>u, <3>1 DEF Fine
  <2>3. CASE s2' = s2 /\ s9' = [s9 EXCEPT ![i] = [c EXCEPT !.done = TRUE]] /\ ~c.done
    <3> DEFINE d == [c EXCEPT !.done = TRUE]
    <3>1. DOMAIN d = CallFields /\ d.kind = c.kind /\ d.text = c.text /\ d.ok = c.ok /\ d.read = c.read
      BY <2>2 DEF Sound, CallFields
    <3>2. ~c.ok
      BY <1>t, <2>3 DEF Sound
    <3>3. s9' = [s9 EXCEPT ![i] = d]
      BY <2>3
    <3> HIDE DEF c, d
    <3>4. Sound(d)
      BY <2>2, <3>1, <3>2 DEF Sound
    <3> QED
      BY <1>1, <1>t, <2>1, <2>3, <2>u, <3>3, <3>4
  <2>4. CASE /\ s2' = Settings!Done(c)
             /\ \E n : s9' = [s9 EXCEPT ![i] = [c EXCEPT !.done = TRUE, !.ok = TRUE, !.read = s2', !.s = n]]
    <3>1. DOMAIN s2' = {"text", "on"} /\ Clean(s2'.text)
      <4>1. CASE c.kind = "save"
        <5>1. \/ s2' = [s2 EXCEPT !.text = c.text]
              \/ s2' = [s2 EXCEPT !.text = [s2.text EXCEPT ![c.part] = c.text[c.part]]]
          BY <2>4, <4>1 DEF Settings!Done
        <5>2. Clean(c.text)
          BY <2>2, <4>1 DEF Sound
        <5>3. Clean([s2.text EXCEPT ![c.part] = c.text[c.part]])
          BY <1>t, <5>2 DEF Clean, Text
        <5> QED
          BY <1>t, <5>1, <5>2, <5>3
      <4>2. CASE c.kind # "save"
        <5>1. s2' = s2 \/ \E ons : s2' = [s2 EXCEPT !.on = ons]
          BY <2>4, <4>2 DEF Settings!Done
        <5> QED
          BY <1>t, <5>1
      <4> QED
        BY <4>1, <4>2
    <3>2. PICK n : s9' = [s9 EXCEPT ![i] = [c EXCEPT !.done = TRUE, !.ok = TRUE, !.read = s2', !.s = n]]
      BY <2>4
    <3> DEFINE d == [c EXCEPT !.done = TRUE, !.ok = TRUE, !.read = s2', !.s = n]
    <3>3. DOMAIN d = CallFields /\ d.kind = c.kind /\ d.text = c.text /\ d.done /\ d.read = s2'
      BY <2>2 DEF Sound, CallFields
    <3>4. s9' = [s9 EXCEPT ![i] = d]
      BY <3>2
    <3> HIDE DEF c, d
    <3>5. Sound(d)
      BY <2>2, <3>1, <3>3 DEF Sound
    <3>6. Fine(s9')
      BY <2>u, <3>4, <3>5
    <3> QED
      BY <1>t, <2>1, <3>1, <3>6 DEF SettingsInv, Fine
  <2> QED
    BY <2>1, <2>3, <2>4
<1>8. ASSUME NEW i \in DOMAIN s9, Settings!LoadAnswered(i) PROVE SettingsInv'
  <2>1. /\ i = 1 /\ s9[i].done /\ s9' = Settings!RemoveAt(s9, i) /\ s2' = s2
        /\ \/ s9[i].ok /\ s3' = s9[i].read.text /\ s4' = s9[i].read.text /\ s6' = "ready"
           \/ /\ UNCHANGED <<s3, s4>> /\ s6' \in {s6, "blank", "stuck"}
              /\ s6' = "blank" => s6 = "blank" \/ s1.blank
    BY <1>8 DEF Settings!LoadAnswered, Settings!Arrived, Settings!Rest
  <2>2. Sound(s9[i]) /\ Fine(s9')
    BY <1>t, <1>r, <2>1
  <2> QED
    BY <1>1, <1>t, <1>c, <2>1, <2>2 DEF Sound
<1>9. ASSUME NEW i \in DOMAIN s9, Settings!SaveAnswered(i) PROVE SettingsInv'
  <2> DEFINE c == s9[i]
             rest == Settings!RemoveAt(s9, i)
  <2>1. /\ i = 1 /\ c.done /\ c.kind = "save" /\ s2' = s2
        /\ \/ s9' = Append(rest, Settings!Call("save", 2, c.text, 0, FALSE))
           \/ s9' = Append(rest, Settings!Load)
           \/ s9' = rest
        /\ s3' = s3 \/ (c.ok /\ s3' = c.read.text)
        /\ s4' \in {s4, c.text} \/ (c.ok /\ s4' = c.read.text)
        /\ s6' \in {s6, "left"}
    BY <1>9 DEF Settings!SaveAnswered, Settings!Arrived, Settings!Rest, Settings!Base
  <2>2. Sound(c) /\ Clean(c.text) /\ (c.ok => Clean(c.read.text)) /\ Fine(rest)
    BY <1>t, <1>r, <2>1 DEF Sound
  <2> HIDE DEF c, rest
  <2>3. Fine(s9')
    BY <1>a, <1>l, <1>n, <2>1, <2>2
  <2> QED
    BY <1>1, <1>t, <1>c, <2>1, <2>2, <2>3
<1>10. ASSUME NEW i \in DOMAIN s9, Settings!TurnAnswered(i) \/ Settings!OrderAnswered(i) PROVE SettingsInv'
  <2>1. /\ i = 1 /\ UNCHANGED <<s2, s3, s4, s6>>
        /\ \/ s9' = Append(Settings!RemoveAt(s9, i), Settings!Load)
           \/ s9' = Settings!RemoveAt(s9, i)
    BY <1>10 DEF Settings!TurnAnswered, Settings!OrderAnswered, Settings!Arrived, Settings!Rest
  <2>2. Fine(s9')
    BY <1>a, <1>l, <1>r, <2>1
  <2> QED
    BY <1>1, <1>t, <2>1, <2>2
<1>11. CASE UNCHANGED Settings!vars
  BY <1>1, <1>11, <1>t, <1>f DEF Settings!vars
<1> QED
  BY <1>2, <1>3, <1>4, <1>5, <1>6, <1>7, <1>8, <1>9, <1>10, <1>11 DEF Settings!Next

LEMMA SettingsSafe == SettingsInv => Settings!NothingBlankIsSaved
BY DEF SettingsInv, Clean, Text, Settings!NothingBlankIsSaved

-----------------------------------------------------------------------------
(*                          A package and its form                         *)

\* A package is edited while a subscriber uses it.
Editor == INSTANCE PackageEditor
    WITH plan <- s1, group <- s2, user <- s3, throttled <- s4, used <- s5, page <- s6,
         form <- s7, opened <- s8, behind <- s9, edits <- s10, saves <- s11,
         Stored <- FormMade, MaxEdits <- FormEdits, MaxSaves <- FormSaves

ASSUME FormAssumption == Editor!EditorAssumption

\* A form as it may be filled in, and a package as a valid one stores it.
Filled(f) ==
    /\ f \in [type : Editor!Types, hours : Nat, days : Nat, up : Nat, down : Nat,
              price : Nat \cup {Editor!None}, typed : BOOLEAN, bundle : Nat, fup : BOOLEAN,
              over : Nat, slow : Nat \cup {Editor!Unusable}]
    /\ f.type = "trial" => f.price = 0

Made(p) ==
    /\ p \in [type : Editor!Types, hours : Nat, days : Nat, up : Nat \ {0}, down : Nat \ {0},
              price : Nat, cap : Nat \cup {Editor!None}, size : Nat, fup : BOOLEAN, over : Nat,
              slow : Nat \cup {Editor!Unusable}]
    /\ p.type = "trial" => p.price = 0
    /\ p.type = "pppoe" => p.hours = 0
    /\ p.type # "pppoe" => p.days = 0
    /\ p.type = "bundle" => p.cap # Editor!None
    /\ p.type # "bundle" /\ ~p.fup => p.cap = Editor!None /\ p.size = 0
    /\ p.type # "bundle" /\ p.fup => p.cap = Editor!Column(p.over)
    /\ p.fup => p.over # 0

\* s1 is the package, s2 the rows of its group, s3 those of the subscriber, s6 the page, s7
\* the form, s8 the package it was opened with: an untouched form is that of the stored
\* package, and the group is at its speed.
EditorInv ==
    /\ s1 # Editor!NoPlan => Made(s1)
    /\ s6 = "edit" => s1 # Editor!NoPlan
    /\ Filled(s7)
    /\ s6 \in {"edit", "new"} /\ s8 # Editor!NoPlan => s6 = "edit" /\ s8 = s1 /\ s7 = Editor!FromPlan(s1)
    /\ s6 = "saving" => s1 # Editor!NoPlan
    /\ s3 # Editor!NoRows => s1 # Editor!NoPlan
    /\ s1 # Editor!NoPlan /\ s6 # "saving" /\ ~s9 => s2.rate = Editor!Rate(s1)
    /\ s3 # Editor!NoRows /\ s6 # "saving" /\ ~s9 => s4 \/ Editor!Reply.rate = Editor!Rate(s1)

LEMMA EditorCounts ==
    /\ Speeds \subseteq Nat \ {0} /\ Sizes \subseteq Nat \ {0} /\ Prices \subseteq Nat
    /\ Hours \subseteq Nat \ {0} /\ Days \subseteq Nat \ {0}
BY FormAssumption DEF Editor!EditorAssumption

LEMMA EditorBegin == Editor!Init => EditorInv
<1> SUFFICES ASSUME Editor!Init PROVE EditorInv
  OBVIOUS
<1>1. s1 # Editor!NoPlan => Made(s1)
  <2> DEFINE one == [type |-> "pppoe", hours |-> 0, days |-> 30, up |-> 1, down |-> 2, price |-> 5,
                     cap |-> 1, size |-> 10, fup |-> TRUE, over |-> 10, slow |-> 1]
             two == [type |-> "bundle", hours |-> 24, days |-> 0, up |-> 1, down |-> 2, price |-> 5,
                     cap |-> 1, size |-> 10, fup |-> FALSE, over |-> 0, slow |-> 0]
  <2>1. s1 \in {NoPackage, one, two}
    BY DEF Editor!Init, FormMade
  <2>2. NoPackage = Editor!NoPlan
    BY DEF NoPackage, Editor!NoPlan, Editor!None
  <2>3. Editor!Column(10) = 1
    BY DEF Editor!Column
  <2>4. Made(one)
    BY <2>3 DEF Made, Editor!Types
  <2>5. Made(two)
    BY DEF Made, Editor!Types, Editor!None
  <2> QED
    BY <2>1, <2>2, <2>4, <2>5
<1>2. Filled(Editor!Blank)
  BY DEF Filled, Editor!Blank, Editor!Types, Editor!None
<1>3. s1 # Editor!NoPlan => s2.rate = Editor!Rate(s1)
  BY DEF Editor!Init, Editor!Rows
<1> QED
  BY <1>1, <1>2, <1>3 DEF Editor!Init, EditorInv

\* What a package that is opened shows is a form, and a valid form makes a package.
LEMMA OpenedIsFilled == ASSUME NEW p, Made(p) PROVE Filled(Editor!FromPlan(p))
BY DEF Made, Filled, Editor!FromPlan, Editor!None, Editor!Types

LEMMA SavedIsMade == ASSUME NEW f, Filled(f), Editor!Valid(f) PROVE Made(Editor!Payload(f))
<1> DEFINE size == Editor!Metered(f)
<1>1. size \in Nat
  BY DEF Filled, Editor!Metered
<1>2. Editor!Column(size) \in Nat
  BY <1>1 DEF Editor!Column
<1>3. f.type = "bundle" => size # 0
  BY DEF Editor!Valid, Editor!Metered
<1>4. f.type # "bundle" /\ ~f.fup => size = 0
  BY DEF Editor!Metered
<1>5. f.type # "bundle" /\ f.fup => size = f.over /\ f.over # 0
  BY DEF Editor!Metered, Editor!Valid
<1> HIDE DEF size
<1> QED
  BY <1>1, <1>2, <1>3, <1>4, <1>5 DEF size, Made, Filled, Editor!Valid, Editor!Payload, Editor!None

\* A package opened and saved as it was is the package it was.
LEMMA ReopenedServes ==
    ASSUME NEW p, Made(p), Editor!Valid(Editor!FromPlan(p))
    PROVE  Editor!Service(Editor!Payload(Editor!FromPlan(p))) = Editor!Service(p)
<1> DEFINE f == Editor!FromPlan(p)
           q == Editor!Payload(f)
<1>t. /\ p.cap \in Nat \cup {Editor!None} /\ p.over \in Nat /\ p.days \in Nat /\ p.hours \in Nat
      /\ p.up \in Nat \ {0} /\ p.down \in Nat \ {0} /\ p.fup \in BOOLEAN /\ p.size \in Nat
  BY DEF Made
<1>f. /\ f.type = p.type /\ f.hours = p.hours /\ f.up = p.up /\ f.down = p.down
      /\ f.price = p.price /\ f.fup = p.fup /\ f.slow = p.slow
      /\ f.days = IF p.days # 0 THEN p.days ELSE 30
      /\ f.bundle = IF p.type = "bundle" /\ p.cap # Editor!None THEN 10 * p.cap ELSE 0
      /\ p.over # 0 => f.over = p.over
  BY DEF Editor!FromPlan
<1>q. /\ q.type = p.type /\ q.up = p.up /\ q.down = p.down /\ q.price = p.price /\ q.fup = p.fup
      /\ q.hours = (IF f.type # "pppoe" THEN f.hours ELSE 0)
      /\ q.days = (IF f.type = "pppoe" THEN f.days ELSE 0)
      /\ q.over = (IF f.fup THEN f.over ELSE 0) /\ q.slow = (IF f.fup THEN f.slow ELSE 0)
      /\ q.cap = (IF Editor!Metered(f) # 0 THEN Editor!Column(Editor!Metered(f)) ELSE Editor!None)
      /\ q.size = Editor!Metered(f)
  BY <1>t, <1>f DEF Editor!Payload
<1>v. p.type = "bundle" => f.bundle # 0
  BY <1>f DEF Editor!Valid
<1> HIDE DEF f, q
<1>1. Editor!Rate(q) = Editor!Rate(p)
  BY <1>q DEF Editor!Rate
<1>2. Editor!Granted(q) = Editor!Granted(p)
  BY <1>q, <1>f, <1>t DEF Made, Editor!Granted
<1>3. p.fup => q.over = p.over /\ q.slow = p.slow
  BY <1>q, <1>f DEF Made
<1>r. \A r : Editor!Rows(r, FALSE).total = IF Editor!Limit(r) > 0 THEN Editor!Limit(r) \div 10 ELSE Editor!None
  BY DEF Editor!Rows
<1>s. Editor!Limit(q) = Editor!Limit(p) => Editor!Service(q) = Editor!Service(p)
  BY <1>1, <1>2, <1>3, <1>q, <1>r, <1>t DEF Editor!Service
<1>4. CASE p.type = "bundle"
  <2>1. f.bundle = 10 * p.cap /\ p.cap \in Nat \ {0}
    BY <1>4, <1>f, <1>v, <1>t DEF Made
  <2>2. Editor!Metered(f) = 10 * p.cap
    BY <1>4, <1>f, <1>v, <2>1 DEF Editor!Metered
  <2>3. (10 * p.cap + 5) \div 10 = p.cap
    BY <2>1
  <2>4. q.cap = p.cap
    BY <1>q, <2>1, <2>2, <2>3 DEF Editor!Column
  <2>5. Editor!Limit(q) = Editor!Limit(p)
    BY <2>1, <2>4 DEF Editor!Limit, Editor!None
  <2> QED
    BY <1>s, <2>5 DEF f, q
<1>5. CASE p.type # "bundle" /\ p.fup
  <2>1. Editor!Metered(f) = p.over /\ p.over # 0
    BY <1>5, <1>f DEF Made, Editor!Metered
  <2>2. q.cap = p.cap /\ p.cap = Editor!Column(p.over)
    BY <1>5, <1>q, <2>1 DEF Made
  <2>3. p.cap # Editor!None
    BY <2>2, <1>t DEF Editor!Column, Editor!None
  <2>4. Editor!Limit(q) = Editor!Limit(p)
    BY <2>2, <2>3 DEF Editor!Limit
  <2> QED
    BY <1>s, <2>4 DEF f, q
<1>6. CASE p.type # "bundle" /\ ~p.fup
  <2>1. Editor!Metered(f) = 0
    BY <1>6, <1>f DEF Editor!Metered
  <2>2. q.cap = p.cap /\ q.size = p.size
    BY <1>6, <1>q, <2>1 DEF Made
  <2>3. Editor!Limit(q) = Editor!Limit(p)
    BY <2>2 DEF Editor!Limit
  <2> QED
    BY <1>s, <2>3 DEF f, q
<1> QED
  BY <1>4, <1>5, <1>6, <1>t DEF f, q

\* The rows of a package that was made say its speed, to the group and to the user.
LEMMA RowsSaySpeed ==
    ASSUME NEW p, Made(p)
    PROVE  /\ Editor!Rate(p) # <<0, 0>>
           /\ Editor!Rows(p, FALSE).rate = Editor!Rate(p)
           /\ \A rows : Editor!Ensured(rows, p).rate = Editor!Rate(p)
<1>1. Editor!Rate(p) # <<0, 0>>
  BY DEF Made, Editor!Rate
<1>2. Editor!Rows(p, FALSE).rate = Editor!Rate(p)
  BY DEF Editor!Rows
<1> QED
  BY <1>1, <1>2 DEF Editor!Ensured

LEMMA EditorStep == EditorInv /\ [Editor!Next]_(Editor!vars) => EditorInv' /\ Editor!UntouchedSaveKeeps
<1> DEFINE Safe == EditorInv' /\ Editor!UntouchedSaveKeeps
<1> SUFFICES ASSUME EditorInv, [Editor!Next]_(Editor!vars) PROVE Safe
  OBVIOUS
<1>t. /\ s1 # Editor!NoPlan => Made(s1)
      /\ s6 = "edit" => s1 # Editor!NoPlan
      /\ Filled(s7)
      /\ s6 \in {"edit", "new"} /\ s8 # Editor!NoPlan => s6 = "edit" /\ s8 = s1 /\ s7 = Editor!FromPlan(s1)
      /\ s6 = "saving" => s1 # Editor!NoPlan
      /\ s3 # Editor!NoRows => s1 # Editor!NoPlan
      /\ s1 # Editor!NoPlan /\ s6 # "saving" /\ ~s9 => s2.rate = Editor!Rate(s1)
      /\ s3 # Editor!NoRows /\ s6 # "saving" /\ ~s9 => s4 \/ Editor!Reply.rate = Editor!Rate(s1)
  BY DEF EditorInv
\* The page goes on, the package and its rows as they were.
<1>1. ASSUME UNCHANGED <<s1, s2, s3, s4, s9>>, s6 # "saving", s6' \in {"list", "edit", "new"},
             s6' = "edit" => s1 # Editor!NoPlan, Filled(s7'),
             s6' \in {"edit", "new"} /\ s8' # Editor!NoPlan => s6' = "edit" /\ s8' = s1 /\ s7' = Editor!FromPlan(s1)
      PROVE  Safe
  BY <1>1, <1>t DEF EditorInv, Editor!UntouchedSaveKeeps, Editor!Reply
\* A field is changed.
<1>2. ASSUME Editor!Editing, UNCHANGED <<s1, s2, s3, s4, s6, s9>>, Filled(s7') PROVE Safe
  BY <1>1, <1>2, <1>t DEF Editor!Editing
<1>3. CASE Editor!OpenNew \/ Editor!OpenEdit \/ Editor!Cancel
  <2>1. Filled(Editor!Blank)
    BY DEF Filled, Editor!Blank, Editor!Types, Editor!None
  <2> QED
    BY <1>1, <1>3, <1>t, <2>1, OpenedIsFilled DEF Editor!OpenNew, Editor!OpenEdit, Editor!Cancel, Editor!radius
<1>4. CASE Editor!SelectType
  <2>1. PICK t \in Editor!Types :
            s7' = [s7 EXCEPT !.type = t, !.price = Editor!PriceFor(t).price, !.typed = Editor!PriceFor(t).typed,
                             !.bundle = IF t = "bundle" THEN @ ELSE 0]
    BY <1>4 DEF Editor!SelectType
  <2>2. /\ Editor!PriceFor(t).price \in Nat \cup {Editor!None} /\ Editor!PriceFor(t).typed \in BOOLEAN
        /\ t = "trial" => Editor!PriceFor(t).price = 0
    BY <1>t DEF Editor!PriceFor, Filled
  <2>3. Filled(s7')
    BY <1>t, <2>1, <2>2 DEF Filled
  <2> QED
    BY <1>2, <1>4, <2>3 DEF Editor!SelectType, Editor!radius
<1>5. CASE Editor!TypeField
  <2>1. \/ \E s \in Speeds : s7' = [s7 EXCEPT !.down = s] \/ s7' = [s7 EXCEPT !.up = s]
        \/ \E p \in Prices : s7.type # "trial" /\ s7' = [s7 EXCEPT !.price = p, !.typed = TRUE]
        \/ \E s \in Sizes : s7' = [s7 EXCEPT !.bundle = s]
        \/ \E h \in Hours : s7' = [s7 EXCEPT !.hours = h]
        \/ \E d \in Days : s7' = [s7 EXCEPT !.days = d]
    BY <1>5 DEF Editor!TypeField
  <2> USE EditorCounts DEF Filled
  <2>a. ASSUME NEW s \in Speeds, s7' = [s7 EXCEPT !.down = s] \/ s7' = [s7 EXCEPT !.up = s]
        PROVE  Filled(s7')
    BY <1>t, <2>a
  <2>b. ASSUME NEW p \in Prices, s7.type # "trial", s7' = [s7 EXCEPT !.price = p, !.typed = TRUE]
        PROVE  Filled(s7')
    BY <1>t, <2>b
  <2>c. ASSUME NEW n \in Nat, \/ s7' = [s7 EXCEPT !.bundle = n] \/ s7' = [s7 EXCEPT !.hours = n]
                              \/ s7' = [s7 EXCEPT !.days = n]
        PROVE  Filled(s7')
    BY <1>t, <2>c
  <2>2. Filled(s7')
    BY <2>1, <2>a, <2>b, <2>c
  <2> QED
    BY <1>2, <1>5, <2>2 DEF Editor!TypeField, Editor!radius
<1>6. CASE Editor!TypePolicy
  <2>1. \/ s7' = [s7 EXCEPT !.fup = ~s7.fup]
        \/ \E s \in Sizes : s7' = [s7 EXCEPT !.over = s]
        \/ \E s \in Speeds \cup {Editor!Unusable} : s7' = [s7 EXCEPT !.slow = s]
    BY <1>6 DEF Editor!TypePolicy
  <2>2. Filled(s7')
    BY <1>t, <2>1, EditorCounts DEF Filled
  <2> QED
    BY <1>2, <1>6, <2>2 DEF Editor!TypePolicy, Editor!radius
<1>7. CASE Editor!Save
  <2>1. /\ s6 \in {"new", "edit"} /\ Editor!Valid(s7) /\ s1' = Editor!Payload(s7) /\ s6' = "saving"
        /\ UNCHANGED <<s2, s3, s4, s7, s8, s9>>
    BY <1>7 DEF Editor!Save, Editor!radius
  <2>2. Made(s1')
    BY <1>t, <2>1, SavedIsMade
  <2>3. s1' # Editor!NoPlan
    BY <2>2 DEF Made, Editor!NoPlan
  <2>4. Editor!UntouchedSaveKeeps
    BY <1>t, <2>1, ReopenedServes DEF Editor!UntouchedSaveKeeps
  <2> QED
    BY <1>t, <2>1, <2>2, <2>3, <2>4 DEF EditorInv
\* The rows are written, of the package as it is saved.
<1>8. ASSUME s1 # Editor!NoPlan, UNCHANGED <<s1, s7, s8>>, s6' \in {s6, "list"}, s6' # "saving" => (s6 # "saving" => s6' = s6),
             s2' = Editor!Ensured(s2, s1),
             s3' # Editor!NoRows => s4' \/ s3'.rate = Editor!Rate(s1)
      PROVE  Safe
  <2>1. Made(s1) /\ s2'.rate = Editor!Rate(s1) /\ Editor!Rate(s1) # <<0, 0>>
    BY <1>8, <1>t, RowsSaySpeed
  <2>2. s3' # Editor!NoRows => s4' \/ Editor!Reply'.rate = Editor!Rate(s1)
    BY <1>8, <2>1 DEF Editor!Reply
  <2> QED
    BY <1>8, <1>t, <2>1, <2>2 DEF EditorInv, Editor!UntouchedSaveKeeps, Editor!Rate, Editor!Reply
<1>9. CASE Editor!Provision
  <2>1. /\ s1 # Editor!NoPlan /\ s6 = "saving" /\ s6' = "list" /\ s2' = Editor!Ensured(s2, s1)
        /\ s3' = IF s3 = Editor!NoRows THEN s3 ELSE Editor!Rows(s1, FALSE)
        /\ UNCHANGED <<s1, s4, s7, s8>>
    BY <1>9, <1>t DEF Editor!Provision
  <2> QED
    BY <1>8, <1>t, <2>1, RowsSaySpeed
<1>10. CASE Editor!ProvisionFails
  BY <1>10, <1>t DEF Editor!ProvisionFails, Editor!radius, EditorInv, Editor!UntouchedSaveKeeps
<1>11. CASE Editor!Activate
  <2>1. /\ s1 # Editor!NoPlan /\ s2' = Editor!Ensured(s2, s1) /\ s3' = Editor!Rows(s1, FALSE)
        /\ UNCHANGED <<s1, s4, s6, s7, s8>>
    BY <1>11 DEF Editor!Activate
  <2> QED
    BY <1>8, <1>t, <2>1, RowsSaySpeed
<1>12. CASE Editor!Enforce
  <2>1. /\ s1 # Editor!NoPlan /\ s2' = Editor!Ensured(s2, s1) /\ s3' = Editor!Rows(s1, s4')
        /\ s4' \in BOOLEAN /\ UNCHANGED <<s1, s6, s7, s8>>
    BY <1>12, <1>t DEF Editor!Enforce
  <2> QED
    BY <1>8, <1>t, <2>1, RowsSaySpeed
<1>13. CASE Editor!Use \/ Editor!NewPeriod \/ UNCHANGED Editor!vars
  <2>1. UNCHANGED <<s1, s2, s3, s4, s6, s7, s8, s9>>
    BY <1>13 DEF Editor!Use, Editor!NewPeriod, Editor!vars, Editor!radius, Editor!bounds
  <2> QED
    BY <1>t, <2>1 DEF EditorInv, Editor!UntouchedSaveKeeps, Editor!Reply
<1> HIDE DEF Safe
<1> QED
  BY <1>3, <1>4, <1>5, <1>6, <1>7, <1>9, <1>10, <1>11, <1>12, <1>13 DEF Editor!Next

LEMMA EditorSafe == EditorInv => Editor!AppliedIsSaved /\ Editor!TrialIsFree
<1> SUFFICES ASSUME EditorInv PROVE Editor!AppliedIsSaved /\ Editor!TrialIsFree
  OBVIOUS
<1>1. Editor!AppliedIsSaved
  BY DEF EditorInv, Editor!AppliedIsSaved
<1>2. Editor!TrialIsFree
  BY DEF EditorInv, Made, Editor!TrialIsFree, Editor!NoPlan
<1> QED
  BY <1>1, <1>2

-----------------------------------------------------------------------------
(*                          The page of a package                          *)

\* The page of a package, one operator,
Package == INSTANCE PackageDetail
    WITH exists <- s1, on <- s2, clients <- s3, codes <- s4, deleting <- s5, plan <- s6,
         counted <- s7, loading <- s8, req <- s9, done <- s10, wish <- s11,
         MaxClients <- PlanClients, PageSize <- PlanClients, Others <- FALSE, Lossy <- FALSE

\* and two.
SharedPackage == INSTANCE PackageDetail
    WITH exists <- s1, on <- s2, clients <- s3, codes <- s4, deleting <- s5, plan <- s6,
         counted <- s7, loading <- s8, req <- s9, done <- s10, wish <- s11,
         MaxClients <- SharedClients, PageSize <- SharedPage, Others <- TRUE, Lossy <- TRUE

ASSUME PlanAssumption == Package!PackageDetailAssumption

\* s1 is whether the package is there, s2 its switches, s3 its clients, s5 a deletion that
\* has passed its checks, s6 the package shown, s9 to s11 the request, whether it was served
\* and what its button said: but for a flip on its way back the page shows the package.
PackageInv ==
    /\ s3 \in 0 .. PlanClients /\ s10 \in BOOLEAN
    /\ s5 => s9 = "delete" /\ s1 /\ ~s10
    /\ s10 => s9 # "none"
    /\ s9 \in Package!Switches /\ ~s10 => s11 = (s9 \notin s2)
    /\ s6 # {} /\ ~(s9 \in Package!Switches /\ s10) => s6 = {[on |-> s2]}

LEMMA PackageBegin == Package!Init => PackageInv
BY DEF Package!Init, Package!Switches, PackageInv

LEMMA PackageStep ==
    PackageInv /\ [Package!Next]_(Package!vars)
        => PackageInv' /\ Package!ButtonDoesAsItSays /\ Package!AllAreCounted
<1> DEFINE Safe == PackageInv' /\ Package!ButtonDoesAsItSays /\ Package!AllAreCounted
<1> SUFFICES ASSUME PackageInv, [Package!Next]_(Package!vars) PROVE Safe
  OBVIOUS
<1>t. /\ s3 \in 0 .. PlanClients /\ s10 \in BOOLEAN
      /\ s5 => s9 = "delete" /\ s1 /\ ~s10
      /\ s10 => s9 # "none"
      /\ s9 \in Package!Switches /\ ~s10 => s11 = (s9 \notin s2)
      /\ s6 # {} /\ ~(s9 \in Package!Switches /\ s10) => s6 = {[on |-> s2]}
      /\ PlanClients \in Nat
  BY PlanAssumption DEF PackageInv, Package!PackageDetailAssumption
<1>s. Package!Switches = {"active", "popular"}
  BY DEF Package!Switches
<1> USE <1>s DEF Package!server, Package!page
\* Neither is a flip served nor a read of the page over.
<1>1. ASSUME PackageInv', ~s10' \/ s10 \/ s9 \notin Package!Switches, ~s1 \/ s8' \/ ~s8 PROVE Safe
  BY <1>1 DEF Package!ButtonDoesAsItSays, Package!AllAreCounted
<1>2. CASE Package!Loaded
  <2>1. Package!Min({s3, PlanClients}) = s3
    BY <1>t DEF Package!Min
  <2> QED
    BY <1>2, <1>t, <2>1 DEF Package!Loaded, PackageInv, Package!ButtonDoesAsItSays, Package!AllAreCounted
<1>3. CASE Package!LoadFails
  BY <1>1, <1>3, <1>t DEF Package!LoadFails, PackageInv
<1>4. ASSUME NEW s \in Package!Switches, Package!Flip(s) PROVE Safe
  <2>1. /\ s6 = {[on |-> s2]} /\ s9 = "none" /\ s9' = s /\ s11' = (\A p \in s6 : s \notin p.on)
        /\ UNCHANGED <<s1, s2, s3, s5, s6, s8, s10>>
    BY <1>4, <1>t DEF Package!Flip, Package!Ready
  <2>2. s11' = (s \notin s2)
    <3>1. (\A p \in s6 : s \notin p.on) <=> s \notin s2
      BY <2>1
    <3> QED
      BY <2>1, <3>1, Zenon
  <2> QED
    BY <1>1, <1>t, <2>1, <2>2 DEF PackageInv
<1>5. CASE Package!AskDelete \/ Package!Reopen
  BY <1>1, <1>5, <1>t DEF Package!AskDelete, Package!Reopen, Package!Ready, PackageInv
<1>6. CASE Package!FlipAnswered \/ Package!DeleteAnswered \/ Package!Fails
  BY <1>1, <1>6, <1>t DEF Package!FlipAnswered, Package!DeleteAnswered, Package!Fails, PackageInv
<1>7. CASE Package!ServeFlip
  <2>1. /\ s9 \in Package!Switches /\ ~s10 /\ s2' = Package!Flipped(s9) /\ s10' = TRUE
        /\ UNCHANGED <<s1, s3, s5, s6, s8, s9, s11>>
    BY <1>7 DEF Package!ServeFlip
  <2>2. s9 \in s2' <=> s9 \notin s2
    BY <2>1 DEF Package!Flipped
  <2>3. Package!ButtonDoesAsItSays
    BY <1>t, <2>1, <2>2 DEF Package!ButtonDoesAsItSays
  <2> QED
    BY <1>t, <2>1, <2>3 DEF PackageInv, Package!AllAreCounted
<1>8. CASE Package!CheckDelete \/ Package!CommitDelete
  BY <1>1, <1>8, <1>t DEF Package!CheckDelete, Package!CommitDelete, PackageInv
<1>9. CASE Package!Assign \/ Package!OtherFlip
  BY <1>1, <1>9, <1>t DEF Package!Assign, Package!OtherFlip, PackageInv
<1>10. CASE UNCHANGED Package!vars
  BY <1>1, <1>10, <1>t DEF Package!vars, PackageInv
<1> QED
  BY <1>2, <1>3, <1>4, <1>5, <1>6, <1>7, <1>8, <1>9, <1>10 DEF Package!Next

\* The row is held by those who use it, whoever else deletes it.
LEMMA UsersStep == Package!UsersKeepPackage /\ [Package!Next]_(Package!vars) => Package!UsersKeepPackage'
<1> SUFFICES ASSUME Package!UsersKeepPackage, [Package!Next]_(Package!vars) PROVE Package!UsersKeepPackage'
  OBVIOUS
<1>1. CASE Package!Assign
  BY <1>1 DEF Package!UsersKeepPackage, Package!Assign
<1>2. CASE Package!CommitDelete
  BY <1>2 DEF Package!UsersKeepPackage, Package!CommitDelete, Package!HeldByRows
<1>3. CASE ~Package!Assign /\ ~Package!CommitDelete
  <2>1. UNCHANGED <<s1, s3, s4>>
    BY <1>3 DEF Package!Next, Package!vars, Package!server, Package!Loaded, Package!LoadFails, Package!Reopen,
           Package!Flip, Package!AskDelete, Package!FlipAnswered, Package!DeleteAnswered,
           Package!Fails, Package!ServeFlip, Package!CheckDelete, Package!OtherFlip
  <2> QED
    BY <2>1 DEF Package!UsersKeepPackage
<1> QED
  BY <1>1, <1>2, <1>3

LEMMA SharedUsersStep == SharedPackage!UsersKeepPackage /\ [SharedPackage!Next]_(SharedPackage!vars) => SharedPackage!UsersKeepPackage'
<1> SUFFICES ASSUME SharedPackage!UsersKeepPackage, [SharedPackage!Next]_(SharedPackage!vars) PROVE SharedPackage!UsersKeepPackage'
  OBVIOUS
<1>1. CASE SharedPackage!Assign
  BY <1>1 DEF SharedPackage!UsersKeepPackage, SharedPackage!Assign
<1>2. CASE SharedPackage!CommitDelete
  BY <1>2 DEF SharedPackage!UsersKeepPackage, SharedPackage!CommitDelete, SharedPackage!HeldByRows
<1>3. CASE ~SharedPackage!Assign /\ ~SharedPackage!CommitDelete
  <2>1. UNCHANGED <<s1, s3, s4>>
    BY <1>3 DEF SharedPackage!Next, SharedPackage!vars, SharedPackage!server, SharedPackage!Loaded, SharedPackage!LoadFails, SharedPackage!Reopen,
           SharedPackage!Flip, SharedPackage!AskDelete, SharedPackage!FlipAnswered, SharedPackage!DeleteAnswered,
           SharedPackage!Fails, SharedPackage!ServeFlip, SharedPackage!CheckDelete, SharedPackage!OtherFlip
  <2> QED
    BY <2>1 DEF SharedPackage!UsersKeepPackage
<1> QED
  BY <1>1, <1>2, <1>3

-----------------------------------------------------------------------------
(*                           The list of clients                           *)

\* The list of clients, some on PPPoE and the others on the hotspot.
ClientList == INSTANCE ClientsConsole
    WITH db <- s1, events <- s2, view <- s3, list <- s4, loading <- s5, due <- s6,
         flights <- s7, selected <- s8, everything <- s9, asked <- s10, bulk <- s11,
         Clients <- Subscribers,
         TypeOf <- [c \in Subscribers |-> IF c \in Wired THEN "pppoe" ELSE "hotspot"],
         Offered <- {}, PageSize <- ClientRows, MaxLoads <- ListReads, MaxEvents <- ListEvents

ASSUME ListAssumption == ClientList!ClientsAssumption

\* s10 is the deletion that is asked, s11 the one under way: one by filter was typed for.
ClientsInv ==
    /\ s10.filtered => s10.typed
    /\ s11 = [at |-> s11.at, of |-> s11.of]
    /\ s11.of.filtered => s11.of.typed

LEMMA ClientsBegin == ClientList!Init => ClientsInv
BY DEF ClientList!Init, ClientList!NoDeletion, ClientsInv

LEMMA ClientsCount ==
    /\ IsFiniteSet(Subscribers)
    /\ \A S : ClientList!Cardinality(S) = Cardinality(S)
BY ListAssumption DEF ClientList!ClientsAssumption, ClientList!IsFiniteSet, IsFiniteSet,
       ClientList!Cardinality, Cardinality

LEMMA ClientsStep ==
    ClientsInv /\ [ClientList!Next]_(ClientList!vars)
        => ClientsInv' /\ ClientList!NeverMoreThanAgreed /\ ClientList!SelectionGoesWithView
<1> DEFINE Safe == ClientsInv' /\ ClientList!NeverMoreThanAgreed /\ ClientList!SelectionGoesWithView
<1> SUFFICES ASSUME ClientsInv, [ClientList!Next]_(ClientList!vars) PROVE Safe
  OBVIOUS
<1>t. /\ s10.filtered => s10.typed
      /\ s11 = [at |-> s11.at, of |-> s11.of]
      /\ s11.of.filtered => s11.of.typed
  BY DEF ClientsInv
\* No deletion is served, and what is ticked goes with the view.
<1>1. ASSUME s10' = s10 \/ s10' = ClientList!NoDeletion, s11' = s11,
             s3' # s3 => s8' = {} /\ ~s9'
      PROVE  Safe
  BY <1>1, <1>t DEF ClientsInv, ClientList!NoDeletion, ClientList!NeverMoreThanAgreed, ClientList!BulkStep,
                    ClientList!SelectionGoesWithView
<1>2. CASE ClientList!Load \/ \E f \in s7 : ClientList!ServeLoad(f) \/ ClientList!Arrive(f) \/ ClientList!LoadFails(f)
  BY <1>1, <1>2 DEF ClientList!Load, ClientList!ServeLoad, ClientList!Arrive, ClientList!LoadFails
<1>3. ASSUME NEW v, ClientList!ChangeType(v) \/ ClientList!ChangeStatus(v) PROVE Safe
  BY <1>1, <1>3 DEF ClientList!ChangeType, ClientList!ChangeStatus, ClientList!Show
<1>4. ASSUME NEW c, NEW s, ClientList!ToggleOne(c) \/ ClientList!Elsewhere(c, s) PROVE Safe
  BY <1>1, <1>4 DEF ClientList!ToggleOne, ClientList!Elsewhere, ClientList!pageVars
<1>5. CASE ClientList!ToggleAllVisible \/ ClientList!SelectEverything \/ ClientList!ClearSelection \/ ClientList!Cancel
  BY <1>1, <1>5 DEF ClientList!ToggleAllVisible, ClientList!SelectEverything, ClientList!ClearSelection, ClientList!Cancel
<1>6. ASSUME NEW r, ClientList!ToggleConnection(r) PROVE Safe
  BY <1>1, <1>6 DEF ClientList!ToggleConnection
\* No deletion is served, and the one under way is what was asked, or none.
<1>7. ASSUME UNCHANGED s3, s10'.filtered => s10'.typed, s11' = [at |-> s11'.at, of |-> s11'.of],
             s11'.of.filtered => s11'.of.typed, s11.at # "sent" \/ s11'.at # "done"
      PROVE  Safe
  BY <1>7 DEF ClientsInv, ClientList!NeverMoreThanAgreed, ClientList!BulkStep, ClientList!SelectionGoesWithView
<1>8. CASE ClientList!AskBulkDelete
  <2>1. UNCHANGED <<s3, s11>> /\ s10'.filtered = s9 /\ s10'.typed = ClientList!MustType /\ s11.at = "none"
    BY <1>8 DEF ClientList!AskBulkDelete
  <2>2. s9 => ClientList!MustType
    BY DEF ClientList!MustType
  <2> QED
    BY <1>7, <1>t, <2>1, <2>2
<1>9. CASE ClientList!Confirm
  BY <1>7, <1>9, <1>t DEF ClientList!Confirm, ClientList!NoDeletion
<1>10. CASE ClientList!ServeBulk
  <2> DEFINE d == s11.of
             targets == ClientList!Targets(d)
  <2>1. /\ UNCHANGED <<s3, s10>> /\ s11'.of = d /\ s11' = [at |-> s11'.at, of |-> s11'.of]
    BY <1>10, <1>t DEF ClientList!ServeBulk
  <2>2. ASSUME s11.at = "sent", s11'.at = "done"
        PROVE  Cardinality(ClientList!Deleted) <= d.count /\ (~d.filtered => ClientList!Deleted \subseteq d.ids)
    <3>1. /\ Cardinality(targets) = d.count
          /\ \E failed \in SUBSET targets :
                s1' = [c \in Subscribers |-> IF c \in targets \ failed THEN "gone" ELSE s1[c]]
      BY <1>10, <1>t, <2>2, ClientsCount DEF ClientList!ServeBulk
    <3>2. targets \subseteq Subscribers
      BY DEF ClientList!Targets, ClientList!Matching, ClientList!Present
    <3>3. ClientList!Deleted \subseteq targets
      BY <3>1 DEF ClientList!Deleted, ClientList!Present
    <3>4. IsFiniteSet(targets)
      BY <3>2, ClientsCount, FS_Subset
    <3>5. Cardinality(ClientList!Deleted) <= Cardinality(targets)
      BY <3>3, <3>4, FS_Subset
    <3>6. ~d.filtered => targets \subseteq d.ids
      BY DEF ClientList!Targets
    <3> HIDE DEF targets
    <3> QED
      BY <3>1, <3>3, <3>5, <3>6
  <2> HIDE DEF d, targets
  <2>3. ClientList!NeverMoreThanAgreed
    BY <2>2, ClientsCount DEF d, ClientList!NeverMoreThanAgreed, ClientList!BulkStep
  <2> QED
    BY <1>t, <2>1, <2>3 DEF d, ClientsInv, ClientList!SelectionGoesWithView
<1>11. CASE ClientList!BulkAnswered \/ ClientList!BulkLost
  <2>1. UNCHANGED <<s3, s10>> /\ s11' = [at |-> "none", of |-> ClientList!NoDeletion]
    BY <1>11 DEF ClientList!BulkAnswered, ClientList!BulkLost
  <2> QED
    BY <1>7, <1>t, <2>1 DEF ClientList!NoDeletion
<1>12. CASE UNCHANGED ClientList!vars
  BY <1>1, <1>12 DEF ClientList!vars, ClientList!pageVars
<1> HIDE DEF Safe
<1> QED
  BY <1>2, <1>3, <1>4, <1>5, <1>6, <1>8, <1>9, <1>10, <1>11, <1>12 DEF ClientList!Next

LEMMA ClientsSafe == ClientsInv => ClientList!FilteredIsTyped
BY DEF ClientsInv, ClientList!FilteredIsTyped

-----------------------------------------------------------------------------
(*                              A new account                              *)

\* A client is created, with answers lost.
Entry == INSTANCE ClientEntry
    WITH accounts <- s1, plans <- s2, form <- s3, call <- s4, credentials <- s5, done <- s6,
         tries <- s7, Losses <- TRUE, MaxTries <- Tries

\* A login that is taken is refused.
LEMMA EntryStep == Entry!OneAccountPerLogin /\ [Entry!Next]_(Entry!vars) => Entry!OneAccountPerLogin'
<1> SUFFICES ASSUME Entry!OneAccountPerLogin, [Entry!Next]_(Entry!vars) PROVE Entry!OneAccountPerLogin'
  OBVIOUS
<1>1. s1' = s1 \/ (Entry!Serve /\ s1' # s1)
  BY DEF Entry!Next, Entry!vars, Entry!PlansArrive, Entry!Type, Entry!Submit, Entry!Answered, Entry!Finish, Entry!Lost, Entry!Leave
<1>2. CASE Entry!Serve /\ s1' # s1
  <2>1. /\ \A a \in s1 : a.login # s4.of.login
        /\ s1' = s1 \cup {Entry!Created(s4.of)}
    BY <1>2 DEF Entry!Serve
  <2>2. Entry!Created(s4.of).login = s4.of.login
    BY DEF Entry!Created
  <2> QED
    BY <2>1, <2>2 DEF Entry!OneAccountPerLogin
<1> QED
  BY <1>1, <1>2 DEF Entry!OneAccountPerLogin

-----------------------------------------------------------------------------
(*                         The backend of the demo                         *)

\* The backend of the demo.
Demo == INSTANCE DemoBackend
    WITH db <- s1, off <- s2, clock <- s3, ops <- s4, PerPage <- RowsPerPage, MaxOps <- Requests

\* s1 are the tables, s2 the ports switched off: a payment is entered in two tables in one
\* request and changed in neither, and an uplink is not among the ports switched off.
DemoInv ==
    /\ DOMAIN s1 = Demo!Tables /\ s1["payments"] = s1["transactions"]
    /\ \A d \in DOMAIN s2 : Uplink \notin s2[d]

LEMMA DemoBegin == Demo!Init => DemoInv
<1> SUFFICES ASSUME Demo!Init PROVE DemoInv
  OBVIOUS
<1>1. s1 = Demo!FreshState /\ s2 = <<>>
  BY DEF Demo!Init
<1> QED
  BY <1>1 DEF DemoInv, Demo!FreshState, Demo!Tables

\* A request about one of the other tables.
LEMMA OtherTables ==
    ASSUME DemoInv, NEW t, t \notin {"payments", "transactions"}, UNCHANGED s2, NEW rows,
           s1' = [s1 EXCEPT ![t] = rows]
    PROVE  DemoInv'
<1>1. DOMAIN s1' = DOMAIN s1 /\ s1'["payments"] = s1["payments"]
      /\ s1'["transactions"] = s1["transactions"]
  BY DEF DemoInv, Demo!Tables
<1> QED
  BY <1>1 DEF DemoInv

LEMMA DemoStep == DemoInv /\ [Demo!Next]_(Demo!vars) => DemoInv'
<1> SUFFICES ASSUME DemoInv, [Demo!Next]_(Demo!vars) PROVE DemoInv'
  OBVIOUS
<1> DEFINE Other == {"customers", "plans", "invoices", "vouchers", "tickets", "devices", "users",
                     "leads", "expenses", "kycRecords"}
<1>sets. ASSUME NEW t \in Other, NEW id, NEW status, Demo!Sets(t, id, status) PROVE DemoInv'
  BY <1>sets, OtherTables DEF Demo!Sets, Demo!Changed
<1>adds. ASSUME NEW t \in Other, NEW of, NEW status, Demo!Adds(t, of, status) PROVE DemoInv'
  BY <1>adds, OtherTables DEF Demo!Adds, Demo!Insert
<1>deletes. ASSUME NEW t \in Other, NEW id, Demo!Deletes(t, id) PROVE DemoInv'
  BY <1>deletes, OtherTables DEF Demo!Deletes, Demo!Removed
<1>1. CASE Demo!CreateCustomer \/ Demo!CreatePlan \/ Demo!CreateLead \/ Demo!CreateExpense
           \/ Demo!CreateDevice
  BY <1>1, <1>adds DEF Demo!CreateCustomer, Demo!CreatePlan, Demo!CreateLead, Demo!CreateExpense,
     Demo!CreateDevice
<1>2. CASE Demo!CreateUser
  BY <1>2, OtherTables DEF Demo!CreateUser
<1>3. ASSUME NEW c \in Demo!Customer,
             \/ Demo!DeleteCustomer(c) \/ Demo!CreateInvoice(c) \/ Demo!CreateTicket(c)
             \/ \E yes \in BOOLEAN : Demo!ConnectCustomer(c, yes) \/ Demo!BillingStatus(c, yes)
             \/ \E s \in {"active", "pending"} : Demo!SetCustomerStatus(c, s)
      PROVE  DemoInv'
  BY <1>3, <1>adds, <1>sets, <1>deletes DEF Demo!DeleteCustomer, Demo!CreateInvoice,
     Demo!CreateTicket, Demo!ConnectCustomer, Demo!BillingStatus, Demo!SetCustomerStatus
<1>4. ASSUME NEW c \in Demo!Customer, Demo!RecordPayment(c) PROVE DemoInv'
  <2> DEFINE row == Demo!Row(Demo!NextId(s1["payments"]), c, "completed")
  <2> DEFINE paid == [s1 EXCEPT !["payments"] = <<row>> \o s1["payments"]]
  <2>1. s1' = [paid EXCEPT !["transactions"] = <<row>> \o paid["transactions"]] /\ s2' = s2
    BY <1>4 DEF Demo!RecordPayment, Demo!Insert
  <2>2. DOMAIN paid = DOMAIN s1 /\ paid["payments"] = <<row>> \o s1["payments"]
        /\ paid["transactions"] = s1["transactions"]
    BY DEF DemoInv, Demo!Tables
  <2> HIDE DEF row, paid
  <2>3. DOMAIN s1' = DOMAIN s1 /\ s1'["payments"] = s1'["transactions"]
    BY <2>1, <2>2 DEF DemoInv, Demo!Tables
  <2> QED
    BY <2>1, <2>3 DEF DemoInv
<1>5. ASSUME NEW p \in Demo!Ids("plans"), Demo!TogglePlan(p) \/ Demo!DeletePlan(p) PROVE DemoInv'
  BY <1>5, <1>sets, <1>deletes DEF Demo!TogglePlan, Demo!DeletePlan
<1>6. ASSUME NEW i \in Demo!Ids("invoices"), Demo!DeleteInvoice(i) \/ Demo!UpdateInvoice(i, "paid")
      PROVE  DemoInv'
  BY <1>6, <1>sets, <1>deletes DEF Demo!UpdateInvoice, Demo!DeleteInvoice
<1>7. ASSUME NEW count \in 1..2, Demo!GenerateVouchers(count) PROVE DemoInv'
  BY <1>7, OtherTables DEF Demo!GenerateVouchers
<1>8. CASE \/ \E t \in Demo!Ids("tickets") : Demo!UpdateTicket(t, "closed")
           \/ \E k \in Demo!Ids("kycRecords"), s \in {"verified", "rejected"} : Demo!ReviewKyc(k, s)
  BY <1>8, <1>sets DEF Demo!UpdateTicket, Demo!ReviewKyc
<1>9. ASSUME NEW d \in Demo!Ids("devices"),
             Demo!DeleteDevice(d) \/ Demo!MintToken(d) \/ Demo!AskStatus(d)
      PROVE  DemoInv'
  BY <1>9, <1>deletes DEF Demo!DeleteDevice, Demo!MintToken, Demo!AskStatus, DemoInv
<1>10. ASSUME NEW d \in Demo!Ids("devices"), NEW port \in Ports \cup {"unknown"},
              NEW disabled \in BOOLEAN, Demo!TogglePort(d, port, disabled)
       PROVE  DemoInv'
  <2> DEFINE p == Demo!Resolve(port)
  <2>1. UNCHANGED s1 /\ s2' = IF p = Uplink /\ disabled THEN s2 ELSE Demo!Switch(d, p, disabled)
    BY <1>10 DEF Demo!TogglePort
  <2>2. Uplink \notin Demo!Get(s2, d, {})
    BY DEF Demo!Get, DemoInv
  <2> HIDE DEF p
  <2>3. \A e \in DOMAIN s2' : Uplink \notin s2'[e]
    BY <2>1, <2>2 DEF Demo!Switch, Demo!Put, DemoInv
  <2> QED
    BY <2>1, <2>3 DEF DemoInv
<1>11. CASE Demo!Reload
  BY <1>11, DemoBegin DEF Demo!Reload, DemoInv, Demo!FreshState, Demo!Tables
<1>12. CASE (\E d \in DOMAIN s3 : Demo!Provisions(d)) \/ UNCHANGED Demo!vars
  BY <1>12 DEF Demo!Provisions, Demo!vars, DemoInv
<1> QED
  BY <1>1, <1>2, <1>3, <1>4, <1>5, <1>6, <1>7, <1>8, <1>9, <1>10, <1>11, <1>12 DEF Demo!Next

LEMMA DemoSafe == DemoInv => Demo!BooksAgree /\ Demo!UplinkStaysUp
BY DEF DemoInv, Demo!BooksAgree, Demo!UplinkStaysUp

-----------------------------------------------------------------------------
(*                             The other parts                             *)

\* Two tabs of one browser share localStorage,
TwoTabs == INSTANCE ConsoleSession
    WITH local <- s1, tabs <- s2, requests <- s3, issued <- s4, valid <- s5, kept <- s6,
         Tabs <- BrowserTabs, Upgraded <- FALSE, MaxLogins <- MaxLogins, MaxCalls <- 0

\* or one tab is open.
OneTab == INSTANCE ConsoleSession
    WITH local <- s1, tabs <- s2, requests <- s3, issued <- s4, valid <- s5, kept <- s6,
         Tabs <- {"t1"}, Upgraded <- TRUE, MaxLogins <- MaxLogins, MaxCalls <- MaxCalls

\* The list of packages, for one who waits,
Shelf == INSTANCE PackageShelf
    WITH plans <- s1, filter <- s2, list <- s3, stats <- s4, asked <- s5, reqs <- s6,
         loading <- s7, MaxOut <- 2, Patient <- TRUE,
         Others <- FALSE, Ordered <- TRUE, Lossy <- FALSE

\* and for one who does not, with requests that fail.
LossyShelf == INSTANCE PackageShelf
    WITH plans <- s1, filter <- s2, list <- s3, stats <- s4, asked <- s5, reqs <- s6,
         loading <- s7, MaxOut <- 2, Patient <- FALSE,
         Others <- FALSE, Ordered <- TRUE, Lossy <- TRUE

\* Lists of records, with answers in any order, or none.
LossyLists == INSTANCE RecordPages
    WITH page <- s1, held <- s2, shown <- s3, view <- s4, due <- s5, loading <- s6,
         calls <- s7, busy <- s8, panel <- s9, tally <- s10, Ordered <- FALSE,
         Lossy <- TRUE, MaxOut <- ListOut, MaxOrders <- PolledOrders, MaxViews <- ListViews,
         MaxPolls <- 0

\* The address of the account.
Address == INSTANCE DomainAddress
    WITH holder <- s1, known <- s2, slug <- s3, verdict <- s4, ticket <- s5, due <- s6,
         lookups <- s7, sure <- s8, move <- s9, tally <- s10, Names <- {"acme", "acme2"},
         Short <- {"a"}, Own <- "acme", Losses <- TRUE, MaxTyped <- 4, MaxClaims <- 1,
         MaxMoves <- 2

ASSUME DeskAssumption ==
    /\ TwoTabs!ConsoleSessionAssumption /\ OneTab!ConsoleSessionAssumption
    /\ ClientList!ClientsAssumption /\ Entry!EntryAssumption /\ Editor!EditorAssumption
    /\ Shelf!PackageShelfAssumption /\ LossyShelf!PackageShelfAssumption
    /\ Package!PackageDetailAssumption /\ SharedPackage!PackageDetailAssumption
    /\ Route!RouteAssumption /\ Vault!VaultAssumption /\ Panel!PanelAssumption
    /\ Chat!CopilotAssumption /\ Rivals!OnboardingAssumption /\ Demo!DemoAssumption
    /\ RecordLists!RecordPagesAssumption /\ PolledLists!RecordPagesAssumption
    /\ LossyLists!RecordPagesAssumption
    /\ Settings!SettingsFormsAssumption /\ Address!DomainAddressAssumption

-----------------------------------------------------------------------------
Init ==
    \/ /\ part = "tabs" /\ TwoTabs!Init
       /\ s7 = "idle" /\ s8 = "idle" /\ s9 = "idle" /\ s10 = "idle" /\ s11 = "idle"
       /\ s12 = "idle" /\ s13 = "idle"
    \/ /\ part = "tab" /\ OneTab!Init
       /\ s7 = "idle" /\ s8 = "idle" /\ s9 = "idle" /\ s10 = "idle" /\ s11 = "idle"
       /\ s12 = "idle" /\ s13 = "idle"
    \/ /\ part = "clients" /\ ClientList!Init
       /\ s12 = "idle" /\ s13 = "idle"
    \/ /\ part = "entry" /\ Entry!Init
       /\ s8 = "idle" /\ s9 = "idle" /\ s10 = "idle" /\ s11 = "idle" /\ s12 = "idle"
       /\ s13 = "idle"
    \/ /\ part = "editor" /\ Editor!Init
       /\ s12 = "idle" /\ s13 = "idle"
    \/ /\ part = "shelf" /\ Shelf!Init
       /\ s8 = "idle" /\ s9 = "idle" /\ s10 = "idle" /\ s11 = "idle" /\ s12 = "idle"
       /\ s13 = "idle"
    \/ /\ part = "shelfLossy" /\ LossyShelf!Init
       /\ s8 = "idle" /\ s9 = "idle" /\ s10 = "idle" /\ s11 = "idle" /\ s12 = "idle"
       /\ s13 = "idle"
    \/ /\ part = "package" /\ Package!Init
       /\ s12 = "idle" /\ s13 = "idle"
    \/ /\ part = "packageShared" /\ SharedPackage!Init
       /\ s12 = "idle" /\ s13 = "idle"
    \/ /\ part = "route" /\ Route!Init
       /\ s12 = "idle" /\ s13 = "idle"
    \/ /\ part = "vault" /\ Vault!Init
       /\ s13 = "idle"
    \/ /\ part = "panel" /\ Panel!Init
       /\ s10 = "idle" /\ s11 = "idle" /\ s12 = "idle" /\ s13 = "idle"
    \/ /\ part = "chat" /\ Chat!Init
    \/ /\ part = "rivals" /\ Rivals!Init
       /\ s13 = "idle"
    \/ /\ part = "demo" /\ Demo!Init
       /\ s5 = "idle" /\ s6 = "idle" /\ s7 = "idle" /\ s8 = "idle" /\ s9 = "idle"
       /\ s10 = "idle" /\ s11 = "idle" /\ s12 = "idle" /\ s13 = "idle"
    \/ /\ part = "lists" /\ RecordLists!Init
       /\ s11 = "idle" /\ s12 = "idle" /\ s13 = "idle"
    \/ /\ part = "listsPolled" /\ PolledLists!Init
       /\ s11 = "idle" /\ s12 = "idle" /\ s13 = "idle"
    \/ /\ part = "listsLossy" /\ LossyLists!Init
       /\ s11 = "idle" /\ s12 = "idle" /\ s13 = "idle"
    \/ /\ part = "settings" /\ Settings!Init
       /\ s11 = "idle" /\ s12 = "idle" /\ s13 = "idle"
    \/ /\ part = "address" /\ Address!Init
       /\ s11 = "idle" /\ s12 = "idle" /\ s13 = "idle"

Next ==
    \/ part = "tabs" /\ TwoTabs!Next /\ UNCHANGED <<part, s7, s8, s9, s10, s11, s12, s13>>
    \/ part = "tab" /\ OneTab!Next /\ UNCHANGED <<part, s7, s8, s9, s10, s11, s12, s13>>
    \/ part = "clients" /\ ClientList!Next /\ UNCHANGED <<part, s12, s13>>
    \/ part = "entry" /\ Entry!Next /\ UNCHANGED <<part, s8, s9, s10, s11, s12, s13>>
    \/ part = "editor" /\ Editor!Next /\ UNCHANGED <<part, s12, s13>>
    \/ part = "shelf" /\ Shelf!Next /\ UNCHANGED <<part, s8, s9, s10, s11, s12, s13>>
    \/ part = "shelfLossy" /\ LossyShelf!Next /\ UNCHANGED <<part, s8, s9, s10, s11, s12, s13>>
    \/ part = "package" /\ Package!Next /\ UNCHANGED <<part, s12, s13>>
    \/ part = "packageShared" /\ SharedPackage!Next /\ UNCHANGED <<part, s12, s13>>
    \/ part = "route" /\ Route!Next /\ UNCHANGED <<part, s12, s13>>
    \/ part = "vault" /\ Vault!Next /\ UNCHANGED <<part, s13>>
    \/ part = "panel" /\ Panel!Next /\ UNCHANGED <<part, s10, s11, s12, s13>>
    \/ part = "chat" /\ Chat!Next /\ UNCHANGED <<part>>
    \/ part = "rivals" /\ Rivals!Next /\ UNCHANGED <<part, s13>>
    \/ part = "demo" /\ Demo!Next /\ UNCHANGED <<part, s5, s6, s7, s8, s9, s10, s11, s12, s13>>
    \/ part = "lists" /\ RecordLists!Next /\ UNCHANGED <<part, s11, s12, s13>>
    \/ part = "listsPolled" /\ PolledLists!Next /\ UNCHANGED <<part, s11, s12, s13>>
    \/ part = "listsLossy" /\ LossyLists!Next /\ UNCHANGED <<part, s11, s12, s13>>
    \/ part = "settings" /\ Settings!Next /\ UNCHANGED <<part, s11, s12, s13>>
    \/ part = "address" /\ Address!Next /\ UNCHANGED <<part, s11, s12, s13>>

Spec == Init /\ [][Next]_vars

-----------------------------------------------------------------------------
\* The variables of each part have their types, with the bounds the code
\* keeps: the turns a question carries, the reads that are current, the form
\* that belongs to the dialog.
TypeOK ==
    /\ part = "tabs" => TwoTabs!TypeOK
    /\ part = "tab" => OneTab!TypeOK
    /\ part = "clients" => ClientList!TypeOK
    /\ part = "entry" => Entry!TypeOK
    /\ part = "editor" => Editor!TypeOK
    /\ part = "shelf" => Shelf!TypeOK
    /\ part = "shelfLossy" => LossyShelf!TypeOK
    /\ part = "package" => Package!TypeOK
    /\ part = "packageShared" => SharedPackage!TypeOK
    /\ part = "route" => Route!TypeOK
    /\ part = "vault" => Vault!TypeOK
    /\ part = "panel" => Panel!TypeOK
    /\ part = "chat" => Chat!TypeOK
    /\ part = "rivals" => Rivals!TypeOK
    /\ part = "demo" => Demo!TypeOK
    /\ part = "lists" => RecordLists!TypeOK
    /\ part = "listsPolled" => PolledLists!TypeOK
    /\ part = "listsLossy" => LossyLists!TypeOK
    /\ part = "settings" => Settings!TypeOK
    /\ part = "address" => Address!TypeOK

\* Who is shown is who calls: a tab calls the API as the user in its corner,
\* and a tab that was taken out of the shared session neither falls back into
\* it nor calls with its token.
SessionsApart ==
    /\ part = "tabs" => TwoTabs!OptedOutStaysOut /\ TwoTabs!OptedOutCallsAsSelf
    /\ part = "tab" => OneTab!CallsAsUserShown /\ OneTab!OptedOutStaysOut

\* What a page shows at rest is what the server holds, whatever order the
\* answers came in: the login handed over with a new account, the packages
\* under a filter and their totals, the subscribers of a package, the payment
\* route, the messaging providers, the list of integrations, the turns of a
\* chat, the demo's lists page by page under ids of their own, the records of
\* every page that filters what it has, texts and switches of the settings, and
\* what is said of a name that is looked up.
ShownIsStored ==
    /\ part = "entry" => Entry!CredentialsAreStored
    /\ part = "shelf" => Shelf!RowsAreOfFilter /\ Shelf!CardsAddUp
    /\ part = "shelfLossy" => LossyShelf!TotalsAreCurrent /\ LossyShelf!LoadingEnds
    /\ part = "package" => Package!ShownIsStored
    /\ part = "route" => Route!SavedIsShown
    /\ part = "vault" => Vault!ShownIsStored
    /\ part = "panel" => Panel!ListIsStored
    /\ part = "chat" => Chat!SeenIsStored
    /\ part = "demo" => Demo!IdsAreUnique /\ Demo!PagesCoverLists
    /\ part = "lists" => RecordLists!ShownIsHeld
    /\ part = "listsPolled" => PolledLists!ShownIsHeld
    /\ part = "settings" => Settings!UnchangedIsStored /\ Settings!SwitchesAreStored
    /\ part = "address" => Address!VerdictIsOfName

\* What the server holds stays in order under all the pages do: one account
\* per login, a whole list deleted only when typed for, a throttle applied as
\* it was saved, no package deleted from under its users, every question of
\* a chat kept, a finished sign-up usable, the demo's books balanced, one record
\* made in one form, no blanks saved over settings that were not read.
RecordsHold ==
    /\ part = "clients" => ClientList!FilteredIsTyped
    /\ part = "entry" => Entry!OneAccountPerLogin
    /\ part = "editor" => Editor!AppliedIsSaved /\ Editor!TrialIsFree
    /\ part = "package" => Package!UsersKeepPackage
    /\ part = "packageShared" => SharedPackage!UsersKeepPackage
    /\ part = "chat" => Chat!QuestionKept
    /\ part = "rivals" => Rivals!CompletedIsUsable
    /\ part = "demo" => Demo!BooksAgree /\ Demo!UplinkStaysUp
    /\ part = "lists" => RecordLists!OneRecordPerForm
    /\ part = "listsPolled" => PolledLists!OneRecordPerForm
    /\ part = "settings" => Settings!NothingBlankIsSaved

\* An order does what was on screen when it was given: a bulk deletion is
\* never of more than was agreed to nor of what another filter showed, a save
\* of an untouched form changes nothing, and a button of a package does what
\* it says on it.
OnlyAsAgreed ==
    [][/\ part = "clients" => ClientList!NeverMoreThanAgreed /\ ClientList!SelectionGoesWithView
       /\ part = "editor" => Editor!UntouchedSaveKeeps
       /\ part = "package" => Package!ButtonDoesAsItSays /\ Package!AllAreCounted]_vars

\* No save wipes or leaks what it was not about: a masked secret sent back
\* leaves the stored one, switching a provider keeps its credentials, and the
\* payment route changes only by hand.
SecretsStay ==
    [][/\ part = "route" => Route!OnlyByHand
       /\ part = "vault" => Vault!SecretsStay /\ Vault!SwitchingKeeps
       /\ part = "panel" => Panel!PasswordStays]_vars

-----------------------------------------------------------------------------
(*                                 Proofs                                  *)

\* No step changes what the behaviour is about.
LEMMA PartStays == [Next]_vars => part' = part
BY DEF Next, vars

LEMMA TwoTabsSteps == part = "tabs" /\ [Next]_vars => [TwoTabs!Next]_(TwoTabs!vars)
BY DEF Next, vars, TwoTabs!vars

LEMMA OneTabSteps == part = "tab" /\ [Next]_vars => [OneTab!Next]_(OneTab!vars)
BY DEF Next, vars, OneTab!vars

LEMMA VaultSteps == part = "vault" /\ [Next]_vars => [Vault!Next]_(Vault!vars)
BY DEF Next, vars, Vault!vars

LEMMA PanelSteps == part = "panel" /\ [Next]_vars => [Panel!Next]_(Panel!vars)
BY DEF Next, vars, Panel!vars

LEMMA RouteSteps == part = "route" /\ [Next]_vars => [Route!Next]_(Route!vars)
BY DEF Next, vars, Route!vars

LEMMA ClientListSteps == part = "clients" /\ [Next]_vars => [ClientList!Next]_(ClientList!vars)
BY DEF Next, vars, ClientList!vars, ClientList!pageVars

LEMMA EntrySteps == part = "entry" /\ [Next]_vars => [Entry!Next]_(Entry!vars)
BY DEF Next, vars, Entry!vars

LEMMA EditorSteps == part = "editor" /\ [Next]_vars => [Editor!Next]_(Editor!vars)
BY DEF Next, vars, Editor!vars

LEMMA PackageSteps == part = "package" /\ [Next]_vars => [Package!Next]_(Package!vars)
BY DEF Next, vars, Package!vars

LEMMA SharedPackageSteps == part = "packageShared" /\ [Next]_vars => [SharedPackage!Next]_(SharedPackage!vars)
BY DEF Next, vars, SharedPackage!vars

LEMMA ChatSteps == part = "chat" /\ [Next]_vars => [Chat!Next]_(Chat!vars)
BY DEF Next, vars, Chat!vars, Chat!server, Chat!panel

LEMMA RivalsSteps == part = "rivals" /\ [Next]_vars => [Rivals!Next]_(Rivals!vars)
BY DEF Next, vars, Rivals!vars, Rivals!wizard, Rivals!server

LEMMA DemoSteps == part = "demo" /\ [Next]_vars => [Demo!Next]_(Demo!vars)
BY DEF Next, vars, Demo!vars

LEMMA RecordListsSteps == part = "lists" /\ [Next]_vars => [RecordLists!Next]_(RecordLists!vars)
BY DEF Next, vars, RecordLists!vars

LEMMA PolledListsSteps == part = "listsPolled" /\ [Next]_vars => [PolledLists!Next]_(PolledLists!vars)
BY DEF Next, vars, PolledLists!vars

LEMMA SettingsSteps == part = "settings" /\ [Next]_vars => [Settings!Next]_(Settings!vars)
BY DEF Next, vars, Settings!vars

SessionsInv ==
    /\ part = "tabs" => TwoTabs!OptedOutInv
    /\ part = "tab" => OneTab!OptedOutInv /\ OneTab!ShownInv

\* Whatever number of tabs share localStorage, one that was taken out of the shared
\* session (AuthContext, "keep me signed in: off") calls as itself and is not found
\* there; where one tab is open, every call is of the user on screen.
THEOREM SessionsApartHolds == Spec => []SessionsApart
<1>a. TwoTabs!ConsoleSessionAssumption /\ OneTab!ConsoleSessionAssumption
  BY DeskAssumption
<1>1. Init => SessionsInv
  BY <1>a, TwoTabs!SessionsBegin, OneTab!SessionsBegin DEF Init, SessionsInv
<1>2. SessionsInv /\ [Next]_vars => SessionsInv'
  <2> SUFFICES ASSUME SessionsInv, [Next]_vars PROVE SessionsInv'
    OBVIOUS
  <2>1. part' = part
    BY PartStays
  <2>2. part = "tabs" => TwoTabs!OptedOutInv'
    BY <1>a, TwoTabsSteps, TwoTabs!OptedOutStep DEF SessionsInv
  <2>3. part = "tab" => OneTab!OptedOutInv' /\ OneTab!ShownInv'
    BY <1>a, OneTabSteps, OneTab!OptedOutStep, OneTab!ShownStep DEF SessionsInv
  <2> QED
    BY <2>1, <2>2, <2>3 DEF SessionsInv
<1>3. SessionsInv => SessionsApart
  BY TwoTabs!OptedOutFollows, OneTab!OptedOutFollows, OneTab!ShownFollows
  DEF SessionsInv, SessionsApart
<1> QED
  BY <1>1, <1>2, <1>3, PTL DEF Spec

SecretsInv ==
    /\ part = "route" => RouteInv
    /\ part = "vault" => VaultInv
    /\ part = "panel" => PanelInv

\* Whatever is typed and however requests fail, update_integration and update_payments
\* lose no credential that nobody emptied: a blank or a mask keeps the stored secret,
\* set_active_messaging_provider keeps those of all providers, and a field of the payment
\* settings is emptied only by hand.
THEOREM SecretsStayHolds == Spec => SecretsStay
<1>1. Init => SecretsInv
  BY RouteBegin, VaultBegin, PanelBegin DEF Init, SecretsInv
<1> DEFINE Stays == /\ part = "route" => Route!OnlyByHand
                    /\ part = "vault" => Vault!SecretsStay /\ Vault!SwitchingKeeps
                    /\ part = "panel" => Panel!PasswordStays
<1>2. SecretsInv /\ [Next]_vars => SecretsInv' /\ Stays
  <2> SUFFICES ASSUME SecretsInv, [Next]_vars PROVE SecretsInv' /\ Stays
    OBVIOUS
  <2>1. part' = part
    BY PartStays
  <2>2. part = "route" => RouteInv' /\ Route!OnlyByHand
    BY RouteSteps, RouteStep DEF SecretsInv
  <2>3. part = "vault" => VaultInv' /\ Vault!SecretsStay /\ Vault!SwitchingKeeps
    BY VaultSteps, VaultStep DEF SecretsInv
  <2>4. part = "panel" => PanelInv' /\ Panel!PasswordStays
    BY PanelSteps, PanelStep DEF SecretsInv
  <2> QED
    BY <2>1, <2>2, <2>3, <2>4 DEF SecretsInv
<1> QED
  BY <1>1, <1>2, PTL DEF Spec, SecretsStay
-----------------------------------------------------------------------------
AgreedInv ==
    /\ part = "clients" => ClientsInv
    /\ part = "editor" => EditorInv
    /\ part = "package" => PackageInv

\* Whatever is selected, filtered and typed while answers arrive, bulk_delete_customers deletes
\* no more clients than were counted in the question and, of ticked rows, no other; changing
\* the view drops what was ticked. An untouched form of a package saves what was stored, and a
\* button of its page, seen by one operator, does what it says.
THEOREM OnlyAsAgreedHolds == Spec => OnlyAsAgreed
<1>1. Init => AgreedInv
  BY ClientsBegin, EditorBegin, PackageBegin DEF Init, AgreedInv
<1> DEFINE Agreed == /\ part = "clients" => ClientList!NeverMoreThanAgreed /\ ClientList!SelectionGoesWithView
                     /\ part = "editor" => Editor!UntouchedSaveKeeps
                     /\ part = "package" => Package!ButtonDoesAsItSays /\ Package!AllAreCounted
<1>2. AgreedInv /\ [Next]_vars => AgreedInv' /\ Agreed
  <2> SUFFICES ASSUME AgreedInv, [Next]_vars PROVE AgreedInv' /\ Agreed
    OBVIOUS
  <2>1. part' = part
    BY PartStays
  <2>2. part = "clients" => ClientsInv' /\ ClientList!NeverMoreThanAgreed /\ ClientList!SelectionGoesWithView
    BY ClientListSteps, ClientsStep DEF AgreedInv
  <2>3. part = "editor" => EditorInv' /\ Editor!UntouchedSaveKeeps
    BY EditorSteps, EditorStep DEF AgreedInv
  <2>4. part = "package" => PackageInv' /\ Package!ButtonDoesAsItSays /\ Package!AllAreCounted
    BY PackageSteps, PackageStep DEF AgreedInv
  <2> QED
    BY <2>1, <2>2, <2>3, <2>4 DEF AgreedInv
<1> QED
  BY <1>1, <1>2, PTL DEF Spec, OnlyAsAgreed

-----------------------------------------------------------------------------
RecordsInv ==
    /\ AgreedInv
    /\ part = "entry" => Entry!OneAccountPerLogin
    /\ part = "package" => Package!UsersKeepPackage
    /\ part = "packageShared" => SharedPackage!UsersKeepPackage
    /\ part = "chat" => ChatInv
    /\ part = "rivals" => RivalsInv
    /\ part = "demo" => DemoInv
    /\ part \in {"lists", "listsPolled"} => ListInv
    /\ part = "settings" => SettingsInv

\* However answers, losses, second operators and rivals fall between the steps: an account is
\* created once, a whole list is deleted only when typed for, a throttled subscriber is
\* slowed as the package says, a package in use is not deleted, a question is stored in its
\* thread once, a completed sign-up has its tenant and administrator, the demo's payments and
\* transactions agree and its uplink stays up, a form that is off while it saves makes one
\* record, and no settings are saved that were not read.
THEOREM RecordsHoldAlways == Spec => []RecordsHold
<1>1. Init => RecordsInv
  <2> SUFFICES ASSUME Init PROVE RecordsInv
    OBVIOUS
  <2>1. AgreedInv
    BY ClientsBegin, EditorBegin, PackageBegin DEF Init, AgreedInv
  <2>2. part = "entry" => Entry!OneAccountPerLogin
    BY DEF Init, Entry!Init, Entry!OneAccountPerLogin
  <2>3. part = "package" => Package!UsersKeepPackage
    BY DEF Init, Package!Init, Package!UsersKeepPackage
  <2>4. part = "packageShared" => SharedPackage!UsersKeepPackage
    BY DEF Init, SharedPackage!Init, SharedPackage!UsersKeepPackage
  <2>5. /\ part = "chat" => ChatInv
        /\ part = "rivals" => RivalsInv
        /\ part = "demo" => DemoInv
        /\ part = "settings" => SettingsInv
    BY ChatBegin, RivalsBegin, DemoBegin, SettingsBegin DEF Init
  <2>6. part \in {"lists", "listsPolled"} => ListInv
    BY RecordListsBegin, PolledListsBegin DEF Init
  <2> QED
    BY <2>1, <2>2, <2>3, <2>4, <2>5, <2>6 DEF RecordsInv
<1>2. RecordsInv /\ [Next]_vars => RecordsInv'
  <2> SUFFICES ASSUME RecordsInv, [Next]_vars PROVE RecordsInv'
    OBVIOUS
  <2>1. part' = part
    BY PartStays
  <2>2. AgreedInv'
    <3>1. part = "clients" => ClientsInv'
      BY ClientListSteps, ClientsStep DEF RecordsInv, AgreedInv
    <3>2. part = "editor" => EditorInv'
      BY EditorSteps, EditorStep DEF RecordsInv, AgreedInv
    <3>3. part = "package" => PackageInv'
      BY PackageSteps, PackageStep DEF RecordsInv, AgreedInv
    <3> QED
      BY <2>1, <3>1, <3>2, <3>3 DEF AgreedInv
  <2>3. part = "entry" => Entry!OneAccountPerLogin'
    BY EntrySteps, EntryStep DEF RecordsInv
  <2>4. part = "package" => Package!UsersKeepPackage'
    BY PackageSteps, UsersStep DEF RecordsInv
  <2>5. part = "packageShared" => SharedPackage!UsersKeepPackage'
    BY SharedPackageSteps, SharedUsersStep DEF RecordsInv
  <2>6. part = "chat" => ChatInv'
    BY ChatSteps, ChatStep DEF RecordsInv
  <2>7. part = "rivals" => RivalsInv'
    BY RivalsSteps, RivalsStep DEF RecordsInv
  <2>8. part = "demo" => DemoInv'
    BY DemoSteps, DemoStep DEF RecordsInv
  <2>9. part = "lists" => ListInv'
    BY RecordListsSteps, RecordListsStep DEF RecordsInv
  <2>10. part = "listsPolled" => ListInv'
    BY PolledListsSteps, PolledListsStep DEF RecordsInv
  <2>11. part = "settings" => SettingsInv'
    BY SettingsSteps, SettingsStep DEF RecordsInv
  <2> QED
    BY <2>1, <2>2, <2>3, <2>4, <2>5, <2>6, <2>7, <2>8, <2>9, <2>10, <2>11 DEF RecordsInv
<1>3. RecordsInv => RecordsHold
  <2> SUFFICES ASSUME RecordsInv PROVE RecordsHold
    OBVIOUS
  <2>1. part = "clients" => ClientList!FilteredIsTyped
    BY ClientsSafe DEF RecordsInv, AgreedInv
  <2>2. part = "editor" => Editor!AppliedIsSaved /\ Editor!TrialIsFree
    BY EditorSafe DEF RecordsInv, AgreedInv
  <2>3. /\ part = "chat" => Chat!QuestionKept
        /\ part = "rivals" => Rivals!CompletedIsUsable
        /\ part = "demo" => Demo!BooksAgree /\ Demo!UplinkStaysUp
        /\ part = "settings" => Settings!NothingBlankIsSaved
    BY ChatSafe, RivalsSafe, DemoSafe, SettingsSafe DEF RecordsInv
  <2>4. /\ part = "lists" => RecordLists!OneRecordPerForm
        /\ part = "listsPolled" => PolledLists!OneRecordPerForm
    BY RecordListsSafe, PolledListsSafe DEF RecordsInv
  <2> QED
    BY <2>1, <2>2, <2>3, <2>4 DEF RecordsInv, RecordsHold
<1> QED
  BY <1>1, <1>2, <1>3, PTL DEF Spec
=============================================================================
