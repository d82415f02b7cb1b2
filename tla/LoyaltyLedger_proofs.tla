------------------------ MODULE LoyaltyLedger_proofs ------------------------
(***************************************************************************)
(* Proofs about LoyaltyLedger for any payments, worths, lifetimes and      *)
(* numbers of workers: the types, that the batches back the balance, and   *)
(* that the oldest points are spent first.                                 *)
(*                                                                         *)
(* What a sum over the rows is follows by induction, stated of a set of    *)
(* numbers: every nonempty set of numbers has a least element.             *)
(***************************************************************************)
EXTENDS LoyaltyLedger, SequenceTheorems, WellFoundedInduction, TLAPS

-----------------------------------------------------------------------------
(*                       Sums over the first rows                          *)

LEMMA NumberInduction ==
    ASSUME NEW T, 0 \in T, \A n \in Nat : n \in T => n + 1 \in T
    PROVE  \A n \in Nat : n \in T
<1> DEFINE Less == {pair \in Nat \X Nat : pair[1] < pair[2]}
<1>1. IsWellFoundedOn(Less, Nat)
  BY NatLessThanWellFounded DEF OpToRel
<1>2. ASSUME Nat \ T # {} PROVE FALSE
  <2>1. PICK n \in Nat \ T : \A m \in Nat \ T : <<m, n>> \notin Less
    <3>1. Nat \ T \subseteq Nat
      OBVIOUS
    <3> HIDE DEF Less
    <3> QED
      BY <1>1, <1>2, <3>1, WFMin
  <2>2. n # 0 /\ n - 1 \in Nat /\ n - 1 < n /\ (n - 1) + 1 = n
    BY <2>1
  <2>3. <<n - 1, n>> \in Less
    BY <2>1, <2>2
  <2> QED
    BY <2>1, <2>2, <2>3
<1> QED
  BY <1>2

\* g holds the sums of the first 0, 1, ..., n values of f.
IsSum(f, n, g) == g = [k \in 0..n |-> IF k = 0 THEN 0 ELSE g[k - 1] + f[k]]

LEMMA SumExists == \A f : \A n \in Nat : \E g : IsSum(f, n, g)
<1> SUFFICES ASSUME NEW f PROVE \A n \in Nat : \E g : IsSum(f, n, g)
  OBVIOUS
<1> DEFINE T == {n \in Nat : \E g : IsSum(f, n, g)}
<1>1. 0 \in T
  <2>1. IsSum(f, 0, [k \in 0..0 |-> 0])
    BY DEF IsSum
  <2> QED
    BY <2>1
<1>2. ASSUME NEW n \in Nat, n \in T PROVE n + 1 \in T
  <2>1. PICK g : IsSum(f, n, g)
    BY <1>2
  <2> DEFINE h == [k \in 0..n + 1 |-> IF k = n + 1 THEN g[n] + f[k] ELSE g[k]]
  <2>2. \A k \in 0..n + 1 : h[k] = IF k = 0 THEN 0 ELSE h[k - 1] + f[k]
    BY <2>1 DEF IsSum
  <2>3. h = [k \in 0..n + 1 |-> h[k]]
    OBVIOUS
  <2> HIDE DEF h
  <2>4. IsSum(f, n + 1, h)
    BY <2>2, <2>3 DEF IsSum
  <2> QED
    BY <2>4
<1>3. \A n \in Nat : n \in T
  <2> HIDE DEF T
  <2> QED
    BY <1>1, <1>2, NumberInduction
<1> QED
  BY <1>3

\* Two of them agree on the numbers they share.
LEMMA SumUnique ==
    ASSUME NEW f, NEW n \in Nat, NEW m \in Nat, NEW g, NEW h,
           IsSum(f, n, g), IsSum(f, m, h)
    PROVE  \A k \in Nat : k <= n /\ k <= m => g[k] = h[k]
<1> DEFINE T == {k \in Nat : k <= n /\ k <= m => g[k] = h[k]}
<1>1. 0 \in T
  BY DEF IsSum
<1>2. ASSUME NEW k \in Nat, k \in T PROVE k + 1 \in T
  <2> SUFFICES ASSUME k + 1 <= n, k + 1 <= m PROVE g[k + 1] = h[k + 1]
    OBVIOUS
  <2>1. g[k] = h[k] /\ k + 1 \in 0..n /\ k + 1 \in 0..m /\ k + 1 # 0 /\ (k + 1) - 1 = k
    BY <1>2
  <2>2. g[k + 1] = g[k] + f[k + 1] /\ h[k + 1] = h[k] + f[k + 1]
    BY <2>1 DEF IsSum
  <2> QED
    BY <2>1, <2>2
<1>3. \A k \in Nat : k \in T
  <2> HIDE DEF T
  <2> QED
    BY <1>1, <1>2, NumberInduction
<1> QED
  BY <1>3

LEMMA SumIs ==
    ASSUME NEW f, NEW n \in Nat
    PROVE  \E g : IsSum(f, n, g) /\ SumTo(f, n) = g[n]
<1>1. \E g : g = [k \in 0..n |-> IF k = 0 THEN 0 ELSE g[k - 1] + f[k]]
  BY SumExists DEF IsSum
<1> DEFINE sum == CHOOSE g : g = [k \in 0..n |-> IF k = 0 THEN 0 ELSE g[k - 1] + f[k]]
<1>2. sum = [k \in 0..n |-> IF k = 0 THEN 0 ELSE sum[k - 1] + f[k]]
  BY <1>1, Zenon
<1>3. SumTo(f, n) = sum[n]
  BY Zenon DEF SumTo
<1> QED
  BY <1>2, <1>3 DEF IsSum

\* The sum is the one the definition means.
LEMMA SumStep ==
    ASSUME NEW f
    PROVE  /\ SumTo(f, 0) = 0
           /\ \A n \in Nat : SumTo(f, n + 1) = SumTo(f, n) + f[n + 1]
<1>1. SumTo(f, 0) = 0
  <2>1. PICK g : IsSum(f, 0, g) /\ SumTo(f, 0) = g[0]
    BY SumIs
  <2> QED
    BY <2>1 DEF IsSum
<1>2. ASSUME NEW n \in Nat PROVE SumTo(f, n + 1) = SumTo(f, n) + f[n + 1]
  <2>1. PICK g : IsSum(f, n, g) /\ SumTo(f, n) = g[n]
    BY SumIs
  <2>2. PICK h : IsSum(f, n + 1, h) /\ SumTo(f, n + 1) = h[n + 1]
    BY SumIs
  <2>3. g[n] = h[n]
    BY <2>1, <2>2, SumUnique
  <2>4. h[n + 1] = h[n] + f[n + 1]
    <3>1. n + 1 \in 0..n + 1 /\ n + 1 # 0 /\ (n + 1) - 1 = n
      OBVIOUS
    <3> QED
      BY <2>2, <3>1 DEF IsSum
  <2> QED
    BY <2>1, <2>2, <2>3, <2>4
<1> QED
  BY <1>1, <1>2

LEMMA SumType ==
    ASSUME NEW f, NEW n \in Nat, \A k \in 1..n : f[k] \in Nat
    PROVE  \A m \in 0..n : SumTo(f, m) \in Nat
<1> DEFINE T == {m \in Nat : m <= n => SumTo(f, m) \in Nat}
<1>1. 0 \in T
  BY SumStep
<1>2. ASSUME NEW m \in Nat, m \in T PROVE m + 1 \in T
  <2> SUFFICES ASSUME m + 1 <= n PROVE SumTo(f, m + 1) \in Nat
    OBVIOUS
  <2>1. SumTo(f, m) \in Nat /\ f[m + 1] \in Nat
    BY <1>2
  <2> QED
    BY <2>1, SumStep
<1>3. \A m \in Nat : m \in T
  <2> HIDE DEF T
  <2> QED
    BY <1>1, <1>2, NumberInduction
<1> QED
  BY <1>3

LEMMA SumOfTwo ==
    ASSUME NEW f, NEW g, NEW h, NEW n \in Nat,
           \A k \in 1..n : g[k] \in Nat /\ h[k] \in Nat /\ f[k] = g[k] + h[k]
    PROVE  /\ SumTo(f, n) = SumTo(g, n) + SumTo(h, n)
           /\ SumTo(g, n) \in Nat /\ SumTo(h, n) \in Nat
<1> DEFINE T == {m \in Nat : m <= n => SumTo(f, m) = SumTo(g, m) + SumTo(h, m)}
<1>1. 0 \in T
  BY SumStep
<1>2. ASSUME NEW m \in Nat, m \in T PROVE m + 1 \in T
  <2> SUFFICES ASSUME m + 1 <= n PROVE SumTo(f, m + 1) = SumTo(g, m + 1) + SumTo(h, m + 1)
    OBVIOUS
  <2>1. /\ SumTo(f, m) = SumTo(g, m) + SumTo(h, m)
        /\ g[m + 1] \in Nat /\ h[m + 1] \in Nat /\ f[m + 1] = g[m + 1] + h[m + 1]
    BY <1>2
  <2>2. SumTo(g, m) \in Nat /\ SumTo(h, m) \in Nat
    BY SumType
  <2>3. /\ SumTo(f, m + 1) = SumTo(f, m) + f[m + 1]
        /\ SumTo(g, m + 1) = SumTo(g, m) + g[m + 1]
        /\ SumTo(h, m + 1) = SumTo(h, m) + h[m + 1]
    BY SumStep
  <2> QED
    BY <2>1, <2>2, <2>3
<1>3. \A m \in Nat : m \in T
  <2> HIDE DEF T
  <2> QED
    BY <1>1, <1>2, NumberInduction
<1>4. SumTo(g, n) \in Nat /\ SumTo(h, n) \in Nat
  BY SumType
<1> QED
  BY <1>3, <1>4

\* The sum looks at the first n values only.
LEMMA SumSame ==
    ASSUME NEW f, NEW g, NEW n \in Nat, \A k \in 1..n : f[k] = g[k]
    PROVE  SumTo(f, n) = SumTo(g, n)
<1> DEFINE T == {m \in Nat : m <= n => SumTo(f, m) = SumTo(g, m)}
<1>1. 0 \in T
  BY SumStep
<1>2. ASSUME NEW m \in Nat, m \in T PROVE m + 1 \in T
  BY <1>2, SumStep
<1>3. \A m \in Nat : m \in T
  <2> HIDE DEF T
  <2> QED
    BY <1>1, <1>2, NumberInduction
<1> QED
  BY <1>3

\* Where every value is a number, a longer sum is no smaller.
LEMMA SumGrows ==
    ASSUME NEW f, NEW n \in Nat, \A k \in 1..n : f[k] \in Nat, NEW a \in 0..n, NEW b \in 0..n, a <= b
    PROVE  SumTo(f, a) <= SumTo(f, b)
<1> DEFINE T == {m \in Nat : a <= m /\ m <= n => SumTo(f, a) <= SumTo(f, m)}
<1>1. 0 \in T
  BY SumStep
<1>2. ASSUME NEW m \in Nat, m \in T PROVE m + 1 \in T
  <2> SUFFICES ASSUME a <= m + 1, m + 1 <= n PROVE SumTo(f, a) <= SumTo(f, m + 1)
    OBVIOUS
  <2>1. /\ SumTo(f, m) \in Nat /\ SumTo(f, a) \in Nat /\ f[m + 1] \in Nat
        /\ SumTo(f, m + 1) = SumTo(f, m) + f[m + 1]
    <3>1. SumTo(f, m) \in Nat /\ SumTo(f, a) \in Nat
      BY SumType
    <3> QED
      BY <3>1, SumStep
  <2>2. CASE a = m + 1
    BY <2>1, <2>2
  <2>3. CASE a # m + 1
    BY <1>2, <2>1, <2>3
  <2> QED
    BY <2>2, <2>3
<1>3. \A m \in Nat : m \in T
  <2> HIDE DEF T
  <2> QED
    BY <1>1, <1>2, NumberInduction
<1> QED
  BY <1>3

\* Taking p points of rows that hold f[1], f[2], ..., each giving what it has or what
\* the rows before it left to take, takes all of the p points that there are.
LEMMA SumTaken ==
    ASSUME NEW f, NEW t, NEW n \in Nat, NEW p \in Nat, \A k \in 1..n : f[k] \in Nat,
           \A k \in 1..n :
              t[k] = IF SumTo(f, k - 1) < p THEN Smaller(f[k], p - SumTo(f, k - 1)) ELSE 0
    PROVE  /\ SumTo(t, n) = Smaller(SumTo(f, n), p)
           /\ \A k \in 1..n : t[k] \in Nat /\ t[k] <= f[k]
<1>1. \A k \in 1..n : t[k] \in Nat /\ t[k] <= f[k]
  <2> SUFFICES ASSUME NEW k \in 1..n PROVE t[k] \in Nat /\ t[k] <= f[k]
    OBVIOUS
  <2>1. SumTo(f, k - 1) \in Nat /\ f[k] \in Nat
    BY SumType
  <2>2. t[k] = IF SumTo(f, k - 1) < p THEN Smaller(f[k], p - SumTo(f, k - 1)) ELSE 0
    OBVIOUS
  <2> QED
    BY <2>1, <2>2 DEF Smaller
<1> DEFINE T == {m \in Nat : m <= n => SumTo(t, m) = Smaller(SumTo(f, m), p)}
<1>2. 0 \in T
  BY SumStep DEF Smaller
<1>3. ASSUME NEW m \in Nat, m \in T PROVE m + 1 \in T
  <2> SUFFICES ASSUME m + 1 <= n PROVE SumTo(t, m + 1) = Smaller(SumTo(f, m + 1), p)
    OBVIOUS
  <2>1. SumTo(t, m) = Smaller(SumTo(f, m), p)
    BY <1>3
  <2>2. SumTo(f, m) \in Nat /\ f[m + 1] \in Nat
    BY SumType
  <2>3. SumTo(f, m + 1) = SumTo(f, m) + f[m + 1] /\ SumTo(t, m + 1) = SumTo(t, m) + t[m + 1]
    BY SumStep
  <2>4. t[m + 1] = IF SumTo(f, m) < p THEN Smaller(f[m + 1], p - SumTo(f, m)) ELSE 0
    <3>1. m + 1 \in 1..n /\ (m + 1) - 1 = m
      OBVIOUS
    <3> QED
      BY <3>1
  <2> QED
    BY <2>1, <2>2, <2>3, <2>4 DEF Smaller
<1>4. \A m \in Nat : m \in T
  <2> HIDE DEF T
  <2> QED
    BY <1>2, <1>3, NumberInduction
<1> QED
  BY <1>1, <1>4

-----------------------------------------------------------------------------
(*                                Types                                    *)

LEMMA RowTyped ==
    ASSUME TypeOK
    PROVE  /\ Len(batches) \in Nat /\ Rows = 1..Len(batches)
           /\ \A i \in Rows : /\ batches[i] \in Batch /\ batches[i].points \in Nat \ {0}
                              /\ batches[i].consumed \in Nat /\ batches[i].expires \in Nat
                              /\ batches[i].consumed <= batches[i].points
                              /\ Free(batches[i]) \in Nat
<1>1. batches \in Seq(Batch) /\ \A i \in 1..Len(batches) : batches[i].consumed <= batches[i].points
  BY DEF TypeOK
<1>2. Len(batches) \in Nat /\ Rows = 1..Len(batches) /\ \A i \in Rows : batches[i] \in Batch
  BY <1>1 DEF Rows
<1>3. ASSUME NEW i \in Rows
      PROVE  /\ batches[i].points \in Nat \ {0} /\ batches[i].consumed \in Nat
             /\ batches[i].expires \in Nat
  BY <1>2 DEF Batch
<1> QED
  BY <1>1, <1>2, <1>3 DEF Free

\* What a redemption takes of the batches is what its query finds them to have.
LEMMA TakenFacts ==
    ASSUME TypeOK, NEW points \in Nat
    PROVE  /\ \A i \in Rows : /\ LiveFree[i] \in Nat /\ LiveBefore(i) \in Nat
                              /\ Taken(i, points) \in Nat
                              /\ Taken(i, points) <= Free(batches[i])
                              /\ i \notin Live => Taken(i, points) = 0
           /\ LiveTotal \in Nat
           /\ SumTo([i \in Rows |-> Taken(i, points)], Len(batches)) = Smaller(LiveTotal, points)
<1> DEFINE n == Len(batches)
           taken == [i \in Rows |-> Taken(i, points)]
<1>1. n \in Nat /\ Rows = 1..n /\ \A i \in Rows : Free(batches[i]) \in Nat
  BY RowTyped
<1>2. \A i \in 1..n : LiveFree[i] \in Nat /\ LiveFree[i] <= Free(batches[i])
  BY <1>1 DEF LiveFree
<1>3. \A m \in 0..n : SumTo(LiveFree, m) \in Nat
  BY <1>1, <1>2, SumType
<1>4. ASSUME NEW i \in 1..n
      PROVE  /\ LiveBefore(i) \in Nat
             /\ taken[i] = IF SumTo(LiveFree, i - 1) < points
                           THEN Smaller(LiveFree[i], points - SumTo(LiveFree, i - 1)) ELSE 0
             /\ i \notin Live => taken[i] = 0
  <2>1. i - 1 \in 0..n /\ i \in Rows
    BY <1>1
  <2>2. SumTo(LiveFree, i - 1) \in Nat /\ LiveBefore(i) = SumTo(LiveFree, i - 1)
    BY <1>3, <2>1 DEF LiveBefore
  <2>3. LiveFree[i] = IF i \in Live THEN Free(batches[i]) ELSE 0
    BY <2>1 DEF LiveFree
  <2>4. taken[i] = Taken(i, points)
    BY <2>1
  <2> QED
    BY <2>2, <2>3, <2>4 DEF Taken, Smaller
<1>5. /\ SumTo(taken, n) = Smaller(SumTo(LiveFree, n), points)
      /\ \A i \in 1..n : taken[i] \in Nat /\ taken[i] <= LiveFree[i]
  <2> HIDE DEF taken
  <2> QED
    BY <1>1, <1>2, <1>4, SumTaken
<1>6. \A i \in Rows : taken[i] = Taken(i, points)
  OBVIOUS
<1>7. ASSUME NEW i \in Rows
      PROVE  /\ Taken(i, points) \in Nat /\ Taken(i, points) <= Free(batches[i])
             /\ i \notin Live => Taken(i, points) = 0
  <2>1. /\ taken[i] \in Nat /\ taken[i] <= LiveFree[i]
        /\ LiveFree[i] \in Nat /\ LiveFree[i] <= Free(batches[i]) /\ Free(batches[i]) \in Nat
        /\ i \notin Live => taken[i] = 0
    BY <1>1, <1>2, <1>4, <1>5
  <2> QED
    BY <1>6, <2>1
<1>8. n \in 0..n
  BY <1>1
<1>9. LiveTotal \in Nat /\ LiveTotal = SumTo(LiveFree, n)
  BY <1>3, <1>8 DEF LiveTotal
<1> QED
  BY <1>1, <1>2, <1>4, <1>5, <1>7, <1>9

\* The rows an UPDATE leaves: each row it was computed for has the loaded value.
RowsWritten ==
    \A w \in Workers :
        /\ Written(w) \in Seq(Batch) /\ Len(Written(w)) = Len(batches)
        /\ DOMAIN Written(w) = Rows
        /\ \A i \in Rows :
              /\ Written(w)[i].points = batches[i].points
              /\ Written(w)[i].expires = batches[i].expires
              /\ Written(w)[i].consumed = IF i \in DOMAIN session[w].consumed
                                          THEN session[w].consumed[i] ELSE batches[i].consumed
              /\ Written(w)[i].consumed <= Written(w)[i].points

LEMMA WrittenTyped == TypeOK => RowsWritten
<1> SUFFICES ASSUME TypeOK, NEW w \in Workers
             PROVE  /\ Written(w) \in Seq(Batch) /\ Len(Written(w)) = Len(batches)
                    /\ DOMAIN Written(w) = Rows
                    /\ \A i \in Rows :
                          /\ Written(w)[i].points = batches[i].points
                          /\ Written(w)[i].expires = batches[i].expires
                          /\ Written(w)[i].consumed = IF i \in DOMAIN session[w].consumed
                                                      THEN session[w].consumed[i]
                                                      ELSE batches[i].consumed
                          /\ Written(w)[i].consumed <= Written(w)[i].points
  BY DEF RowsWritten
<1> DEFINE n == Len(batches)
           c == session[w].consumed
<1>1. n \in Nat /\ Rows = 1..n
  BY RowTyped
<1>2. ASSUME NEW i \in Rows
      PROVE  /\ Written(w)[i] \in Batch
             /\ Written(w)[i].points = batches[i].points
             /\ Written(w)[i].expires = batches[i].expires
             /\ Written(w)[i].consumed = IF i \in DOMAIN c THEN c[i] ELSE batches[i].consumed
             /\ Written(w)[i].consumed <= Written(w)[i].points
  <2>1. /\ batches[i] \in Batch /\ batches[i].points \in Nat
        /\ batches[i].consumed <= batches[i].points
    BY RowTyped
  <2>2. CASE i \in DOMAIN c
    <3>1. Written(w)[i] = [batches[i] EXCEPT !.consumed = c[i]]
      BY <2>2 DEF Written
    <3>2. c[i] \in 1..batches[i].points
      BY <2>2 DEF TypeOK
    <3>3. c[i] \in Nat /\ c[i] <= batches[i].points
      BY <2>1, <3>2
    <3> HIDE DEF c
    <3>4. /\ [batches[i] EXCEPT !.consumed = c[i]] \in Batch
          /\ [batches[i] EXCEPT !.consumed = c[i]].points = batches[i].points
          /\ [batches[i] EXCEPT !.consumed = c[i]].expires = batches[i].expires
          /\ [batches[i] EXCEPT !.consumed = c[i]].consumed = c[i]
      BY <2>1, <3>3 DEF Batch
    <3> QED
      BY <2>2, <3>1, <3>3, <3>4
  <2>3. CASE i \notin DOMAIN c
    <3>1. Written(w)[i] = batches[i]
      BY <2>3 DEF Written
    <3> QED
      BY <2>1, <2>3, <3>1
  <2> QED
    BY <2>2, <2>3
<1>3. Written(w) \in [1..n -> Batch] /\ DOMAIN Written(w) = 1..n
  <2>1. Written(w) = [i \in 1..n |-> Written(w)[i]]
    BY <1>1 DEF Written
  <2> QED
    BY <1>1, <1>2, <2>1
<1>4. Written(w) \in Seq(Batch) /\ Len(Written(w)) = n
  <2> DEFINE s == Written(w)
  <2>1. s \in [1..n -> Batch] /\ n \in Nat
    BY <1>1, <1>3
  <2> HIDE DEF s, n
  <2>2. s \in Seq(Batch)
    BY <2>1
  <2>3. Len(s) = n
    BY <2>1, <2>2
  <2> QED
    BY <2>2, <2>3 DEF s, n
<1> QED
  BY <1>1, <1>2, <1>3, <1>4

LEMMA IdleTyped ==
    /\ Idle.pc = "idle" /\ Idle.points = 0
    /\ DOMAIN Idle.consumed = {} /\ DOMAIN Idle.taken = {}
  BY DEF Idle

\* A worker's request in the middle has its type where its fields have.
RequestTyped(s, b) ==
    /\ s.pc \in {"idle", "checked", "redeeming", "expiring"}
    /\ s.points \in Nat
    /\ \A i \in DOMAIN s.consumed : i \in DOMAIN b /\ s.consumed[i] \in 1..b[i].points
    /\ DOMAIN s.taken = DOMAIN s.consumed
    /\ \A i \in DOMAIN s.taken : s.taken[i] \in Nat \ {0}

\* A step that changes the request of one worker only.
LEMMA RequestStep ==
    ASSUME TypeOK, NEW w \in Workers, NEW s, RequestTyped(s, batches),
           session' = [session EXCEPT ![w] = s], overtaken' \subseteq Workers,
           UNCHANGED <<now, settings, booked, accruing, batches, spent, lapsed, charged, raced>>
    PROVE  TypeOK'
<1>1. /\ DOMAIN session' = Workers /\ session'[w] = s
      /\ \A v \in Workers \ {w} : session'[v] = session[v]
  BY DEF TypeOK
<1>2. \A v \in Workers : RequestTyped(session'[v], batches)
  BY <1>1 DEF TypeOK, RequestTyped
<1> QED
  BY <1>1, <1>2 DEF TypeOK, RequestTyped

LEMMA TakenByTyped ==
    ASSUME TypeOK, NEW w \in Workers
    PROVE  \A i : TakenBy(w, i) \in Nat
BY DEF TakenBy, TypeOK

\* A commit writes what its request loaded.
LEMMA CommitTyped ==
    ASSUME TypeOK, NEW w \in Workers, WriteRows(w), spent' \in Nat, lapsed' \in Nat
    PROVE  TypeOK'
<1>1. /\ batches' \in Seq(Batch) /\ Len(batches') = Len(batches) /\ DOMAIN batches' = Rows
      /\ Rows = 1..Len(batches)
      /\ \A i \in Rows : batches'[i].points = batches[i].points
                         /\ batches'[i].consumed <= batches'[i].points
  BY WrittenTyped, RowTyped DEF RowsWritten, WriteRows
<1>2. /\ DOMAIN session' = Workers /\ session'[w] = Idle
      /\ \A v \in Workers \ {w} : session'[v] = session[v]
  BY DEF TypeOK, WriteRows
<1>3. \A v \in Workers : RequestTyped(session'[v], batches')
  <2>1. RequestTyped(Idle, batches')
    BY IdleTyped DEF RequestTyped
  <2>2. ASSUME NEW v \in Workers, v # w PROVE RequestTyped(session'[v], batches')
    <3>1. session'[v] = session[v] /\ RequestTyped(session[v], batches)
      BY <1>2, <2>2 DEF TypeOK, RequestTyped
    <3> QED
      BY <1>1, <3>1 DEF RequestTyped, Rows
  <2> QED
    BY <1>2, <2>1, <2>2
<1>4. charged' \in Seq(Nat) /\ Len(charged') = Len(batches')
  <2> DEFINE n == Len(batches)
  <2>1. \A i \in 1..n : charged[i] + TakenBy(w, i) \in Nat
    BY TakenByTyped DEF TypeOK
  <2>2. charged' = [i \in 1..n |-> charged[i] + TakenBy(w, i)] /\ n \in Nat
    BY <1>1, RowTyped DEF WriteRows
  <2> HIDE DEF n
  <2>3. charged' \in Seq(Nat) /\ Len(charged') = n
    BY <2>1, <2>2
  <2> QED
    BY <1>1, <2>3 DEF n
<1>5. overtaken' \subseteq Workers /\ raced' \in BOOLEAN
  BY DEF WriteRows, WritingBeside, TypeOK
<1> QED
  BY <1>1, <1>2, <1>3, <1>4, <1>5 DEF TypeOK, RequestTyped, WriteRows

LEMMA TypeInit == Init => TypeOK
<1> SUFFICES ASSUME Init PROVE TypeOK
  OBVIOUS
<1>1. DOMAIN session = Workers /\ \A w \in Workers : RequestTyped(session[w], batches)
  <2>1. DOMAIN session = Workers /\ \A w \in Workers : session[w] = Idle
    BY DEF Init
  <2> QED
    BY <2>1, IdleTyped DEF RequestTyped
<1>2. /\ batches \in Seq(Batch) /\ Len(batches) = 0
      /\ charged \in Seq(Nat) /\ Len(charged) = 0
  BY DEF Init
<1>3. settings \in [enabled : BOOLEAN, lifetime : Nat]
  BY LoyaltyAssumption DEF Init
<1>4. \A i \in 1..Len(batches) : batches[i].consumed <= batches[i].points
  BY <1>2
<1>5. /\ now \in Nat /\ spent \in Nat /\ lapsed \in Nat /\ raced \in BOOLEAN
      /\ accruing \subseteq booked /\ booked \subseteq Payments /\ overtaken \subseteq Workers
  BY DEF Init
<1> QED
  BY <1>1, <1>2, <1>3, <1>4, <1>5 DEF TypeOK, RequestTyped

LEMMA TypeStep == TypeOK /\ [Next]_vars => TypeOK'
<1> SUFFICES ASSUME TypeOK, [Next]_vars PROVE TypeOK'
  OBVIOUS
<1> USE DEF ledgerVars, histVars
<1>1. CASE ChangeSettings
  BY <1>1, LoyaltyAssumption DEF ChangeSettings, TypeOK
<1>2. CASE Tick
  BY <1>2 DEF Tick, TypeOK
<1>3. ASSUME NEW p \in Payments, BookPayment(p) \/ CrashAccrual(p) PROVE TypeOK'
  BY <1>3 DEF BookPayment, CrashAccrual, TypeOK
<1>4. ASSUME NEW p \in Payments, Award(p) PROVE TypeOK'
  <2>1. PICK points \in Worth :
            batches' = IF settings.enabled /\ points > 0
                       THEN Append(batches,
                               [points |-> points, consumed |-> 0,
                                expires |-> IF settings.lifetime = Forever THEN Forever
                                            ELSE now + settings.lifetime])
                       ELSE batches
    BY <1>4 DEF Award
  <2>2. CASE settings.enabled /\ points > 0
    <3> DEFINE end == IF settings.lifetime = Forever THEN Forever ELSE now + settings.lifetime
               row == [points |-> points, consumed |-> 0, expires |-> end]
    <3>1. end \in Nat /\ points \in Nat \ {0}
      BY <2>2, LoyaltyAssumption DEF TypeOK, Forever
    <3>2. row \in Batch /\ row.consumed <= row.points
      <4> HIDE DEF end
      <4> QED
        BY <3>1 DEF Batch
    <3>3. batches' = Append(batches, row) /\ batches \in Seq(Batch)
      BY <2>1, <2>2 DEF TypeOK
    <3> HIDE DEF row
    <3>4. /\ batches' \in Seq(Batch) /\ Len(batches') = Len(batches) + 1
          /\ \A i \in 1..Len(batches) : batches'[i] = batches[i]
          /\ batches'[Len(batches) + 1] = row
          /\ DOMAIN batches = 1..Len(batches) /\ DOMAIN batches' = 1..Len(batches) + 1
          /\ Len(batches) \in Nat
      BY <3>2, <3>3
    <3>5. \A i \in 1..Len(batches') : batches'[i].consumed <= batches'[i].points
      <4>1. \A i \in 1..Len(batches) : batches[i].consumed <= batches[i].points
        BY DEF TypeOK
      <4> QED
        BY <3>2, <3>4, <4>1
    <3>6. \A w \in Workers : \A i \in DOMAIN session[w].consumed :
              i \in DOMAIN batches' /\ session[w].consumed[i] \in 1..batches'[i].points
      BY <3>4 DEF TypeOK
    <3>7. charged' \in Seq(Nat) /\ Len(charged') = Len(batches')
      <4>1. charged \in Seq(Nat) /\ Len(charged) = Len(batches)
        BY DEF TypeOK
      <4>2. batches' # batches
        BY <3>4
      <4>3. charged' = Append(charged, 0)
        BY <1>4, <4>2 DEF Award
      <4> QED
        BY <3>4, <4>1, <4>3
    <3> QED
      BY <1>4, <3>4, <3>5, <3>6, <3>7 DEF Award, TypeOK
  <2>3. CASE ~(settings.enabled /\ points > 0)
    <3>1. batches' = batches /\ charged' = charged
      BY <1>4, <2>1, <2>3 DEF Award
    <3> QED
      BY <1>4, <3>1 DEF Award, TypeOK
  <2> QED
    BY <2>2, <2>3
<1>5. ASSUME NEW w \in Workers, NEW points \in 1..Earned, CheckBalance(w, points) PROVE TypeOK'
  <2> DEFINE s == [Idle EXCEPT !.pc = "checked", !.points = points]
  <2>1. RequestTyped(s, batches)
    <3>1. points \in Nat
      OBVIOUS
    <3>2. /\ s.pc = "checked" /\ s.points = points
          /\ DOMAIN s.consumed = {} /\ DOMAIN s.taken = {}
      BY DEF Idle
    <3> HIDE DEF s
    <3> QED
      BY <3>1, <3>2 DEF RequestTyped
  <2> QED
    BY <1>5, <2>1, RequestStep DEF CheckBalance, TypeOK
<1>6. ASSUME NEW w \in Workers, LoadBatches(w) PROVE TypeOK'
  <2> DEFINE points == session[w].points
             touched == {i \in Live : Taken(i, points) > 0}
             s == IF LiveTotal < points THEN Idle
                  ELSE [pc |-> "redeeming", points |-> points,
                        consumed |-> [i \in touched |-> batches[i].consumed + Taken(i, points)],
                        taken |-> [i \in touched |-> Taken(i, points)]]
  <2>1. points \in Nat
    BY DEF TypeOK
  <2>2. RequestTyped(s, batches)
    <3>1. CASE LiveTotal < points
      BY <3>1, IdleTyped DEF RequestTyped
    <3>2. CASE ~(LiveTotal < points)
      <4>1. /\ s.pc = "redeeming" /\ s.points = points /\ DOMAIN s.consumed = touched
            /\ \A i \in touched : s.consumed[i] = batches[i].consumed + Taken(i, points)
            /\ DOMAIN s.taken = touched /\ \A i \in touched : s.taken[i] = Taken(i, points)
        BY <3>2
      <4>2. ASSUME NEW i \in touched
            PROVE  /\ i \in DOMAIN batches
                   /\ batches[i].consumed + Taken(i, points) \in 1..batches[i].points
                   /\ Taken(i, points) \in Nat \ {0}
        <5>1. i \in Rows /\ Taken(i, points) > 0
          BY DEF Live
        <5>2. /\ Taken(i, points) \in Nat /\ Taken(i, points) <= Free(batches[i])
              /\ batches[i].consumed \in Nat /\ batches[i].points \in Nat
          BY <2>1, <5>1, TakenFacts, RowTyped
        <5> HIDE DEF points
        <5> QED
          BY <5>1, <5>2 DEF Rows, Free
      <4> HIDE DEF s, touched
      <4> QED
        BY <2>1, <4>1, <4>2 DEF RequestTyped
    <3> QED
      BY <3>1, <3>2
  <2>3. session' = [session EXCEPT ![w] = s]
    BY <1>6 DEF LoadBatches
  <2> HIDE DEF s
  <2> QED
    BY <1>6, <2>2, <2>3, RequestStep DEF LoadBatches, TypeOK
<1>7. ASSUME NEW w \in Workers, LoadStale(w) PROVE TypeOK'
  <2> DEFINE s == [pc |-> "expiring", points |-> SumTo(LapsingFree, Len(batches)),
                   consumed |-> [i \in Lapsing |-> batches[i].points],
                   taken |-> [i \in Lapsing |-> Free(batches[i])]]
  <2>1. SumTo(LapsingFree, Len(batches)) \in Nat
    <3>1. Len(batches) \in Nat /\ \A i \in 1..Len(batches) : LapsingFree[i] \in Nat
      BY RowTyped DEF LapsingFree
    <3>2. Len(batches) \in 0..Len(batches)
      BY <3>1
    <3> QED
      BY <3>1, <3>2, SumType
  <2>2. RequestTyped(s, batches)
    <3>1. /\ s.pc = "expiring" /\ s.points \in Nat /\ DOMAIN s.consumed = Lapsing
          /\ \A i \in Lapsing : s.consumed[i] = batches[i].points
          /\ DOMAIN s.taken = Lapsing /\ \A i \in Lapsing : s.taken[i] = Free(batches[i])
      BY <2>1
    <3>2. \A i \in Lapsing : /\ i \in DOMAIN batches /\ batches[i].points \in 1..batches[i].points
                            /\ Free(batches[i]) \in Nat \ {0}
      <4>1. \A i \in Lapsing : i \in Rows /\ Free(batches[i]) > 0
        BY DEF Lapsing
      <4> QED
        BY <4>1, RowTyped DEF Rows
    <3> HIDE DEF s
    <3> QED
      BY <3>1, <3>2 DEF RequestTyped
  <2>3. session' = [session EXCEPT ![w] = s] /\ overtaken' = overtaken
    BY <1>7 DEF LoadStale
  <2> HIDE DEF s
  <2> QED
    BY <1>7, <2>2, <2>3, RequestStep DEF LoadStale, TypeOK
<1>8. ASSUME NEW w \in Workers, CommitRedemption(w) PROVE TypeOK'
  <2>1. spent' \in Nat /\ lapsed' \in Nat
    BY <1>8 DEF CommitRedemption, TypeOK
  <2> QED
    BY <1>8, <2>1, CommitTyped DEF CommitRedemption
<1>9. ASSUME NEW w \in Workers, CommitExpiry(w) PROVE TypeOK'
  <2>1. spent' \in Nat /\ lapsed' \in Nat
    BY <1>9 DEF CommitExpiry, TypeOK
  <2> QED
    BY <1>9, <2>1, CommitTyped DEF CommitExpiry
<1>10. ASSUME NEW w \in Workers, CrashWorker(w) PROVE TypeOK'
  <2>1. RequestTyped(Idle, batches)
    BY IdleTyped DEF RequestTyped
  <2> QED
    BY <1>10, <2>1, RequestStep DEF CrashWorker, TypeOK
<1>11. CASE UNCHANGED vars
  BY <1>11 DEF vars, TypeOK
<1> QED
  BY <1>1, <1>2, <1>3, <1>4, <1>5, <1>6, <1>7, <1>8, <1>9, <1>10, <1>11 DEF Next

\* The ledger, its batches and the requests in flight keep their types, however many
\* workers redeem and write off at once: no batch is ever spent beyond its points.
THEOREM LoyaltyTypeCorrect == Spec => []TypeOK
  BY TypeInit, TypeStep, PTL DEF Spec

-----------------------------------------------------------------------------
(*                     What a step does to the rows                        *)

\* A worker that has loaded rows and is about to write them.
Committing(w) == session[w].pc \in {"redeeming", "expiring"}

\* The clock, settings and accruals move, a request begins or dies: no row changes.
Quiet ==
    /\ UNCHANGED <<ledgerVars, charged, raced>>
    /\ now' \in {now, now + 1}
    /\ \A w \in Workers :
          Committing(w)' => /\ Committing(w) /\ session'[w] = session[w]
                            /\ w \in overtaken => w \in overtaken'

Appended(row) ==
    /\ row \in Batch /\ row.consumed = 0
    /\ batches' = Append(batches, row) /\ charged' = Append(charged, 0)
    /\ UNCHANGED <<now, spent, lapsed, session, overtaken, raced>>

Loaded(w) ==
    /\ UNCHANGED <<now, ledgerVars, histVars>>
    /\ Committing(w)' /\ \A v \in Workers \ {w} : session'[v] = session[v]

Committed(w) ==
    /\ Committing(w) /\ WriteRows(w)
    /\ spent' + lapsed' = spent + lapsed + session[w].points
    /\ ~Committing(w)' /\ \A v \in Workers \ {w} : session'[v] = session[v]

LEMMA StepKinds ==
    ASSUME TypeOK, [Next]_vars
    PROVE  \/ Quiet
           \/ \E row : Appended(row)
           \/ \E w \in Workers : (LoadBatches(w) \/ LoadStale(w)) /\ Loaded(w)
           \/ \E w \in Workers : Committed(w)
<1> USE DEF ledgerVars, histVars
<1>s. ASSUME NEW w \in Workers, NEW s, session' = [session EXCEPT ![w] = s]
      PROVE  session'[w] = s /\ \A v \in Workers \ {w} : session'[v] = session[v]
  BY <1>s DEF TypeOK
<1>1. CASE ChangeSettings \/ Tick \/ UNCHANGED vars
  BY <1>1 DEF ChangeSettings, Tick, vars, Quiet, Committing
<1>2. ASSUME NEW p \in Payments, BookPayment(p) \/ CrashAccrual(p) PROVE Quiet
  BY <1>2 DEF BookPayment, CrashAccrual, Quiet, Committing
<1>3. ASSUME NEW p \in Payments, Award(p) PROVE Quiet \/ \E row : Appended(row)
  <2> DEFINE end == IF settings.lifetime = Forever THEN Forever ELSE now + settings.lifetime
             row(points) == [points |-> points, consumed |-> 0, expires |-> end]
  <2>1. PICK points \in Worth :
            batches' = IF settings.enabled /\ points > 0 THEN Append(batches, row(points)) ELSE batches
    BY <1>3 DEF Award
  <2>2. /\ UNCHANGED <<now, spent, lapsed, session, overtaken, raced>>
        /\ charged' = IF batches' = batches THEN charged ELSE Append(charged, 0)
    BY <1>3 DEF Award
  <2>3. CASE settings.enabled /\ points > 0
    <3>1. end \in Nat /\ points \in Nat \ {0}
      BY <2>3, LoyaltyAssumption DEF TypeOK, Forever
    <3> HIDE DEF end
    <3>2. row(points) \in Batch /\ row(points).consumed = 0
      BY <3>1 DEF Batch
    <3> HIDE DEF row
    <3>3. batches' = Append(batches, row(points)) /\ batches \in Seq(Batch)
      BY <2>1, <2>3 DEF TypeOK
    <3>4. batches' # batches
      <4>1. Len(batches') = Len(batches) + 1 /\ Len(batches) \in Nat
        BY <3>3
      <4> QED
        BY <4>1
    <3>5. Appended(row(points))
      BY <2>2, <3>2, <3>3, <3>4 DEF Appended
    <3> QED
      BY <3>5
  <2>4. CASE ~(settings.enabled /\ points > 0)
    BY <2>1, <2>2, <2>4 DEF Quiet, Committing
  <2> QED
    BY <2>3, <2>4
<1>4. ASSUME NEW w \in Workers, NEW points \in 1..Earned, CheckBalance(w, points) PROVE Quiet
  <2> DEFINE s == [Idle EXCEPT !.pc = "checked", !.points = points]
  <2>1. s.pc = "checked"
    BY DEF Idle
  <2>2. session' = [session EXCEPT ![w] = s] /\ UNCHANGED <<now, ledgerVars, histVars>>
    BY <1>4 DEF CheckBalance
  <2> HIDE DEF s
  <2> QED
    BY <1>s, <2>1, <2>2 DEF Quiet, Committing
<1>5. ASSUME NEW w \in Workers, LoadBatches(w) PROVE Quiet \/ Loaded(w)
  <2> DEFINE points == session[w].points
             touched == {i \in Live : Taken(i, points) > 0}
             loaded == [pc |-> "redeeming", points |-> points,
                        consumed |-> [i \in touched |-> batches[i].consumed + Taken(i, points)],
                        taken |-> [i \in touched |-> Taken(i, points)]]
  <2>1. /\ UNCHANGED <<now, ledgerVars, histVars>>
        /\ session' = [session EXCEPT ![w] = IF LiveTotal < points THEN Idle ELSE loaded]
    BY <1>5 DEF LoadBatches
  <2>2. loaded.pc = "redeeming"
    OBVIOUS
  <2> HIDE DEF loaded, points
  <2>3. CASE LiveTotal < points
    BY <1>s, <2>1, <2>3, IdleTyped DEF Quiet, Committing
  <2>4. CASE ~(LiveTotal < points)
    BY <1>s, <2>1, <2>2, <2>4 DEF Loaded, Committing
  <2> QED
    BY <2>3, <2>4
<1>6. ASSUME NEW w \in Workers, LoadStale(w) PROVE Loaded(w)
  <2> DEFINE s == [pc |-> "expiring", points |-> SumTo(LapsingFree, Len(batches)),
                   consumed |-> [i \in Lapsing |-> batches[i].points],
                   taken |-> [i \in Lapsing |-> Free(batches[i])]]
  <2>1. session' = [session EXCEPT ![w] = s] /\ UNCHANGED <<now, ledgerVars, histVars>>
    BY <1>6 DEF LoadStale
  <2>2. s.pc = "expiring"
    OBVIOUS
  <2> HIDE DEF s
  <2> QED
    BY <1>s, <2>1, <2>2 DEF Loaded, Committing
<1>7. ASSUME NEW w \in Workers, CommitRedemption(w) \/ CommitExpiry(w) PROVE Committed(w)
  <2>1. /\ session' = [session EXCEPT ![w] = Idle] /\ WriteRows(w) /\ Committing(w)
        /\ \/ spent' = spent + session[w].points /\ lapsed' = lapsed
           \/ lapsed' = lapsed + session[w].points /\ spent' = spent
    BY <1>7 DEF CommitRedemption, CommitExpiry, Committing, WriteRows
  <2>2. spent \in Nat /\ lapsed \in Nat /\ session[w].points \in Nat
    BY DEF TypeOK
  <2>3. spent' + lapsed' = spent + lapsed + session[w].points
    BY <2>1, <2>2
  <2>4. ~Committing(w)' /\ \A v \in Workers \ {w} : session'[v] = session[v]
    BY <1>s, <2>1, IdleTyped DEF Committing
  <2> QED
    BY <2>1, <2>3, <2>4 DEF Committed
<1>8. ASSUME NEW w \in Workers, CrashWorker(w) PROVE Quiet
  <2>1. /\ session' = [session EXCEPT ![w] = Idle] /\ overtaken' = overtaken \ {w}
        /\ UNCHANGED <<now, ledgerVars, charged, raced>>
    BY <1>8 DEF CrashWorker
  <2> QED
    BY <1>s, <2>1, IdleTyped DEF Quiet, Committing
<1> QED
  BY <1>1, <1>2, <1>3, <1>4, <1>5, <1>6, <1>7, <1>8 DEF Next

\* What a request takes of each row, and whether the rows still hold what it loaded.
Take(w) == [i \in Rows |-> TakenBy(w, i)]

Current(w) ==
    \A i \in DOMAIN session[w].consumed :
        session[w].consumed[i] = batches[i].consumed + session[w].taken[i]

\* A redemption loads the rows as they are, and takes all that it asked for.
LEMMA LoadedToRedeem ==
    ASSUME TypeOK, TypeOK', NEW w \in Workers, LoadBatches(w), Loaded(w)
    PROVE  /\ Current(w)' /\ \A i \in Rows : Take(w)'[i] = Taken(i, session[w].points)
           /\ session'[w].points = session[w].points /\ LiveTotal >= session[w].points
<1> DEFINE points == session[w].points
           touched == {i \in Live : Taken(i, points) > 0}
           loaded == [pc |-> "redeeming", points |-> points,
                      consumed |-> [i \in touched |-> batches[i].consumed + Taken(i, points)],
                      taken |-> [i \in touched |-> Taken(i, points)]]
<1>1. points \in Nat /\ LiveTotal \in Nat
  BY TakenFacts DEF TypeOK
<1>2. session'[w] = IF LiveTotal < points THEN Idle ELSE loaded
  BY DEF LoadBatches, TypeOK
<1>3. ~(LiveTotal < points)
  BY <1>2, IdleTyped DEF Loaded, Committing
<1>4. /\ session'[w].points = points
      /\ DOMAIN session'[w].consumed = touched /\ DOMAIN session'[w].taken = touched
      /\ \A i \in touched : /\ session'[w].consumed[i] = batches[i].consumed + Taken(i, points)
                            /\ session'[w].taken[i] = Taken(i, points)
  BY <1>2, <1>3
<1>5. batches' = batches /\ Rows' = Rows
  BY DEF Loaded, ledgerVars, Rows
<1>6. Current(w)'
  BY <1>4, <1>5 DEF Current
<1>7. ASSUME NEW i \in Rows PROVE Take(w)'[i] = Taken(i, points)
  <2>1. Taken(i, points) \in Nat /\ (i \notin Live => Taken(i, points) = 0)
    BY <1>1, TakenFacts
  <2>2. Take(w)'[i] = IF i \in touched THEN session'[w].taken[i] ELSE 0
    BY <1>4, <1>5 DEF Take, TakenBy
  <2> HIDE DEF points
  <2> QED
    BY <1>4, <2>1, <2>2
<1> QED
  BY <1>1, <1>3, <1>4, <1>6, <1>7

\* A write-off takes what is left of the rows that have lapsed.
LEMMA LoadedToExpire ==
    ASSUME TypeOK, TypeOK', NEW w \in Workers, LoadStale(w)
    PROVE  /\ Current(w)' /\ \A i \in Rows : Take(w)'[i] = LapsingFree[i]
           /\ session'[w].points = SumTo(LapsingFree, Len(batches))
<1> DEFINE s == [pc |-> "expiring", points |-> SumTo(LapsingFree, Len(batches)),
                 consumed |-> [i \in Lapsing |-> batches[i].points],
                 taken |-> [i \in Lapsing |-> Free(batches[i])]]
<1>1. session'[w] = s
  BY DEF LoadStale, TypeOK
<1>2. /\ session'[w].points = SumTo(LapsingFree, Len(batches))
      /\ DOMAIN session'[w].consumed = Lapsing /\ DOMAIN session'[w].taken = Lapsing
      /\ \A i \in Lapsing : /\ session'[w].consumed[i] = batches[i].points
                            /\ session'[w].taken[i] = Free(batches[i])
  BY <1>1
<1>3. Rows' = Rows /\ batches' = batches
  BY DEF LoadStale, ledgerVars, Rows
<1>4. Current(w)'
  <2>1. \A i \in Lapsing : batches[i].points = batches[i].consumed + Free(batches[i])
    <3>1. \A i \in Lapsing : i \in Rows
      BY DEF Lapsing
    <3> QED
      BY <3>1, RowTyped DEF Free
  <2> QED
    BY <1>2, <1>3, <2>1 DEF Current
<1>5. \A i \in Rows : Take(w)'[i] = LapsingFree[i]
  BY <1>2, <1>3 DEF Take, TakenBy, LapsingFree
<1> QED
  BY <1>2, <1>4, <1>5

\* While the rows hold what a request loaded, it writes what they hold and what it takes.
WritesWhatItTakes ==
    \A w \in Workers :
        Current(w) => \A i \in Rows : Written(w)[i].consumed = batches[i].consumed + Take(w)[i]

LEMMA CurrentWrites == TypeOK => WritesWhatItTakes
<1> SUFFICES ASSUME TypeOK, NEW w \in Workers, Current(w), NEW i \in Rows
             PROVE  Written(w)[i].consumed = batches[i].consumed + Take(w)[i]
  BY DEF WritesWhatItTakes
<1>1. /\ batches[i].consumed \in Nat /\ DOMAIN session[w].taken = DOMAIN session[w].consumed
      /\ Written(w)[i].consumed = IF i \in DOMAIN session[w].consumed
                                  THEN session[w].consumed[i] ELSE batches[i].consumed
  BY RowTyped, WrittenTyped DEF TypeOK, RowsWritten
<1>2. Take(w)[i] = IF i \in DOMAIN session[w].consumed THEN session[w].taken[i] ELSE 0
  BY <1>1 DEF Take, TakenBy
<1> QED
  BY <1>1, <1>2 DEF Current

\* A request is written alike as long as it and the rows stay.
LEMMA WrittenSame ==
    ASSUME NEW w \in Workers, batches' = batches, session'[w] = session[w]
    PROVE  Written(w)' = Written(w)
  BY DEF Written, Rows

\* A row awarded meanwhile is none of those a request has loaded.
LEMMA WrittenAppended ==
    ASSUME TypeOK, TypeOK', NEW w \in Workers, NEW row, Appended(row)
    PROVE  Written(w)' = Append(Written(w), row)
<1> DEFINE n == Len(batches)
<1>1. n \in Nat /\ Rows = 1..n /\ batches \in Seq(Batch)
  BY RowTyped DEF TypeOK
<1>2. Len(batches') = n + 1 /\ Rows' = 1..n + 1
  BY <1>1 DEF Appended, Rows
<1>3. batches'[n + 1] = row /\ \A i \in 1..n : batches'[i] = batches[i]
  BY <1>1 DEF Appended
<1>4. session' = session /\ \A i \in DOMAIN session[w].consumed : i \in 1..n
  BY <1>1 DEF TypeOK, Appended, Rows
<1>5. /\ Written(w)' \in Seq(Batch) /\ Len(Written(w)') = n + 1
      /\ Written(w) \in Seq(Batch) /\ Len(Written(w)) = n
  <2>1. TypeOK' => RowsWritten'
    BY WrittenTyped, PTL
  <2> QED
    BY <1>2, <2>1, WrittenTyped DEF RowsWritten
<1>6. \A i \in 1..n : Written(w)'[i] = Written(w)[i]
  BY <1>1, <1>2, <1>3, <1>4 DEF Written
<1>7. Written(w)'[n + 1] = row
  <2>1. n + 1 \notin DOMAIN session'[w].consumed /\ n + 1 \in Rows'
    BY <1>1, <1>2, <1>4
  <2> QED
    BY <1>3, <2>1 DEF Written
<1> QED
  <2> DEFINE s == Written(w)
             t == Written(w)'
  <2>1. /\ s \in Seq(Batch) /\ t \in Seq(Batch) /\ Len(t) = Len(s) + 1 /\ row \in Batch
        /\ \A i \in 1..Len(s) : t[i] = s[i]
        /\ t[Len(s) + 1] = row
    BY <1>5, <1>6, <1>7 DEF Appended
  <2> HIDE DEF s, t
  <2>2. t = Append(s, row)
    BY <2>1, SeqEqual
  <2> QED
    BY <2>2 DEF s, t

-----------------------------------------------------------------------------
(*                        The balance is backed                            *)

\* What the ledger says was taken is what was taken of the rows, one by one.  A row
\* holds no more, and as long as no request wrote over another's points, no less.
LedgerAgrees ==
    /\ SumTo(charged, Len(batches)) = spent + lapsed
    /\ \A i \in Rows : /\ batches[i].consumed <= charged[i]
                       /\ ~raced => batches[i].consumed = charged[i]
    /\ \A w \in Workers :
          Committing(w) =>
              /\ SumTo(Take(w), Len(batches)) = session[w].points
              /\ \A i \in DOMAIN session[w].consumed :
                     session[w].consumed[i] <= charged[i] + session[w].taken[i]
              /\ w \notin overtaken => Current(w)

LedgerInv == TypeOK /\ LedgerAgrees

LEMMA ChargedTyped ==
    ASSUME TypeOK
    PROVE  /\ charged \in Seq(Nat) /\ Len(charged) = Len(batches) /\ DOMAIN charged = Rows
           /\ \A i \in Rows : charged[i] \in Nat
<1>1. charged \in Seq(Nat) /\ Len(charged) = Len(batches)
  BY DEF TypeOK
<1> QED
  BY <1>1, RowTyped

LEMMA LedgerImplies == LedgerInv => BalanceIsBacked
<1> SUFFICES ASSUME LedgerInv PROVE BalanceIsBacked
  OBVIOUS
<1> DEFINE n == Len(batches)
           points == [i \in Rows |-> batches[i].points]
           free == [i \in Rows |-> Free(batches[i])]
           used == [i \in Rows |-> batches[i].consumed]
           lost == [i \in Rows |-> charged[i] - batches[i].consumed]
<1>1. n \in Nat /\ Rows = 1..n
  BY RowTyped DEF LedgerInv
<1>2. \A i \in 1..n : /\ used[i] \in Nat /\ free[i] \in Nat /\ lost[i] \in Nat /\ charged[i] \in Nat
                      /\ points[i] = used[i] + free[i] /\ charged[i] = used[i] + lost[i]
                      /\ ~raced => charged[i] = used[i]
  <2> SUFFICES ASSUME NEW i \in Rows
               PROVE  /\ used[i] \in Nat /\ free[i] \in Nat /\ lost[i] \in Nat /\ charged[i] \in Nat
                      /\ points[i] = used[i] + free[i] /\ charged[i] = used[i] + lost[i]
                      /\ ~raced => charged[i] = used[i]
    BY <1>1
  <2>1. /\ batches[i].consumed \in Nat /\ batches[i].points \in Nat
        /\ Free(batches[i]) \in Nat /\ charged[i] \in Nat
    BY RowTyped, ChargedTyped DEF LedgerInv
  <2>2. batches[i].consumed <= charged[i] /\ (~raced => batches[i].consumed = charged[i])
    BY DEF LedgerInv, LedgerAgrees
  <2> QED
    BY <2>1, <2>2 DEF Free
<1> HIDE DEF n, points, free, used, lost
<1>3. /\ SumTo(points, n) = SumTo(used, n) + SumTo(free, n)
      /\ SumTo(used, n) \in Nat /\ SumTo(free, n) \in Nat
  <2>1. \A i \in 1..n : used[i] \in Nat /\ free[i] \in Nat /\ points[i] = used[i] + free[i]
    BY <1>2
  <2> QED
    BY <1>1, <2>1, SumOfTwo, SMTT(30)
<1>4. /\ SumTo(charged, n) = SumTo(used, n) + SumTo(lost, n)
      /\ SumTo(used, n) \in Nat /\ SumTo(lost, n) \in Nat
  <2> DEFINE all == charged
  <2>1. \A i \in 1..n : used[i] \in Nat /\ lost[i] \in Nat /\ all[i] = used[i] + lost[i]
    BY <1>2
  <2> HIDE DEF all
  <2>2. /\ SumTo(all, n) = SumTo(used, n) + SumTo(lost, n)
        /\ SumTo(used, n) \in Nat /\ SumTo(lost, n) \in Nat
    BY <1>1, <2>1, SumOfTwo, SMTT(30)
  <2> QED
    BY <2>2 DEF all
<1>5. SumTo(free, n) \in Nat
  BY <1>3
<1>6. ~raced => SumTo(charged, n) = SumTo(used, n)
  BY <1>1, <1>2, SumSame
<1>7. SumTo(charged, n) = spent + lapsed
  BY DEF LedgerInv, LedgerAgrees, n
<1>8. Earned = SumTo(points, n) /\ Unspent = SumTo(free, n)
  BY DEF Earned, Unspent, points, free, n
<1> QED
  BY <1>3, <1>4, <1>5, <1>6, <1>7, <1>8 DEF BalanceIsBacked

LEMMA LedgerInit == Init => LedgerInv
<1> SUFFICES ASSUME Init PROVE LedgerInv
  OBVIOUS
<1>1. TypeOK
  BY TypeInit
<1>2. \A w \in Workers : ~Committing(w)
  BY IdleTyped DEF Init, Committing
<1>3. SumTo(charged, Len(batches)) = 0 /\ spent + lapsed = 0 /\ Rows = {}
  BY SumStep DEF Init, Rows
<1> QED
  BY <1>1, <1>2, <1>3 DEF LedgerInv, LedgerAgrees

\* An accrual leaves the older rows, and what is being taken of them, alone.
LEMMA LedgerAppend ==
    ASSUME LedgerInv, TypeOK', NEW row, Appended(row)
    PROVE  LedgerInv'
<1> DEFINE n == Len(batches)
<1>1. /\ n \in Nat /\ Rows = 1..n /\ batches \in Seq(Batch)
      /\ charged \in Seq(Nat) /\ Len(charged) = n
  BY RowTyped, ChargedTyped DEF LedgerInv, TypeOK
<1>2. /\ Len(batches') = n + 1 /\ Rows' = 1..n + 1
      /\ batches'[n + 1] = row /\ \A i \in 1..n : batches'[i] = batches[i]
  BY <1>1 DEF Appended, Rows
<1>3. charged'[n + 1] = 0 /\ \A i \in 1..n : charged'[i] = charged[i]
  BY <1>1 DEF Appended
<1>4. SumTo(charged', n + 1) = spent + lapsed
  <2>1. SumTo(charged', n + 1) = SumTo(charged', n) + charged'[n + 1]
    BY <1>1, SumStep
  <2>2. SumTo(charged', n) = SumTo(charged, n)
    BY <1>1, <1>3, SumSame
  <2>3. SumTo(charged, n) = spent + lapsed /\ spent \in Nat /\ lapsed \in Nat
    BY DEF LedgerInv, LedgerAgrees, TypeOK
  <2> QED
    BY <1>3, <2>1, <2>2, <2>3
<1>5. \A i \in Rows' : /\ batches'[i].consumed <= charged'[i]
                       /\ ~raced' => batches'[i].consumed = charged'[i]
  <2>1. CASE n = 0
    BY <1>2, <1>3, <2>1 DEF Appended
  <2> QED
    BY <1>1, <1>2, <1>3 DEF LedgerInv, LedgerAgrees, Appended
<1>6. ASSUME NEW w \in Workers, Committing(w)'
      PROVE  /\ SumTo(Take(w)', n + 1) = session'[w].points
             /\ \A i \in DOMAIN session'[w].consumed :
                    session'[w].consumed[i] <= charged'[i] + session'[w].taken[i]
             /\ w \notin overtaken' => Current(w)'
  <2>1. /\ Committing(w) /\ session' = session /\ overtaken' = overtaken
        /\ \A i \in DOMAIN session[w].consumed : i \in 1..n
        /\ DOMAIN session[w].taken = DOMAIN session[w].consumed
    BY <1>1, <1>6 DEF Appended, Committing, LedgerInv, TypeOK, Rows
  <2>2. Take(w)'[n + 1] = 0 /\ \A i \in 1..n : Take(w)'[i] = Take(w)[i]
    <3>1. n + 1 \notin DOMAIN session[w].consumed /\ n + 1 \in Rows'
      BY <1>1, <1>2, <2>1
    <3>2. \A i \in 1..n : i \in Rows /\ i \in Rows'
      BY <1>1, <1>2
    <3> QED
      BY <2>1, <3>1, <3>2 DEF Take, TakenBy
  <2>3. SumTo(Take(w)', n + 1) = SumTo(Take(w)', n) + Take(w)'[n + 1]
    BY <1>1, SumStep
  <2>4. SumTo(Take(w)', n) = SumTo(Take(w), n)
    BY <1>1, <2>2, SumSame
  <2>5. SumTo(Take(w), n) = session[w].points /\ session[w].points \in Nat
    BY <2>1 DEF LedgerInv, LedgerAgrees, TypeOK
  <2> QED
    BY <1>2, <1>3, <2>1, <2>2, <2>3, <2>4, <2>5 DEF LedgerInv, LedgerAgrees, Current
<1> QED
  BY <1>2, <1>4, <1>5, <1>6 DEF LedgerInv, LedgerAgrees, Appended

\* A request that loads rows is about to take what it books.
LEMMA LedgerLoad ==
    ASSUME LedgerInv, TypeOK', NEW w \in Workers, LoadBatches(w) \/ LoadStale(w), Loaded(w)
    PROVE  LedgerInv' /\ Current(w)'
<1>t. TypeOK /\ Len(batches) \in Nat /\ Rows = 1..Len(batches)
  BY RowTyped DEF LedgerInv
<1>u. UNCHANGED <<now, batches, spent, lapsed, charged, overtaken, raced>> /\ Rows' = Rows
  BY DEF Loaded, ledgerVars, histVars, Rows
<1>1. Current(w)' /\ SumTo(Take(w)', Len(batches)) = session'[w].points
  <2>1. CASE LoadBatches(w)
    <3> DEFINE points == session[w].points
               take == [i \in Rows |-> Taken(i, points)]
    <3>1. points \in Nat
      BY <1>t DEF TypeOK
    <3>2. /\ Current(w)' /\ \A i \in Rows : Take(w)'[i] = take[i]
          /\ session'[w].points = points /\ LiveTotal >= points
      BY <1>t, <2>1, LoadedToRedeem
    <3>3. SumTo(take, Len(batches)) = Smaller(LiveTotal, points) /\ LiveTotal \in Nat
      BY <1>t, <3>1, TakenFacts
    <3> HIDE DEF take, points
    <3>4. SumTo(Take(w)', Len(batches)) = SumTo(take, Len(batches))
      BY <1>t, <3>2, SumSame
    <3> QED
      BY <3>1, <3>2, <3>3, <3>4 DEF Smaller
  <2>2. CASE LoadStale(w)
    <3>1. /\ Current(w)' /\ \A i \in Rows : Take(w)'[i] = LapsingFree[i]
          /\ session'[w].points = SumTo(LapsingFree, Len(batches))
      BY <1>t, <2>2, LoadedToExpire
    <3>2. SumTo(Take(w)', Len(batches)) = SumTo(LapsingFree, Len(batches))
      BY <1>t, <3>1, SumSame
    <3> QED
      BY <3>1, <3>2
  <2> QED
    BY <2>1, <2>2
<1>2. \A i \in DOMAIN session'[w].consumed :
          session'[w].consumed[i] <= charged'[i] + session'[w].taken[i]
  <2> SUFFICES ASSUME NEW i \in DOMAIN session'[w].consumed
               PROVE  session'[w].consumed[i] <= charged[i] + session'[w].taken[i]
    BY <1>u
  <2>1. i \in Rows /\ session'[w].taken[i] \in Nat
    BY <1>u DEF TypeOK, Rows
  <2>2. session'[w].consumed[i] = batches[i].consumed + session'[w].taken[i]
    BY <1>1, <1>u DEF Current
  <2>3. batches[i].consumed <= charged[i] /\ batches[i].consumed \in Nat /\ charged[i] \in Nat
    BY <1>t, <2>1, RowTyped, ChargedTyped DEF LedgerInv, LedgerAgrees
  <2> QED
    BY <2>1, <2>2, <2>3
<1>3. ASSUME NEW v \in Workers \ {w}, Committing(v)'
      PROVE  /\ Committing(v) /\ session'[v] = session[v]
             /\ Take(v)' = Take(v) /\ (Current(v) => Current(v)')
  <2>1. Committing(v) /\ session'[v] = session[v]
    BY <1>3 DEF Loaded, Committing
  <2> QED
    BY <1>u, <2>1 DEF Take, TakenBy, Current
<1> QED
  BY <1>t, <1>u, <1>1, <1>2, <1>3 DEF LedgerInv, LedgerAgrees

\* A commit takes from each row what it books.  Only the rows that it writes change,
\* and whoever is about to write one of them has been overtaken.
LEMMA LedgerCommit ==
    ASSUME LedgerInv, TypeOK', NEW w \in Workers, Committed(w)
    PROVE  LedgerInv'
<1> DEFINE n == Len(batches)
<1>t. TypeOK /\ n \in Nat /\ Rows = 1..n
  BY RowTyped DEF LedgerInv
<1>u. Len(batches') = n /\ Rows' = Rows /\ batches' = Written(w)
  BY <1>t, WrittenTyped DEF Committed, WriteRows, RowsWritten, Rows
<1>1. \A i \in Rows : /\ charged'[i] = charged[i] + Take(w)[i]
                      /\ Take(w)[i] = TakenBy(w, i) /\ Take(w)[i] \in Nat /\ charged[i] \in Nat
  BY <1>t, TakenByTyped, ChargedTyped DEF Committed, WriteRows, Take
<1>2. SumTo(charged', n) = spent' + lapsed'
  <2> DEFINE take == Take(w)
             after == charged'
  <2>1. \A i \in 1..n : charged[i] \in Nat /\ take[i] \in Nat /\ after[i] = charged[i] + take[i]
    BY <1>t, <1>1
  <2> HIDE DEF take, after
  <2>2. SumTo(after, n) = SumTo(charged, n) + SumTo(take, n)
    BY <1>t, <2>1, SumOfTwo
  <2> QED
    BY <2>2 DEF Committed, LedgerInv, LedgerAgrees, take, after
<1>3. ASSUME NEW i \in Rows
      PROVE  /\ batches'[i].consumed <= charged'[i]
             /\ ~raced' => batches'[i].consumed = charged'[i]
  <2>1. /\ batches'[i].consumed = IF i \in DOMAIN session[w].consumed
                                  THEN session[w].consumed[i] ELSE batches[i].consumed
        /\ batches[i].consumed \in Nat /\ charged[i] \in Nat
    BY <1>t, <1>u, <1>1, WrittenTyped, RowTyped DEF RowsWritten
  <2>2. batches[i].consumed <= charged[i] /\ (~raced => batches[i].consumed = charged[i])
    BY DEF LedgerInv, LedgerAgrees
  <2>3. charged'[i] = charged[i] + IF i \in DOMAIN session[w].consumed
                                   THEN session[w].taken[i] ELSE 0
    BY <1>t, <1>1 DEF TakenBy, TypeOK
  <2>4. CASE i \in DOMAIN session[w].consumed
    <3>1. session[w].consumed[i] <= charged[i] + session[w].taken[i]
      BY <2>4 DEF LedgerInv, LedgerAgrees, Committed
    <3>2. ASSUME ~raced' PROVE batches'[i].consumed = charged'[i]
      <4>1. ~raced /\ Current(w)
        BY <3>2 DEF Committed, WriteRows, LedgerInv, LedgerAgrees
      <4> QED
        BY <2>1, <2>2, <2>3, <2>4, <4>1 DEF Current
    <3> QED
      BY <2>1, <2>3, <2>4, <3>1, <3>2
  <2>5. CASE i \notin DOMAIN session[w].consumed
    <3>1. raced' = (raced \/ w \in overtaken)
      BY DEF Committed, WriteRows
    <3>2. batches'[i].consumed = batches[i].consumed /\ charged'[i] = charged[i]
      BY <2>1, <2>3, <2>5
    <3> QED
      BY <2>2, <3>1, <3>2
  <2> QED
    BY <2>4, <2>5
<1>4. ASSUME NEW v \in Workers, Committing(v)'
      PROVE  /\ SumTo(Take(v)', n) = session'[v].points
             /\ \A i \in DOMAIN session'[v].consumed :
                    session'[v].consumed[i] <= charged'[i] + session'[v].taken[i]
             /\ v \notin overtaken' => Current(v)'
  <2>1. v # w /\ session'[v] = session[v] /\ Committing(v)
    BY <1>4 DEF Committed, Committing
  <2>2. Take(v)' = Take(v)
    BY <1>u, <2>1 DEF Take, TakenBy
  <2>3. ASSUME NEW i \in DOMAIN session[v].consumed
        PROVE  session[v].consumed[i] <= charged'[i] + session[v].taken[i]
    <3>1. i \in Rows /\ session[v].taken[i] \in Nat /\ session[v].consumed[i] \in Nat
      BY <1>t DEF TypeOK, Rows
    <3>2. session[v].consumed[i] <= charged[i] + session[v].taken[i]
      BY <2>1 DEF LedgerInv, LedgerAgrees
    <3>3. charged'[i] = charged[i] + Take(w)[i] /\ charged[i] \in Nat /\ Take(w)[i] \in Nat
      BY <1>1, <3>1
    <3> QED
      BY <3>1, <3>2, <3>3
  <2>4. ASSUME v \notin overtaken' PROVE Current(v)'
    <3>1. v \notin overtaken /\ DOMAIN session[v].consumed \cap DOMAIN session[w].consumed = {}
      BY <2>1, <2>4 DEF Committed, WriteRows, WritingBeside
    <3>2. Current(v)
      BY <2>1, <3>1 DEF LedgerInv, LedgerAgrees
    <3>3. ASSUME NEW i \in DOMAIN session[v].consumed
          PROVE  batches'[i].consumed = batches[i].consumed
      <4>1. i \in Rows /\ i \notin DOMAIN session[w].consumed
        BY <1>t, <3>1 DEF TypeOK, Rows
      <4> QED
        BY <1>u, <4>1 DEF Written
    <3> QED
      BY <2>1, <3>2, <3>3 DEF Current
  <2>5. SumTo(Take(v), n) = session[v].points
    BY <2>1 DEF LedgerInv, LedgerAgrees
  <2> QED
    BY <2>1, <2>2, <2>3, <2>4, <2>5
<1> QED
  BY <1>u, <1>2, <1>3, <1>4 DEF LedgerInv, LedgerAgrees

LEMMA LedgerStep == LedgerInv /\ [Next]_vars => LedgerInv'
<1> SUFFICES ASSUME LedgerInv, [Next]_vars PROVE LedgerInv'
  OBVIOUS
<1>t. TypeOK /\ TypeOK'
  BY TypeStep DEF LedgerInv
<1>1. CASE Quiet
  <2>1. UNCHANGED <<batches, spent, lapsed, charged, raced>> /\ Rows' = Rows
    BY <1>1 DEF Quiet, ledgerVars, Rows
  <2>2. ASSUME NEW w \in Workers, Committing(w)'
        PROVE  /\ Committing(w) /\ session'[w] = session[w] /\ Take(w)' = Take(w)
               /\ w \notin overtaken' => w \notin overtaken
               /\ Current(w) => Current(w)'
    <3>1. /\ Committing(w) /\ session'[w] = session[w]
          /\ w \notin overtaken' => w \notin overtaken
      BY <1>1, <2>2 DEF Quiet
    <3> QED
      BY <2>1, <3>1 DEF Take, TakenBy, Current
  <2> QED
    BY <1>t, <2>1, <2>2 DEF LedgerInv, LedgerAgrees
<1>2. ASSUME NEW row, Appended(row) PROVE LedgerInv'
  BY <1>t, <1>2, LedgerAppend
<1>3. ASSUME NEW w \in Workers, LoadBatches(w) \/ LoadStale(w), Loaded(w) PROVE LedgerInv'
  BY <1>t, <1>3, LedgerLoad
<1>4. ASSUME NEW w \in Workers, Committed(w) PROVE LedgerInv'
  BY <1>t, <1>4, LedgerCommit
<1> QED
  BY <1>t, <1>1, <1>2, <1>3, <1>4, StepKinds

\* However many requests run side by side, what the sum of the ledger leaves is there in
\* the batches, and the two are equal as long as no request has written over what another
\* one wrote since it loaded the batch.
THEOREM BalanceHolds == Spec => []BalanceIsBacked
<1>1. Init => LedgerInv
  BY LedgerInit
<1>2. LedgerInv /\ [Next]_vars => LedgerInv'
  BY LedgerStep
<1>3. LedgerInv => BalanceIsBacked
  BY LedgerImplies
<1> QED
  BY <1>1, <1>2, <1>3, PTL DEF Spec

-----------------------------------------------------------------------------
(*                      The oldest points go first                         *)

LapsedAt(b, t) == b.expires # Forever /\ b.expires <= t

\* Of the rows b, at the time t: points were taken of a row that lives only where every
\* older one is used up or has lapsed.
OldestIn(b, t) ==
    \A i, j \in DOMAIN b :
        i < j /\ b[j].consumed > 0 /\ ~LapsedAt(b[j], t)
            => b[i].consumed = b[i].points \/ LapsedAt(b[i], t)

\* As long as no request wrote over another's points, the rows are in order, and so
\* they are once a request that was not overtaken has written what it loaded.
OldestInv ==
    /\ LedgerInv
    /\ ~raced => /\ OldestIn(batches, now)
                 /\ \A w \in Workers :
                       Committing(w) /\ w \notin overtaken => OldestIn(Written(w), now)

LEMMA OldestImplies == OldestInv => OldestFirst
<1>1. TypeOK => \A i \in Rows : Free(batches[i]) = 0 <=> batches[i].consumed = batches[i].points
  BY RowTyped DEF Free
<1> QED
  BY <1>1 DEF OldestInv, LedgerInv, OldestIn, OldestFirst, Stale, LapsedAt, Rows

\* Time lets rows lapse, and none live again.
LEMMA OldestLater ==
    ASSUME NEW b \in Seq(Batch), NEW t \in Nat, NEW u \in {t, t + 1}, OldestIn(b, t)
    PROVE  OldestIn(b, u)
<1>1. \A i \in DOMAIN b : b[i].expires \in Nat
  <2>1. \A i \in DOMAIN b : b[i] \in Batch
    OBVIOUS
  <2> QED
    BY <2>1 DEF Batch
<1>2. \A i \in DOMAIN b : LapsedAt(b[i], t) => LapsedAt(b[i], u)
  BY <1>1 DEF LapsedAt
<1> QED
  BY <1>2 DEF OldestIn

LEMMA OldestAppend ==
    ASSUME NEW b \in Seq(Batch), NEW row \in Batch, row.consumed = 0, NEW t, OldestIn(b, t)
    PROVE  OldestIn(Append(b, row), t)
<1> DEFINE n == Len(b)
           s == Append(b, row)
<1>1. n \in Nat /\ DOMAIN b = 1..n /\ DOMAIN s = 1..n + 1
  OBVIOUS
<1>2. s[n + 1].consumed = 0 /\ \A i \in 1..n : s[i] = b[i]
  OBVIOUS
<1> HIDE DEF s, n
<1>3. \A i, j \in 1..n + 1 : i < j /\ s[j].consumed > 0 => i \in 1..n /\ j \in 1..n
  BY <1>1, <1>2
<1>4. OldestIn(s, t)
  BY <1>1, <1>2, <1>3 DEF OldestIn
<1> QED
  BY <1>4 DEF s

\* A redemption takes of a row only what is missing when all the older rows are used up.
LEMMA RedeemOldest ==
    ASSUME TypeOK, OldestIn(batches, now), NEW points \in Nat,
           NEW c \in Seq(Batch), DOMAIN c = Rows,
           \A i \in Rows : /\ c[i].points = batches[i].points
                           /\ c[i].expires = batches[i].expires
                           /\ c[i].consumed = batches[i].consumed + Taken(i, points)
    PROVE  OldestIn(c, now)
<1> DEFINE n == Len(batches)
<1> SUFFICES ASSUME NEW i \in Rows, NEW j \in Rows,
                    i < j, c[j].consumed > 0, ~LapsedAt(c[j], now)
             PROVE  c[i].consumed = c[i].points \/ LapsedAt(c[i], now)
  BY DEF OldestIn
<1>1. /\ n \in Nat /\ Rows = 1..n
      /\ batches[i].consumed \in Nat /\ batches[i].points \in Nat
      /\ batches[j].consumed \in Nat /\ batches[i].consumed <= batches[i].points
  BY RowTyped
<1>2. /\ Taken(i, points) \in Nat /\ Taken(j, points) \in Nat
      /\ i \notin Live => Taken(i, points) = 0
      /\ j \notin Live => Taken(j, points) = 0
      /\ LiveBefore(i) \in Nat /\ LiveBefore(j) \in Nat
  BY TakenFacts
<1>3. \A k \in Rows : LapsedAt(c[k], now) <=> LapsedAt(batches[k], now)
  BY DEF LapsedAt
<1>4. i \notin Live <=> batches[i].consumed = batches[i].points \/ LapsedAt(batches[i], now)
  BY <1>1 DEF Live, Free, Stale, LapsedAt
<1>5. CASE i \notin Live
  BY <1>1, <1>2, <1>3, <1>4, <1>5
<1>6. CASE i \in Live
  <2>1. batches[j].consumed = 0
    BY <1>1, <1>3, <1>4, <1>6 DEF OldestIn, Rows
  <2>2. Taken(j, points) > 0
    BY <1>2, <2>1
  <2>3. LiveBefore(j) < points
    BY <2>2 DEF Taken
  <2>4. LiveBefore(j) >= LiveBefore(i) + Free(batches[i])
    <3>1. \A k \in 1..n : LiveFree[k] \in Nat
      BY <1>1, TakenFacts
    <3>2. /\ i - 1 \in 0..n /\ i \in 0..n /\ j - 1 \in 0..n /\ i <= j - 1
          /\ i - 1 \in Nat /\ (i - 1) + 1 = i
      BY <1>1
    <3>3. SumTo(LiveFree, i) = SumTo(LiveFree, i - 1) + LiveFree[i]
      BY <3>2, SumStep
    <3>4. SumTo(LiveFree, i) <= SumTo(LiveFree, j - 1)
      BY <1>1, <3>1, <3>2, SumGrows
    <3>5. LiveFree[i] = Free(batches[i])
      BY <1>6 DEF LiveFree
    <3> QED
      BY <1>1, <1>2, <3>3, <3>4, <3>5 DEF LiveBefore, Free
  <2>5. Taken(i, points) = Free(batches[i])
    BY <1>1, <1>2, <1>6, <2>3, <2>4 DEF Taken, Smaller, Free
  <2> QED
    BY <1>1, <2>5 DEF Free
<1> QED
  BY <1>5, <1>6

\* Two requests that write different rows, each keeping the order on its own, keep it
\* together: neither can have taken from a row that is full already.
LEMMA BesideOldest ==
    ASSUME TypeOK, NEW v \in Workers, NEW w \in Workers, Current(v), Current(w),
           DOMAIN session[v].consumed \cap DOMAIN session[w].consumed = {},
           OldestIn(Written(v), now), OldestIn(Written(w), now),
           NEW c, DOMAIN c = Rows,
           \A i \in Rows : c[i] = IF i \in DOMAIN session[v].consumed THEN Written(v)[i]
                                                                      ELSE Written(w)[i]
    PROVE  OldestIn(c, now)
<1> SUFFICES ASSUME NEW i \in Rows, NEW j \in Rows,
                    i < j, c[j].consumed > 0, ~LapsedAt(c[j], now)
             PROVE  c[i].consumed = c[i].points \/ LapsedAt(c[i], now)
  BY DEF OldestIn
<1>1. DOMAIN Written(v) = Rows /\ DOMAIN Written(w) = Rows
  BY WrittenTyped DEF RowsWritten
<1>2. ASSUME NEW u \in {v, w}
      PROVE  /\ Written(u)[i].points = batches[i].points
             /\ Written(u)[i].expires = batches[i].expires
             /\ i \notin DOMAIN session[u].consumed => Written(u)[i].consumed = batches[i].consumed
             /\ i \in DOMAIN session[u].consumed => batches[i].consumed # batches[i].points
  <2>1. /\ Written(u)[i].points = batches[i].points
        /\ Written(u)[i].expires = batches[i].expires
        /\ i \notin DOMAIN session[u].consumed => Written(u)[i].consumed = batches[i].consumed
    BY WrittenTyped DEF RowsWritten
  <2>2. ASSUME i \in DOMAIN session[u].consumed PROVE batches[i].consumed # batches[i].points
    <3>1. /\ session[u].consumed[i] \in 1..batches[i].points
          /\ session[u].taken[i] \in Nat \ {0}
          /\ session[u].consumed[i] = batches[i].consumed + session[u].taken[i]
      BY <2>2 DEF TypeOK, Current
    <3>2. batches[i].consumed \in Nat /\ batches[i].points \in Nat
      BY RowTyped
    <3> QED
      BY <3>1, <3>2
  <2> QED
    BY <2>1, <2>2
<1>3. CASE j \in DOMAIN session[v].consumed
  <2>1. Written(v)[i].consumed = Written(v)[i].points \/ LapsedAt(Written(v)[i], now)
    BY <1>1, <1>3 DEF OldestIn
  <2>2. CASE i \in DOMAIN session[v].consumed
    BY <2>1, <2>2
  <2>3. CASE i \notin DOMAIN session[v].consumed
    BY <1>2, <2>1, <2>3 DEF LapsedAt
  <2> QED
    BY <2>2, <2>3
<1>4. CASE j \notin DOMAIN session[v].consumed
  <2>1. Written(w)[i].consumed = Written(w)[i].points \/ LapsedAt(Written(w)[i], now)
    BY <1>1, <1>4 DEF OldestIn
  <2>2. CASE i \in DOMAIN session[v].consumed
    BY <1>2, <2>1, <2>2 DEF LapsedAt
  <2>3. CASE i \notin DOMAIN session[v].consumed
    BY <2>1, <2>3
  <2> QED
    BY <2>2, <2>3
<1> QED
  BY <1>3, <1>4

LEMMA OldestInit == Init => OldestInv
<1> SUFFICES ASSUME Init PROVE OldestInv
  OBVIOUS
<1>1. \A w \in Workers : ~Committing(w)
  BY IdleTyped DEF Init, Committing
<1>2. DOMAIN batches = {}
  BY DEF Init
<1> QED
  BY <1>1, <1>2, LedgerInit DEF OldestInv, OldestIn

\* What a request loads leaves the rows in order once it is written.
LEMMA OldestLoad ==
    ASSUME LedgerInv, OldestIn(batches, now), TypeOK',
           NEW w \in Workers, LoadBatches(w) \/ LoadStale(w), Loaded(w)
    PROVE  OldestIn(Written(w)', now)
<1>t. TypeOK /\ Current(w)'
  BY LedgerLoad DEF LedgerInv
<1>u. batches' = batches /\ Rows' = Rows
  BY DEF Loaded, ledgerVars, Rows
<1>1. /\ Written(w)' \in Seq(Batch) /\ DOMAIN Written(w)' = Rows
      /\ \A i \in Rows : /\ Written(w)'[i].points = batches[i].points
                         /\ Written(w)'[i].expires = batches[i].expires
  <2>1. TypeOK' => RowsWritten'
    BY WrittenTyped, PTL
  <2> QED
    BY <1>u, <2>1 DEF RowsWritten
<1>2. \A i \in Rows : Written(w)'[i].consumed = batches[i].consumed + Take(w)'[i]
  <2>1. TypeOK' => WritesWhatItTakes'
    BY CurrentWrites, PTL
  <2> QED
    BY <1>t, <1>u, <2>1 DEF WritesWhatItTakes
<1>3. CASE LoadBatches(w)
  <2> DEFINE points == session[w].points
  <2>1. points \in Nat
    BY <1>t DEF TypeOK
  <2>2. \A i \in Rows : Written(w)'[i].consumed = batches[i].consumed + Taken(i, points)
    BY <1>t, <1>2, <1>3, LoadedToRedeem
  <2> HIDE DEF points
  <2> QED
    BY <1>t, <1>1, <2>1, <2>2, RedeemOldest
<1>4. CASE LoadStale(w)
  <2> DEFINE c == Written(w)'
  <2>1. \A i \in Rows : c[i].consumed = batches[i].consumed + LapsingFree[i]
    BY <1>t, <1>2, <1>4, LoadedToExpire
  <2>2. \A i \in Rows : /\ batches[i].consumed \in Nat /\ batches[i].points \in Nat
                        /\ LapsingFree[i] = IF i \in Lapsing THEN Free(batches[i]) ELSE 0
    BY <1>t, RowTyped DEF LapsingFree
  <2>3. \A i \in Rows : LapsedAt(c[i], now) <=> LapsedAt(batches[i], now)
    BY <1>1 DEF LapsedAt
  <2>4. \A i \in Rows : ~LapsedAt(batches[i], now) => c[i].consumed = batches[i].consumed
    BY <2>1, <2>2 DEF Lapsing, Stale, LapsedAt
  <2>5. \A i \in Rows : batches[i].consumed = batches[i].points => c[i].consumed = c[i].points
    BY <1>1, <2>1, <2>2 DEF Free
  <2>6. DOMAIN c = Rows /\ DOMAIN batches = Rows
    BY <1>1 DEF Rows
  <2> HIDE DEF c
  <2>7. OldestIn(c, now)
    BY <2>3, <2>4, <2>5, <2>6 DEF OldestIn
  <2> QED
    BY <2>7 DEF c
<1> QED
  BY <1>3, <1>4

LEMMA OldestStep == OldestInv /\ [Next]_vars => OldestInv'
<1> SUFFICES ASSUME OldestInv, [Next]_vars PROVE OldestInv'
  OBVIOUS
<1>t. TypeOK /\ TypeOK' /\ LedgerInv /\ LedgerInv'
  BY TypeStep, LedgerStep DEF OldestInv, LedgerInv
<1>b. batches \in Seq(Batch) /\ now \in Nat /\ \A w \in Workers : Written(w) \in Seq(Batch)
  BY <1>t, WrittenTyped DEF TypeOK, RowsWritten
<1>1. CASE Quiet
  <2> SUFFICES ASSUME ~raced'
               PROVE  /\ OldestIn(batches', now')
                      /\ \A w \in Workers :
                            Committing(w)' /\ w \notin overtaken' => OldestIn(Written(w)', now')
    BY <1>t DEF OldestInv
  <2>1. batches' = batches /\ ~raced
    BY <1>1 DEF Quiet, ledgerVars
  <2>2. OldestIn(batches', now')
    BY <1>b, <1>1, <2>1, OldestLater DEF Quiet, OldestInv
  <2>3. ASSUME NEW w \in Workers, Committing(w)', w \notin overtaken'
        PROVE  OldestIn(Written(w)', now')
    <3>1. Committing(w) /\ w \notin overtaken /\ Written(w)' = Written(w)
      BY <1>1, <2>1, <2>3, WrittenSame DEF Quiet
    <3>2. OldestIn(Written(w), now)
      BY <2>1, <3>1 DEF OldestInv
    <3> QED
      BY <1>b, <1>1, <3>1, <3>2, OldestLater DEF Quiet
  <2> QED
    BY <2>2, <2>3
<1>2. ASSUME NEW row, Appended(row) PROVE OldestInv'
  <2> SUFFICES ASSUME ~raced'
               PROVE  /\ OldestIn(batches', now')
                      /\ \A w \in Workers :
                            Committing(w)' /\ w \notin overtaken' => OldestIn(Written(w)', now')
    BY <1>t DEF OldestInv
  <2>1. ~raced /\ now' = now /\ overtaken' = overtaken
    BY <1>2 DEF Appended
  <2>2. OldestIn(batches', now')
    BY <1>b, <1>2, <2>1, OldestAppend DEF Appended, OldestInv
  <2>3. ASSUME NEW w \in Workers, Committing(w)', w \notin overtaken'
        PROVE  OldestIn(Written(w)', now')
    <3>1. Committing(w) /\ Written(w)' = Append(Written(w), row)
      BY <1>t, <1>2, <2>3, WrittenAppended DEF Appended, Committing
    <3>2. OldestIn(Written(w), now)
      BY <2>1, <2>3, <3>1 DEF OldestInv
    <3> QED
      BY <1>b, <1>2, <2>1, <3>1, <3>2, OldestAppend DEF Appended
  <2> QED
    BY <2>2, <2>3
<1>3. ASSUME NEW w \in Workers, LoadBatches(w) \/ LoadStale(w), Loaded(w) PROVE OldestInv'
  <2> SUFFICES ASSUME ~raced'
               PROVE  /\ OldestIn(batches', now')
                      /\ \A v \in Workers :
                            Committing(v)' /\ v \notin overtaken' => OldestIn(Written(v)', now')
    BY <1>t DEF OldestInv
  <2>1. UNCHANGED <<now, batches, overtaken, raced>>
    BY <1>3 DEF Loaded, ledgerVars, histVars
  <2>2. OldestIn(batches, now)
    BY <2>1 DEF OldestInv
  <2>3. OldestIn(Written(w)', now)
    BY <1>t, <1>3, <2>2, OldestLoad
  <2>4. ASSUME NEW v \in Workers \ {w}, Committing(v)', v \notin overtaken'
        PROVE  OldestIn(Written(v)', now)
    <3>1. session'[v] = session[v]
      BY <1>3 DEF Loaded
    <3>2. Committing(v) /\ Written(v)' = Written(v)
      BY <2>1, <2>4, <3>1, WrittenSame DEF Committing
    <3> QED
      BY <2>1, <2>4, <3>2 DEF OldestInv
  <2> QED
    BY <2>1, <2>2, <2>3, <2>4
<1>4. ASSUME NEW w \in Workers, Committed(w) PROVE OldestInv'
  <2> SUFFICES ASSUME ~raced'
               PROVE  /\ OldestIn(batches', now')
                      /\ \A v \in Workers :
                            Committing(v)' /\ v \notin overtaken' => OldestIn(Written(v)', now')
    BY <1>t DEF OldestInv
  <2>1. /\ batches' = Written(w) /\ now' = now /\ Committing(w) /\ ~raced /\ w \notin overtaken
        /\ overtaken' = (overtaken \ {w}) \cup WritingBeside(w)
    BY <1>4 DEF Committed, WriteRows
  <2>2. Current(w) /\ OldestIn(Written(w), now)
    BY <1>t, <2>1 DEF OldestInv, LedgerInv, LedgerAgrees
  <2>3. ASSUME NEW v \in Workers, Committing(v)', v \notin overtaken'
        PROVE  OldestIn(Written(v)', now)
    <3>1. v # w /\ session'[v] = session[v] /\ Committing(v)
      BY <1>4, <2>3 DEF Committed, Committing
    <3>2. /\ v \notin overtaken
          /\ DOMAIN session[v].consumed \cap DOMAIN session[w].consumed = {}
      BY <2>1, <2>3, <3>1 DEF WritingBeside
    <3>3. Current(v) /\ OldestIn(Written(v), now)
      BY <1>t, <2>1, <3>1, <3>2 DEF OldestInv, LedgerInv, LedgerAgrees
    <3> DEFINE c == Written(v)'
    <3>4. DOMAIN c = Rows
      <4>1. Rows' = Rows
        BY <1>t, <2>1, WrittenTyped DEF RowsWritten, Rows
      <4> QED
        BY <4>1 DEF Written
    <3>5. ASSUME NEW i \in Rows
          PROVE  c[i] = IF i \in DOMAIN session[v].consumed THEN Written(v)[i] ELSE Written(w)[i]
      <4>1. i \in Rows'
        BY <1>t, <2>1, WrittenTyped DEF RowsWritten, Rows
      <4>2. c[i] = IF i \in DOMAIN session[v].consumed
                   THEN [Written(w)[i] EXCEPT !.consumed = session[v].consumed[i]]
                   ELSE Written(w)[i]
        BY <2>1, <3>1, <4>1 DEF Written
      <4>3. i \in DOMAIN session[v].consumed =>
                /\ i \notin DOMAIN session[w].consumed /\ Written(w)[i] = batches[i]
                /\ Written(v)[i] = [batches[i] EXCEPT !.consumed = session[v].consumed[i]]
        BY <3>2 DEF Written
      <4> HIDE DEF c
      <4> QED
        BY <4>2, <4>3
    <3> HIDE DEF c
    <3>6. OldestIn(c, now)
      BY <1>t, <2>2, <3>2, <3>3, <3>4, <3>5, BesideOldest
    <3> QED
      BY <3>6 DEF c
  <2> QED
    BY <2>1, <2>2, <2>3
<1> QED
  BY <1>t, <1>1, <1>2, <1>3, <1>4, StepKinds

\* However many requests run side by side, points are taken of a batch that lives only
\* when all the older ones are used up or lapsed, whenever the others lapse meanwhile, as
\* long as no request has written over what another one wrote since it loaded the batch.
THEOREM OldestFirstHolds == Spec => []OldestFirst
<1>1. Init => OldestInv
  BY OldestInit
<1>2. OldestInv /\ [Next]_vars => OldestInv'
  BY OldestStep
<1>3. OldestInv => OldestFirst
  BY OldestImplies
<1> QED
  BY <1>1, <1>2, <1>3, PTL DEF Spec
=============================================================================
