--------------------------- MODULE LoyaltyLedger ---------------------------
(***************************************************************************)
(* One subscriber's loyalty points: an append-only ledger whose sum is the *)
(* balance, and on each earning row a counter of the points of that batch  *)
(* that were spent or written off.  The two say the same thing twice, and  *)
(* are read and written by separate statements.                            *)
(*                                                                         *)
(* The accrual runs after the transaction that books the payment, which    *)
(* PaymentSettlement shows to commit at most once per payment.             *)
(***************************************************************************)
EXTENDS Naturals, Sequences, TLC

CONSTANTS
    Payments,    \* payments of the subscriber
    Worth,       \* values points_for_amount takes for what was paid
    Workers,     \* request threads
    MinRedeem,   \* loyalty_settings.min_redeem
    Lifetimes,   \* values expiry_months is set to; Forever is NULL
    MaxTime      \* bound: the last month of the clock

ASSUME LoyaltyAssumption ==
    /\ Worth \subseteq Nat
    /\ MinRedeem \in Nat /\ Lifetimes \subseteq Nat /\ MaxTime \in Nat

VARIABLES
    now,       \* datetime.utcnow()
    settings,  \* loyalty_settings of the tenant
    booked,    \* payments whose transaction has committed
    accruing,  \* of those, the ones whose worker has not yet awarded points
    batches,   \* earning rows, in the order they were created
    spent,     \* sum of the redemption rows
    lapsed,    \* sum of the expiry rows
    session,   \* the redemption or write-off each worker is in the middle of
    charged,   \* history: points that were redeemed and written off from each batch
    overtaken, \* history: workers that are about to write a batch another one has
               \* written since they loaded it
    raced      \* history: one of those has committed

ledgerVars == <<batches, spent, lapsed>>
histVars == <<charged, overtaken, raced>>
vars == <<now, settings, booked, accruing, ledgerVars, session, histVars>>

\* What the runs may interchange: no payment and no worker is treated specially.
Symmetry == Permutations(Payments) \cup Permutations(Workers)

\* expiry_months IS NULL, and expires_at IS NULL.
Forever == 0

Batch == [points : Nat \ {0}, consumed : Nat, expires : Nat]
Idle == [pc |-> "idle", points |-> 0, consumed |-> <<>>, taken |-> <<>>]

\* The ledger, its batches and the requests in flight have the types of their columns.
TypeOK ==
    /\ now \in Nat
    /\ settings \in [enabled : BOOLEAN, lifetime : Nat]
    /\ accruing \subseteq booked /\ booked \subseteq Payments
    /\ batches \in Seq(Batch)
    /\ \A i \in 1..Len(batches) : batches[i].consumed <= batches[i].points
    /\ spent \in Nat /\ lapsed \in Nat
    /\ DOMAIN session = Workers
    /\ \A w \in Workers :
           /\ session[w].pc \in {"idle", "checked", "redeeming", "expiring"}
           /\ session[w].points \in Nat
           /\ \A i \in DOMAIN session[w].consumed :
                  i \in DOMAIN batches /\ session[w].consumed[i] \in 1..batches[i].points
           /\ DOMAIN session[w].taken = DOMAIN session[w].consumed
           /\ \A i \in DOMAIN session[w].taken : session[w].taken[i] \in Nat \ {0}
    /\ charged \in Seq(Nat) /\ Len(charged) = Len(batches)
    /\ overtaken \subseteq Workers /\ raced \in BOOLEAN

Init ==
    /\ now = 1
    /\ settings \in [enabled : BOOLEAN, lifetime : Lifetimes]
    /\ booked = {} /\ accruing = {}
    /\ batches = <<>>
    /\ spent = 0 /\ lapsed = 0
    /\ session = [w \in Workers |-> Idle]
    /\ charged = <<>> /\ overtaken = {} /\ raced = FALSE

Free(b) == b.points - b.consumed
Stale(b) == b.expires # Forever /\ b.expires <= now
Rows == DOMAIN batches

\* f[1] + ... + f[n]
SumTo(f, n) ==
    LET sum[k \in 0..n] == IF k = 0 THEN 0 ELSE sum[k - 1] + f[k] IN sum[n]

Earned == SumTo([i \in Rows |-> batches[i].points], Len(batches))
Unspent == SumTo([i \in Rows |-> Free(batches[i])], Len(batches))

-----------------------------------------------------------------------------
\* PUT /api/settings/loyalty.
ChangeSettings ==
    /\ settings' \in [enabled : BOOLEAN, lifetime : Lifetimes]
    /\ UNCHANGED <<now, booked, accruing, ledgerVars, session, histVars>>

\* complete_successful_payment commits, and goes on to the accrual.
BookPayment(p) ==
    /\ p \notin booked
    /\ booked' = booked \cup {p} /\ accruing' = accruing \cup {p}
    /\ UNCHANGED <<now, settings, ledgerVars, session, histVars>>

\* award_for_payment; an amount too small to earn a point leaves no row.
Award(p) ==
    /\ p \in accruing
    /\ accruing' = accruing \ {p}
    /\ \E points \in Worth :
           batches' = IF settings.enabled /\ points > 0
                      THEN Append(batches,
                              [points |-> points, consumed |-> 0,
                               expires |-> IF settings.lifetime = Forever THEN Forever
                                           ELSE now + settings.lifetime])
                      ELSE batches
    /\ charged' = IF batches' = batches THEN charged ELSE Append(charged, 0)
    /\ UNCHANGED <<now, settings, booked, spent, lapsed, session, overtaken, raced>>

\* The worker dies after the commit: no later callback gets past the COMPLETED
\* payment, so the points are never awarded.
CrashAccrual(p) ==
    /\ p \in accruing
    /\ accruing' = accruing \ {p}
    /\ UNCHANGED <<now, settings, booked, ledgerVars, session, histVars>>

-----------------------------------------------------------------------------
(* redeem: the balance is checked on the sum, the points are taken from    *)
(* the live batches, oldest first, as a later query finds them.            *)

CheckBalance(w, points) ==
    /\ session[w].pc = "idle" /\ settings.enabled
    /\ points + spent + lapsed <= Earned /\ MinRedeem + spent + lapsed <= Earned
    /\ session' = [session EXCEPT ![w] = [Idle EXCEPT !.pc = "checked", !.points = points]]
    /\ UNCHANGED <<now, settings, booked, accruing, ledgerVars, histVars>>

Live == {i \in Rows : Free(batches[i]) > 0 /\ ~Stale(batches[i])}
LiveFree == [i \in Rows |-> IF i \in Live THEN Free(batches[i]) ELSE 0]
LiveTotal == SumTo(LiveFree, Len(batches))

\* Faulty variant: the newest batches are spent first.
LiveAfter(i) == LiveTotal - SumTo(LiveFree, i)

LiveBefore(i) == SumTo(LiveFree, i - 1)

Smaller(a, b) == IF a < b THEN a ELSE b

\* Faulty variant: more is taken of a batch than it has left.
TakenUncapped(i, points) ==
    IF i \in Live /\ LiveBefore(i) < points THEN points - LiveBefore(i) ELSE 0

\* What is taken of a live batch: what the older ones left to take, if it has it.
Taken(i, points) ==
    IF i \in Live /\ LiveBefore(i) < points
    THEN Smaller(Free(batches[i]), points - LiveBefore(i)) ELSE 0

LoadBatches(w) ==
    LET points == session[w].points
        touched == {i \in Live : Taken(i, points) > 0}
    IN
    /\ session[w].pc = "checked"
    /\ session' = [session EXCEPT ![w] =
          IF LiveTotal < points THEN Idle   \* "Those points have expired."
          ELSE [pc |-> "redeeming", points |-> points,
                consumed |-> [i \in touched |-> batches[i].consumed + Taken(i, points)],
                taken |-> [i \in touched |-> Taken(i, points)]]]
    /\ UNCHANGED <<now, settings, booked, accruing, ledgerVars, histVars>>

\* An UPDATE writes the value computed from what was loaded, whatever the row
\* holds by then.
Written(w) ==
    [i \in Rows |-> IF i \in DOMAIN session[w].consumed
                    THEN [batches[i] EXCEPT !.consumed = session[w].consumed[i]]
                    ELSE batches[i]]

TakenBy(w, i) == IF i \in DOMAIN session[w].taken THEN session[w].taken[i] ELSE 0

\* The workers about to write a batch that this one writes.
WritingBeside(w) ==
    {v \in Workers \ {w} :
        DOMAIN session[v].consumed \cap DOMAIN session[w].consumed # {}}

\* The rows are written, and the request is over.
WriteRows(w) ==
    /\ batches' = Written(w)
    /\ session' = [session EXCEPT ![w] = Idle]
    /\ charged' = [i \in Rows |-> charged[i] + TakenBy(w, i)]
    /\ overtaken' = (overtaken \ {w}) \cup WritingBeside(w)
    /\ raced' = (raced \/ w \in overtaken)
    /\ UNCHANGED <<now, settings, booked, accruing>>

CommitRedemption(w) ==
    /\ session[w].pc = "redeeming"
    /\ WriteRows(w)
    /\ spent' = spent + session[w].points /\ lapsed' = lapsed

-----------------------------------------------------------------------------
(* expire_stale, on POST /api/settings/loyalty/expire.                     *)

Lapsing == {i \in Rows : Stale(batches[i]) /\ Free(batches[i]) > 0}
LapsingFree == [i \in Rows |-> IF i \in Lapsing THEN Free(batches[i]) ELSE 0]

\* Faulty variant: points already redeemed from the batch are written off again.
LoadStaleWhole(w) ==
    /\ session[w].pc = "idle" /\ Lapsing # {}
    /\ session' = [session EXCEPT ![w] =
          [pc |-> "expiring",
           points |-> SumTo([i \in Rows |-> IF i \in Lapsing THEN batches[i].points ELSE 0],
                            Len(batches)),
           consumed |-> [i \in Lapsing |-> batches[i].points],
           taken |-> [i \in Lapsing |-> Free(batches[i])]]]
    /\ UNCHANGED <<now, settings, booked, accruing, ledgerVars, histVars>>

LoadStale(w) ==
    /\ session[w].pc = "idle" /\ Lapsing # {}
    /\ session' = [session EXCEPT ![w] =
          [pc |-> "expiring", points |-> SumTo(LapsingFree, Len(batches)),
           consumed |-> [i \in Lapsing |-> batches[i].points],
           taken |-> [i \in Lapsing |-> Free(batches[i])]]]
    /\ UNCHANGED <<now, settings, booked, accruing, ledgerVars, histVars>>

CommitExpiry(w) ==
    /\ session[w].pc = "expiring"
    /\ WriteRows(w)
    /\ lapsed' = lapsed + session[w].points /\ spent' = spent

CrashWorker(w) ==
    /\ session[w].pc # "idle"
    /\ session' = [session EXCEPT ![w] = Idle]
    /\ overtaken' = overtaken \ {w}
    /\ UNCHANGED <<now, settings, booked, accruing, ledgerVars, charged, raced>>

Tick ==
    /\ now < MaxTime
    /\ now' = now + 1
    /\ UNCHANGED <<settings, booked, accruing, ledgerVars, session, histVars>>

Next ==
    \/ ChangeSettings \/ Tick
    \/ \E p \in Payments : BookPayment(p) \/ Award(p) \/ CrashAccrual(p)
    \/ \E w \in Workers :
          \/ \E points \in 1..Earned : CheckBalance(w, points)
          \/ LoadBatches(w) \/ CommitRedemption(w)
          \/ LoadStale(w) \/ CommitExpiry(w) \/ CrashWorker(w)

Spec == Init /\ [][Next]_vars

-----------------------------------------------------------------------------
\* The balance the subscriber sees is backed by points: what the sum of the ledger
\* leaves is there in the batches, however requests race.  Redemptions that load the
\* same batch give points away, they never take any.  As long as no request has
\* written over what another one wrote, the two are equal.
BalanceIsBacked ==
    /\ Earned <= spent + lapsed + Unspent
    /\ ~raced => Earned = spent + lapsed + Unspent

\* "Redemption spends the oldest live batch first": points were taken from a batch
\* that still lives only once every older one was used up or had lapsed.  Requests
\* may run side by side, and batches lapse between their statements, as long as
\* none writes over a batch that another one wrote meanwhile.
OldestFirst ==
    ~raced =>
        \A i, j \in Rows :
            i < j /\ batches[j].consumed > 0 /\ ~Stale(batches[j])
                => Free(batches[i]) = 0 \/ Stale(batches[i])

-----------------------------------------------------------------------------
\* "Refuse rather than hand out points that are already gone" (redeem): no more
\* is spent and written off than was earned.  Two redemptions, or a redemption
\* and a write-off, that load the same batch break it.
NeverOverdrawn == spent + lapsed <= Earned
=============================================================================
