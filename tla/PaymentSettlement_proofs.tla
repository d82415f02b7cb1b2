---------------------- MODULE PaymentSettlement_proofs ----------------------
(***************************************************************************)
(* Proofs about PaymentSettlement, for any number of subscribers,          *)
(* payments, workers and enforcers, any period and grace, and with or      *)
(* without the bounds on the clock and on deliveries.                      *)
(***************************************************************************)
EXTENDS PaymentSettlement, TLAPS

\* What the rows and the phone agree on between transactions.
RowsAgree ==
    \A p \in Payments :
        /\ p \in ledger => prompt[p] = "paid"
        /\ payment[p] = "failed" => prompt[p] = "declined"
        /\ prompt[p] = "none" => payment[p] = "absent"

\* What a request in flight may rely on until its transaction ends.
RequestsAgree ==
    \A w \in Workers :
        handler[w].pc # "idle" =>
            /\ handler[w].pay \in Payments
            /\ prompt[handler[w].pay] # "none"
            /\ handler[w].pc = "pushed" => payment[handler[w].pay] = "absent"
            /\ handler[w].pc = "failing" => /\ prompt[handler[w].pay] = "declined"
                                            /\ payment[handler[w].pay] # "absent"
            /\ handler[w].pc \in {"settling", "crediting"} =>
                   /\ prompt[handler[w].pay] = "paid"
                   /\ payment[handler[w].pay] # "absent"

\* A checkout request was sent by one worker only.
OneSender ==
    \A v, w \in Workers :
        handler[v].pc = "pushed" /\ handler[w].pc = "pushed" /\ handler[v].pay = handler[w].pay
            => v = w

\* A settlement that is not going to write its invoice leaves it to a prompt for
\* the same one that has been booked: it found the invoice paid.
InvoicesAgree ==
    \A w \in Workers :
        LET i == bill[handler[w].pay] IN
        handler[w].pc = "crediting" =>
            IF handler[w].due THEN i \in Invoices
                              ELSE i \in Invoices \ edited => invoice[i] = "paid"

\* The inductive invariant of the books.
BooksInv ==
    CreditedOnce /\ BooksAgree /\ RowsAgree /\ RequestsAgree /\ OneSender /\ InvoicesAgree

-----------------------------------------------------------------------------
(*                          Type correctness                               *)

LEMMA SubscriptionEndIsLater ==
    ASSUME NEW at \in Nat, NEW stackFrom \in Nat
    PROVE  /\ SubscriptionEnd(at, stackFrom) \in Nat
           /\ SubscriptionEnd(at, stackFrom) > at
           /\ SubscriptionEnd(at, stackFrom) >= stackFrom + Period
BY PaymentsAssumption DEF SubscriptionEnd

\* A worker that is not idle serves a payment and has all its fields.
LEMMA ServingWorker ==
    ASSUME TypeOK, NEW w \in Workers, handler[w].pc # "idle"
    PROVE  handler[w] \in [pc : {"pushed", "failing", "settling", "crediting"}, pay : Payments,
                           status : {"ACTIVE", "SUSPENDED", "PENDING"}, end : Nat, at : Nat,
                           due : BOOLEAN]
BY DEF TypeOK, HandlerState, Idle

\* A request just taken up, before anything was loaded.
LEMMA FreshRequest ==
    ASSUME NEW pc \in {"pushed", "failing", "settling"}, NEW p \in Payments
    PROVE  [Idle EXCEPT !.pc = pc, !.pay = p] \in HandlerState
BY DEF Idle, HandlerState, NoEnd

LEMMA TypeOKInit == Init => TypeOK
BY PaymentsAssumption
   DEF Init, TypeOK, AccessState, HandlerState, JobState, Idle, NoJob, NoEnd, NoRow

LEMMA TypeOKStep == TypeOK /\ [Next]_vars => TypeOK'
<1> SUFFICES ASSUME TypeOK, [Next]_vars PROVE TypeOK'
  OBVIOUS
<1> USE DEF TypeOK, netVars, rowVars, histVars
<1>1. ASSUME NEW w \in Workers, NEW p \in Payments, StkPush(w, p) PROVE TypeOK'
  <2>1. handler' \in [Workers -> HandlerState]
    BY <1>1, FreshRequest DEF StkPush
  <2>2. bill' \in [Payments -> Invoices \cup {NoInvoice}]
    BY <1>1 DEF StkPush
  <2> QED
    BY <1>1, <2>1, <2>2 DEF StkPush
<1>2. ASSUME NEW w \in Workers, NEW p \in Payments, CallbackIgnored(w, p) PROVE TypeOK'
  BY <1>2 DEF CallbackIgnored, Posted
<1>3. ASSUME NEW w \in Workers, NEW p \in Payments, CallbackFound(w, p) PROVE TypeOK'
  <2>1. PICK pc \in {"failing", "settling"} :
            handler' = [handler EXCEPT ![w] = [Idle EXCEPT !.pc = pc, !.pay = p]]
    BY <1>3 DEF CallbackFound
  <2>2. handler' \in [Workers -> HandlerState]
    BY <2>1, FreshRequest
  <2> QED
    BY <1>3, <2>2 DEF CallbackFound, Posted
<1>4. ASSUME NEW w \in Workers, CommitPending(w) PROVE TypeOK'
  BY <1>4 DEF CommitPending, Idle, HandlerState, NoEnd
<1>5. ASSUME NEW w \in Workers, MarkFailed(w) PROVE TypeOK'
  BY <1>5 DEF MarkFailed, Idle, HandlerState, NoEnd
<1>6. ASSUME NEW w \in Workers, LoadCustomer(w) PROVE TypeOK'
  <2>1. handler[w].pc # "idle"
    BY <1>6 DEF LoadCustomer
  <2>2. customer[PayerOf[handler[w].pay]] \in AccessState
    BY <2>1, ServingWorker, PaymentsAssumption
  <2>3. handler'[w] \in HandlerState
    <3> DEFINE c == customer[PayerOf[handler[w].pay]]
               isDue == LET p == handler[w].pay
                        IN  bill[p] \in Invoices /\ invoice[bill[p]] = "pending"
    <3>1. c.status \in {"ACTIVE", "SUSPENDED", "PENDING"} /\ c.end \in Nat
      BY <2>2 DEF AccessState
    <3>2. handler'[w] = [handler[w] EXCEPT !.pc = "crediting", !.status = c.status,
                                           !.end = c.end, !.at = now, !.due = isDue]
          /\ isDue \in BOOLEAN
      BY <1>6 DEF LoadCustomer
    <3> HIDE DEF c, isDue
    <3> QED
      BY <2>1, <3>1, <3>2, ServingWorker DEF HandlerState
  <2>4. overtaken' \subseteq Payments
    BY <1>6 DEF LoadCustomer
  <2> QED
    BY <1>6, <2>3, <2>4 DEF LoadCustomer
<1>7. ASSUME NEW w \in Workers, CommitSettlement(w) PROVE TypeOK'
  <2> DEFINE p == handler[w].pay
             c == PayerOf[p]
             after == ActivatedCustomer(c, handler[w])
  <2>1. p \in Payments /\ c \in Customers
    BY <1>7, ServingWorker, PaymentsAssumption DEF CommitSettlement, SettlementWritten
  <2>2. after \in AccessState /\ after.end = SubscriptionEnd(handler[w].at, handler[w].end)
    BY <1>7, <2>1, ServingWorker, SubscriptionEndIsLater
       DEF CommitSettlement, SettlementWritten, ActivatedCustomer, AccessState
  <2>3. customer' \in [Customers -> AccessState] /\ radius' \in [Customers -> Nat]
    BY <1>7, <2>1, <2>2 DEF CommitSettlement, SettlementWritten, AccessState
  <2>4. handler' \in [Workers -> HandlerState]
    BY <1>7 DEF CommitSettlement, SettlementWritten, HandlerState
  <2>5. overtaken' \subseteq Payments
    <3>1. CreditedBeside(w, p) \subseteq Payments
      BY ServingWorker DEF CreditedBeside
    <3> QED
      BY <1>7, <3>1 DEF CommitSettlement, SettlementWritten
  <2>6. invoice' \in [Invoices -> {"pending", "paid"}]
    BY <1>7 DEF CommitSettlement, SettlementWritten
  <2> QED
    BY <1>7, <2>1, <2>3, <2>4, <2>5, <2>6 DEF CommitSettlement, SettlementWritten
<1>8. ASSUME NEW w \in Workers, RollbackSettlement(w) PROVE TypeOK'
  BY <1>8 DEF RollbackSettlement, Idle, HandlerState, NoEnd
<1>9. ASSUME NEW w \in Workers, ActivationRaises(w) \/ CrashWorker(w) PROVE TypeOK'
  BY <1>9 DEF ActivationRaises, CrashWorker, Idle, HandlerState, NoEnd
<1>10. ASSUME NEW p \in Payments, Answer(p) PROVE TypeOK'
  BY <1>10 DEF Answer
<1>11. ASSUME NEW e \in Enforcers, SelectExpired(e) PROVE TypeOK'
  BY <1>11 DEF SelectExpired, JobState
<1>12. ASSUME NEW e \in Enforcers, NEW c \in Customers, SuspendOne(e, c) PROVE TypeOK'
  <2>1. [job[e] EXCEPT !.todo = @ \ {c}, !.done = @ \cup {c}] \in JobState
    BY DEF JobState
  <2>2. job' \in [Enforcers -> JobState]
    BY <1>12, <2>1 DEF SuspendOne
  <2> QED
    BY <1>12, <2>2 DEF SuspendOne
<1>13. ASSUME NEW e \in Enforcers, CommitSuspensions(e) PROVE TypeOK'
  <2>1. \A c \in Customers : [customer[c] EXCEPT !.status = "SUSPENDED"] \in AccessState
    BY DEF AccessState
  <2>2. customer' \in [Customers -> AccessState]
    BY <1>13, <2>1 DEF CommitSuspensions
  <2>3. job' \in [Enforcers -> JobState] /\ radius' \in [Customers -> Nat]
    BY <1>13 DEF CommitSuspensions, NoJob, JobState, NoRow
  <2> QED
    BY <1>13, <2>2, <2>3 DEF CommitSuspensions
<1>14. ASSUME NEW e \in Enforcers, CrashEnforcer(e) PROVE TypeOK'
  BY <1>14 DEF CrashEnforcer, NoJob, JobState
<1>15. CASE Tick
  BY <1>15 DEF Tick
<1>16. CASE UNCHANGED vars
  BY <1>16 DEF vars
<1>17. ASSUME NEW i \in Invoices, SetInvoiceStatus(i) PROVE TypeOK'
  BY <1>17 DEF SetInvoiceStatus
<1> QED
  BY <1>1, <1>2, <1>3, <1>4, <1>5, <1>6, <1>7, <1>8, <1>9, <1>10, <1>11, <1>12,
     <1>13, <1>14, <1>15, <1>16, <1>17 DEF Next, Settle, Enforce

\* However the transactions interleave, every table and every request in flight
\* holds values the code can handle.
THEOREM TypeCorrect == Spec => []TypeOK
BY TypeOKInit, TypeOKStep, PTL DEF Spec

-----------------------------------------------------------------------------
(*                             The books                                   *)

\* BooksInv speaks of these variables only.
LEMMA BooksFrame ==
    ASSUME BooksInv, UNCHANGED <<prompt, payment, bill, invoice, ledger, credits, edited, handler>>
    PROVE  BooksInv'
BY DEF BooksInv, CreditedOnce, BooksAgree, RowsAgree, RequestsAgree, OneSender, InvoicesAgree

\* A worker that lets go of its request, by commit, rollback or crash, without
\* touching the books.
LEMMA LettingGo ==
    ASSUME BooksInv, TypeOK, NEW w \in Workers, handler' = [handler EXCEPT ![w] = Idle],
           UNCHANGED <<prompt, payment, bill, invoice, ledger, credits, edited>>
    PROVE  BooksInv'
<1> USE DEF TypeOK, Idle
<1>1. CreditedOnce' /\ BooksAgree' /\ RowsAgree'
  BY DEF BooksInv, CreditedOnce, BooksAgree, RowsAgree
<1>2. RequestsAgree'
  BY DEF BooksInv, RequestsAgree
<1>3. OneSender'
  BY DEF BooksInv, OneSender
<1>4. InvoicesAgree'
  BY DEF BooksInv, InvoicesAgree
<1> QED
  BY <1>1, <1>2, <1>3, <1>4 DEF BooksInv

LEMMA BooksStep == TypeOK /\ BooksInv /\ [Next]_vars => BooksInv'
<1> SUFFICES ASSUME TypeOK, BooksInv, [Next]_vars PROVE BooksInv'
  OBVIOUS
<1> USE DEF netVars, rowVars, histVars
<1>1. ASSUME NEW w \in Workers, NEW p \in Payments, StkPush(w, p) PROVE BooksInv'
  <2>1. /\ handler[w].pc = "idle" /\ prompt[p] = "none" /\ payment[p] = "absent"
        /\ prompt' = [prompt EXCEPT ![p] = "sent"]
        /\ handler' = [handler EXCEPT ![w] = [Idle EXCEPT !.pc = "pushed", !.pay = p]]
        /\ \A q \in Payments \ {p} : bill'[q] = bill[q]
        /\ UNCHANGED <<payment, invoice, ledger, credits, edited>>
    BY <1>1 DEF StkPush, BooksInv, RowsAgree, TypeOK
  <2>2. CreditedOnce' /\ RowsAgree'
    BY <2>1 DEF BooksInv, CreditedOnce, RowsAgree, TypeOK
  <2>5. BooksAgree'
    <3>1. p \notin ledger /\ ledger \subseteq Payments
      BY <2>1 DEF BooksInv, RowsAgree, TypeOK
    <3> QED
      BY <2>1, <3>1 DEF BooksInv, BooksAgree
  <2>6. InvoicesAgree'
    <3> SUFFICES ASSUME NEW v \in Workers, handler'[v].pc = "crediting"
                 PROVE  /\ handler'[v] = handler[v] /\ handler[v].pay # p
                        /\ handler[v].pay \in Payments
      BY <2>1 DEF BooksInv, InvoicesAgree
    <3> QED
      BY <2>1 DEF BooksInv, RequestsAgree, TypeOK, Idle
  <2>3. RequestsAgree'
    BY <2>1 DEF BooksInv, RequestsAgree, TypeOK, Idle
  <2>4. OneSender'
    BY <2>1 DEF BooksInv, RequestsAgree, OneSender, TypeOK, Idle
  <2> QED
    BY <2>2, <2>3, <2>4, <2>5, <2>6 DEF BooksInv
<1>2. ASSUME NEW w \in Workers, NEW p \in Payments, CallbackIgnored(w, p) PROVE BooksInv'
  BY <1>2, BooksFrame DEF CallbackIgnored
<1>3. ASSUME NEW w \in Workers, NEW p \in Payments, CallbackFound(w, p) PROVE BooksInv'
  <2>1. PICK pc \in {"failing", "settling"} :
            /\ handler' = [handler EXCEPT ![w] = [Idle EXCEPT !.pc = pc, !.pay = p]]
            /\ payment[p] # "absent"
            /\ prompt[p] = IF pc = "settling" THEN "paid" ELSE "declined"
    BY <1>3 DEF CallbackFound, Posted
  <2>2. UNCHANGED <<prompt, payment, bill, invoice, ledger, credits, edited>>
    BY <1>3 DEF CallbackFound
  <2>3. CreditedOnce' /\ BooksAgree' /\ RowsAgree'
    BY <2>2 DEF BooksInv, CreditedOnce, BooksAgree, RowsAgree
  <2>4. RequestsAgree'
    BY <2>1, <2>2 DEF BooksInv, RequestsAgree, TypeOK, Idle
  <2>5. OneSender'
    BY <2>1 DEF BooksInv, OneSender, TypeOK, Idle
  <2>6. InvoicesAgree'
    BY <2>1, <2>2 DEF BooksInv, InvoicesAgree, TypeOK, Idle
  <2> QED
    BY <2>3, <2>4, <2>5, <2>6 DEF BooksInv
<1>4. ASSUME NEW w \in Workers, CommitPending(w) PROVE BooksInv'
  <2> DEFINE p == handler[w].pay
  <2>1. /\ handler[w].pc = "pushed" /\ p \in Payments
        /\ payment[p] = "absent" /\ prompt[p] # "none"
        /\ payment' = [payment EXCEPT ![p] = "pending"]
        /\ handler' = [handler EXCEPT ![w] = Idle]
        /\ UNCHANGED <<prompt, bill, invoice, ledger, credits, edited>>
    BY <1>4 DEF CommitPending, BooksInv, RequestsAgree
  <2>2. CreditedOnce' /\ BooksAgree' /\ RowsAgree'
    BY <2>1 DEF BooksInv, CreditedOnce, BooksAgree, RowsAgree, TypeOK
  <2>3. \A v \in Workers \ {w} : handler[v].pc = "pushed" => handler[v].pay # p
    BY <2>1 DEF BooksInv, OneSender
  <2>4. RequestsAgree'
    BY <2>1, <2>3 DEF BooksInv, RequestsAgree, TypeOK, Idle
  <2>5. OneSender'
    BY <2>1 DEF BooksInv, OneSender, TypeOK, Idle
  <2>6. InvoicesAgree'
    BY <2>1 DEF BooksInv, InvoicesAgree, TypeOK, Idle
  <2> QED
    BY <2>2, <2>4, <2>5, <2>6 DEF BooksInv
<1>5. ASSUME NEW w \in Workers, MarkFailed(w) PROVE BooksInv'
  <2> DEFINE p == handler[w].pay
  <2>1. /\ p \in Payments /\ p \notin ledger
        /\ payment[p] # "absent" /\ prompt[p] = "declined"
        /\ payment' = [payment EXCEPT ![p] = "failed"]
        /\ handler' = [handler EXCEPT ![w] = Idle]
        /\ UNCHANGED <<prompt, bill, invoice, ledger, credits, edited>>
    BY <1>5 DEF MarkFailed, BooksInv, RequestsAgree, RowsAgree
  <2>2. CreditedOnce' /\ BooksAgree' /\ RowsAgree'
    BY <2>1 DEF BooksInv, CreditedOnce, BooksAgree, RowsAgree, TypeOK
  <2>3. RequestsAgree'
    BY <2>1 DEF BooksInv, RequestsAgree, TypeOK, Idle
  <2>4. OneSender'
    BY <2>1 DEF BooksInv, OneSender, TypeOK, Idle
  <2>5. InvoicesAgree'
    BY <2>1 DEF BooksInv, InvoicesAgree, TypeOK, Idle
  <2> QED
    BY <2>2, <2>3, <2>4, <2>5 DEF BooksInv
<1>6. ASSUME NEW w \in Workers, LoadCustomer(w) PROVE BooksInv'
  <2>1. /\ handler[w].pc = "settling"
        /\ handler'[w].pc = "crediting" /\ handler'[w].pay = handler[w].pay
        /\ handler'[w].due = (/\ bill[handler[w].pay] \in Invoices
                               /\ invoice[bill[handler[w].pay]] = "pending")
        /\ \A v \in Workers \ {w} : handler'[v] = handler[v]
        /\ UNCHANGED <<prompt, payment, bill, invoice, ledger, credits, edited>>
    BY <1>6, ServingWorker DEF LoadCustomer, TypeOK
  <2>2. CreditedOnce' /\ BooksAgree' /\ RowsAgree'
    BY <2>1 DEF BooksInv, CreditedOnce, BooksAgree, RowsAgree
  <2>3. RequestsAgree'
    BY <2>1 DEF BooksInv, RequestsAgree
  <2>4. OneSender'
    BY <2>1 DEF BooksInv, OneSender
  <2>5. InvoicesAgree'
    <3> DEFINE i == bill[handler[w].pay]
               isDue == i \in Invoices /\ invoice[i] = "pending"
    <3>1. handler'[w].due <=> isDue
      BY <2>1
    <3>2. IF handler'[w].due THEN i \in Invoices
                             ELSE i \in Invoices \ edited => invoice[i] = "paid"
      BY <3>1 DEF TypeOK
    <3> QED
      BY <2>1, <3>2 DEF BooksInv, InvoicesAgree
  <2> QED
    BY <2>2, <2>3, <2>4, <2>5 DEF BooksInv
<1>7. ASSUME NEW w \in Workers, CommitSettlement(w) PROVE BooksInv'
  <2> DEFINE p == handler[w].pay
  <2>1. /\ p \in Payments /\ p \notin ledger
        /\ payment[p] # "absent" /\ prompt[p] = "paid"
        /\ payment' = [payment EXCEPT ![p] = "completed"]
        /\ invoice' = IF handler[w].due THEN [invoice EXCEPT ![bill[p]] = "paid"] ELSE invoice
        /\ ledger' = ledger \cup {p}
        /\ credits' = [credits EXCEPT ![p] = @ + 1]
        /\ handler' = [handler EXCEPT ![w] = Idle]
        /\ handler[w].pc = "crediting" /\ UNCHANGED <<prompt, bill, edited>>
    BY <1>7 DEF CommitSettlement, SettlementWritten, BooksInv, RequestsAgree
  <2>2. CreditedOnce'
    BY <2>1 DEF BooksInv, CreditedOnce, TypeOK
  <2>3. RowsAgree'
    BY <2>1 DEF BooksInv, RowsAgree, TypeOK
  <2>6. \A i \in Invoices : invoice'[i] = IF handler[w].due /\ bill[p] = i THEN "paid" ELSE invoice[i]
    BY <2>1 DEF TypeOK
  <2>7. BooksAgree'
    <3>1. \A q \in Payments : payment'[q] = "completed" <=> q \in ledger'
      BY <2>1 DEF BooksInv, BooksAgree, TypeOK
    <3>2. ASSUME NEW i \in Invoices \ edited'
          PROVE  invoice'[i] = "paid" <=> \E q \in ledger' : bill'[q] = i
      <4>1. CASE bill[p] = i
        BY <2>1, <2>6, <3>2, <4>1 DEF BooksInv, InvoicesAgree
      <4>2. CASE bill[p] # i
        BY <2>1, <2>6, <3>2, <4>2 DEF BooksInv, BooksAgree
      <4> QED
        BY <4>1, <4>2
    <3> QED
      BY <3>1, <3>2 DEF BooksAgree
  <2>8. InvoicesAgree'
    BY <2>1, <2>6 DEF BooksInv, InvoicesAgree, TypeOK, Idle
  <2>4. RequestsAgree'
    BY <2>1 DEF BooksInv, RequestsAgree, TypeOK, Idle
  <2>5. OneSender'
    BY <2>1 DEF BooksInv, OneSender, TypeOK, Idle
  <2> QED
    BY <2>2, <2>3, <2>4, <2>5, <2>7, <2>8 DEF BooksInv
<1>8. ASSUME NEW w \in Workers, RollbackSettlement(w) PROVE BooksInv'
  BY <1>8, LettingGo DEF RollbackSettlement
<1>9. ASSUME NEW w \in Workers, ActivationRaises(w) \/ CrashWorker(w) PROVE BooksInv'
  BY <1>9, LettingGo DEF ActivationRaises, CrashWorker
<1>10. ASSUME NEW p \in Payments, Answer(p) PROVE BooksInv'
  <2>1. PICK outcome \in {"paid", "declined"} : prompt' = [prompt EXCEPT ![p] = outcome]
    BY <1>10 DEF Answer
  <2>2. prompt[p] = "sent" /\ UNCHANGED <<payment, bill, invoice, ledger, credits, edited, handler>>
    BY <1>10 DEF Answer
  <2>3. CreditedOnce' /\ BooksAgree' /\ OneSender' /\ InvoicesAgree'
    BY <2>2 DEF BooksInv, CreditedOnce, BooksAgree, OneSender, InvoicesAgree
  <2>4. RowsAgree'
    BY <2>1, <2>2 DEF BooksInv, RowsAgree, TypeOK
  <2>5. RequestsAgree'
    BY <2>1, <2>2 DEF BooksInv, RequestsAgree, TypeOK
  <2> QED
    BY <2>3, <2>4, <2>5 DEF BooksInv
<1>11. ASSUME NEW e \in Enforcers, Enforce(e) \/ CrashEnforcer(e) PROVE BooksInv'
  BY <1>11, BooksFrame DEF Enforce, SelectExpired, SuspendOne, CommitSuspensions, CrashEnforcer
<1>12. CASE Tick
  BY <1>12, BooksFrame DEF Tick
<1>13. CASE UNCHANGED vars
  BY <1>13, BooksFrame DEF vars
<1>14. ASSUME NEW i \in Invoices, SetInvoiceStatus(i) PROVE BooksInv'
  <2>1. /\ \A j \in Invoices \ {i} : invoice'[j] = invoice[j]
        /\ edited' = edited \cup {i}
        /\ UNCHANGED <<prompt, payment, bill, ledger, credits, handler>>
    BY <1>14 DEF SetInvoiceStatus, TypeOK
  <2>2. CreditedOnce' /\ RowsAgree' /\ RequestsAgree' /\ OneSender'
    BY <2>1 DEF BooksInv, CreditedOnce, RowsAgree, RequestsAgree, OneSender
  <2>3. BooksAgree' /\ InvoicesAgree'
    BY <2>1 DEF BooksInv, BooksAgree, InvoicesAgree
  <2> QED
    BY <2>2, <2>3 DEF BooksInv
<1> QED
  BY <1>1, <1>2, <1>3, <1>4, <1>5, <1>6, <1>7, <1>8, <1>9, <1>10, <1>11, <1>12, <1>13, <1>14
     DEF Next, Settle

LEMMA BooksInvariant == Spec => [](TypeOK /\ BooksInv)
<1>1. Init => BooksInv
  BY DEF Init, BooksInv, CreditedOnce, BooksAgree, RowsAgree, RequestsAgree, OneSender,
         InvoicesAgree, Idle
<1>2. TypeOK /\ BooksInv /\ [Next]_vars => (TypeOK /\ BooksInv)'
  BY TypeOKStep, BooksStep
<1> QED
  BY <1>1, <1>2, TypeCorrect, PTL DEF Spec

\* A payment is credited once however often, and however concurrently, its
\* success callback is served.
THEOREM CreditedOnceHolds == Spec => []CreditedOnce
BY BooksInvariant, PTL DEF BooksInv

\* Payment, invoice and transaction rows tell the same story in every state, however
\* many prompts are for one invoice; of an invoice an operator set by hand, only its
\* payments do.
THEOREM BooksAgreeHolds == Spec => []BooksAgree
BY BooksInvariant, PTL DEF BooksInv

-----------------------------------------------------------------------------
(*                        The abstract books                               *)

\* The handlers, split at their statements and dying anywhere, implement
\* Settlement: each step confirms a prompt, books a confirmed one, or is unseen.
THEOREM SettlementImplemented == Spec => ImplementsSettlement
<1> DEFINE paid == {p \in Payments : prompt[p] = "paid"}
<1>1. Init => PromisedBooks!Init
  BY DEF Init, PromisedBooks!Init
<1>2. ASSUME TypeOK, BooksInv, [Next]_vars
      PROVE  [PromisedBooks!Next]_(PromisedBooks!settlementVars)
  <2> USE DEF netVars, rowVars, histVars
  <2> DEFINE hidden == UNCHANGED <<prompt, ledger>>
  <2>1. hidden => UNCHANGED PromisedBooks!settlementVars
    BY DEF PromisedBooks!settlementVars
  <2>2. ASSUME NEW p \in Payments, Answer(p)
        PROVE  PromisedBooks!Confirm(p) \/ (paid' = paid /\ ledger' = ledger)
    <3>1. PICK outcome \in {"paid", "declined"} : prompt' = [prompt EXCEPT ![p] = outcome]
      BY <2>2 DEF Answer
    <3>2. prompt[p] = "sent" /\ ledger' = ledger
      BY <2>2 DEF Answer
    <3>3. CASE outcome = "paid"
      <4>1. paid' = paid \cup {p}
        BY <1>2, <3>1, <3>2, <3>3 DEF TypeOK
      <4> QED
        BY <3>2, <4>1 DEF PromisedBooks!Confirm
    <3>4. CASE outcome = "declined"
      BY <1>2, <3>1, <3>2, <3>4 DEF TypeOK
    <3> QED
      BY <3>3, <3>4
  <2>3. ASSUME NEW w \in Workers, CommitSettlement(w)
        PROVE  \E p \in Payments : PromisedBooks!Book(p)
    <3> DEFINE p == handler[w].pay
    <3>1. p \in Payments /\ p \in paid /\ p \notin ledger
      BY <1>2, <2>3 DEF CommitSettlement, SettlementWritten, BooksInv, RequestsAgree
    <3>2. ledger' = ledger \cup {p} /\ paid' = paid
      BY <2>3 DEF CommitSettlement, SettlementWritten
    <3> QED
      BY <3>1, <3>2 DEF PromisedBooks!Book
  <2>4. ASSUME NEW w \in Workers, NEW p \in Payments, StkPush(w, p)
        PROVE  paid' = paid /\ ledger' = ledger
    BY <1>2, <2>4 DEF StkPush, TypeOK
  <2>5. ASSUME NEW w \in Workers, NEW p \in Payments,
               CallbackIgnored(w, p) \/ CallbackFound(w, p)
        PROVE  hidden
    BY <2>5 DEF CallbackIgnored, CallbackFound
  <2>6. ASSUME NEW w \in Workers,
               \/ CommitPending(w) \/ MarkFailed(w) \/ LoadCustomer(w)
               \/ RollbackSettlement(w) \/ ActivationRaises(w) \/ CrashWorker(w)
        PROVE  hidden
    BY <2>6 DEF CommitPending, MarkFailed, LoadCustomer, RollbackSettlement, ActivationRaises,
                CrashWorker
  <2>7. ASSUME NEW e \in Enforcers, Enforce(e) \/ CrashEnforcer(e) PROVE hidden
    BY <2>7 DEF Enforce, SelectExpired, SuspendOne, CommitSuspensions, CrashEnforcer
  <2>8. Tick \/ UNCHANGED vars \/ (\E i \in Invoices : SetInvoiceStatus(i)) => hidden
    BY DEF Tick, vars, SetInvoiceStatus
  <2> QED
    BY <1>2, <2>1, <2>2, <2>3, <2>4, <2>5, <2>6, <2>7, <2>8
       DEF Next, Settle, PromisedBooks!Next, PromisedBooks!settlementVars
<1> QED
  BY <1>1, <1>2, BooksInvariant, PTL DEF Spec, ImplementsSettlement, PromisedBooks!Spec

-----------------------------------------------------------------------------
(*                     Credentials and subscriptions                       *)

\* Only three steps write a customer or its credentials.
LEMMA CustomerFrame ==
    ASSUME [Next]_vars,
           \A w \in Workers : ~CommitSettlement(w), \A e \in Enforcers : ~CommitSuspensions(e)
    PROVE  UNCHANGED <<customer, radius, ledger>>
BY DEF Next, Settle, Enforce, vars, netVars, rowVars, histVars, StkPush, CallbackIgnored, CallbackFound,
       CommitPending, MarkFailed, LoadCustomer, RollbackSettlement, ActivationRaises,
       CrashWorker, Answer, SetInvoiceStatus, SelectExpired, SuspendOne, CrashEnforcer, Tick

\* What a settlement writes, in terms of what the request loaded.
LEMMA SettlementWrites ==
    ASSUME TypeOK, NEW w \in Workers, CommitSettlement(w)
    PROVE  LET c == PayerOf[handler[w].pay]
               end == SubscriptionEnd(handler[w].at, handler[w].end)
           IN  /\ handler[w].pay \in Payments /\ c \in Customers
               /\ end \in Nat /\ end > 0 /\ end >= handler[w].end + Period
               /\ customer'[c].end = end /\ radius'[c] = end
               /\ \A d \in Customers \ {c} : customer'[d] = customer[d] /\ radius'[d] = radius[d]
               /\ ledger' = ledger \cup {handler[w].pay}
<1> DEFINE p == handler[w].pay
           c == PayerOf[p]
           end == SubscriptionEnd(handler[w].at, handler[w].end)
           after == ActivatedCustomer(c, handler[w])
<1>1. p \in Payments /\ c \in Customers /\ handler[w].at \in Nat /\ handler[w].end \in Nat
  BY ServingWorker, PaymentsAssumption DEF CommitSettlement, SettlementWritten
<1>2. end \in Nat /\ end > 0 /\ end >= handler[w].end + Period
  <2>1. end \in Nat /\ end > handler[w].at /\ end >= handler[w].end + Period
    <3> HIDE DEF p, c, after
    <3> QED
      BY <1>1, SubscriptionEndIsLater, Zenon
  <2> QED
    BY <1>1, <2>1
<1>3. after.end = end
  BY DEF ActivatedCustomer
<1>4. customer' = [customer EXCEPT ![c] = after] /\ radius' = [radius EXCEPT ![c] = after.end]
  BY <1>3 DEF CommitSettlement, SettlementWritten
<1>5. /\ customer'[c].end = end /\ radius'[c] = end
      /\ \A d \in Customers \ {c} : customer'[d] = customer[d] /\ radius'[d] = radius[d]
  BY <1>1, <1>3, <1>4 DEF TypeOK
<1>6. ledger' = ledger \cup {p}
  BY DEF CommitSettlement, SettlementWritten
<1> QED
  BY <1>1, <1>2, <1>5, <1>6

\* What the end of an enforcement run writes.
LEMMA SuspensionsWrite ==
    ASSUME TypeOK, NEW e \in Enforcers, CommitSuspensions(e), NEW c \in Customers
    PROVE  /\ customer'[c].end = customer[c].end
           /\ \/ radius'[c] = NoRow /\ customer'[c].status = "SUSPENDED"
              \/ radius'[c] = radius[c] /\ customer'[c] = customer[c]
           /\ ledger' = ledger
BY DEF CommitSuspensions, TypeOK, AccessState

\* FreeRADIUS and the billing side agree on when the subscription ends,
\* whichever of a settlement and an enforcement run commits last.
THEOREM CredentialsMatch == Spec => []CredentialsMatchSubscription
<1>1. Init => CredentialsMatchSubscription
  BY DEF Init, CredentialsMatchSubscription, NoRow, NoEnd
<1>2. ASSUME TypeOK, CredentialsMatchSubscription, [Next]_vars
      PROVE  CredentialsMatchSubscription'
  <2>1. CASE \E w \in Workers : CommitSettlement(w)
    BY <1>2, <2>1, SettlementWrites DEF CredentialsMatchSubscription
  <2>2. CASE \E e \in Enforcers : CommitSuspensions(e)
    BY <1>2, <2>2, SuspensionsWrite DEF CredentialsMatchSubscription, NoRow
  <2>3. CASE UNCHANGED <<customer, radius, ledger>>
    BY <1>2, <2>3 DEF CredentialsMatchSubscription, NoRow
  <2> QED
    BY <1>2, <2>1, <2>2, <2>3, CustomerFrame
<1> QED
  BY <1>1, <1>2, TypeCorrect, PTL DEF Spec

\* No step but a suspension takes a subscriber's credentials away.
THEOREM CredentialsKept == Spec => OnlySuspensionRemovesCredentials
<1>1. ASSUME TypeOK, [Next]_vars, NEW c \in Customers, radius[c] # NoRow, radius'[c] = NoRow
      PROVE  customer'[c].status = "SUSPENDED"
  <2>1. CASE \E w \in Workers : CommitSettlement(w)
    BY <1>1, <2>1, SettlementWrites DEF NoRow
  <2>2. CASE \E e \in Enforcers : CommitSuspensions(e)
    BY <1>1, <2>2, SuspensionsWrite
  <2>3. CASE UNCHANGED <<customer, radius, ledger>>
    BY <1>1, <2>3
  <2> QED
    BY <1>1, <2>1, <2>2, <2>3, CustomerFrame
<1>2. TypeOK /\ [Next]_vars =>
        [\A c \in Customers :
            radius[c] # NoRow /\ radius'[c] = NoRow => customer'[c].status = "SUSPENDED"]_vars
  BY <1>1
<1> QED
  BY <1>2, TypeCorrect, PTL DEF Spec, OnlySuspensionRemovesCredentials

-----------------------------------------------------------------------------
(*                     Settlements side by side                            *)

\* Nothing has moved the subscription's end since the request loaded it, unless
\* another settlement overtook it.
LoadedIsCurrent ==
    \A w \in Workers :
        handler[w].pc = "crediting" /\ handler[w].pay \notin overtaken
            => handler[w].end = customer[PayerOf[handler[w].pay]].end

\* The row lock of the payment: two requests never credit the same one.
OneCreditor ==
    \A v, w \in Workers :
        /\ handler[v].pc = "crediting" /\ handler[w].pc = "crediting"
        /\ handler[v].pay = handler[w].pay
        => v = w

\* A request that is crediting after a step other than LoadCustomer was so before.
LEMMA NotLoaded ==
    ASSUME TypeOK, [Next]_vars, \A w \in Workers : ~LoadCustomer(w),
           NEW w \in Workers, handler'[w].pc = "crediting"
    PROVE  handler'[w] = handler[w]
<1> USE DEF netVars, rowVars, histVars
<1>1. CASE \E v \in Workers : \/ CommitPending(v) \/ MarkFailed(v) \/ RollbackSettlement(v)
                              \/ ActivationRaises(v) \/ CrashWorker(v) \/ CommitSettlement(v)
  BY <1>1 DEF CommitPending, MarkFailed, RollbackSettlement, ActivationRaises, CrashWorker,
              CommitSettlement, SettlementWritten, TypeOK, Idle
<1>2. CASE \E v \in Workers, p \in Payments : \/ StkPush(v, p) \/ CallbackIgnored(v, p)
                                              \/ CallbackFound(v, p)
  <2>1. PICK v \in Workers, p \in Payments : \/ StkPush(v, p) \/ CallbackIgnored(v, p)
                                             \/ CallbackFound(v, p)
    BY <1>2
  <2>2. CASE \E pc \in {"pushed", "failing", "settling"} :
                handler' = [handler EXCEPT ![v] = [Idle EXCEPT !.pc = pc, !.pay = p]]
    BY <2>2 DEF TypeOK, Idle
  <2>3. CASE handler' = handler
    BY <2>3
  <2> QED
    BY <2>1, <2>2, <2>3 DEF StkPush, CallbackIgnored, CallbackFound
<1>3. CASE handler' = handler
  BY <1>3
<1> QED
  BY <1>1, <1>2, <1>3 DEF Next, Settle, Enforce, vars, Answer, SetInvoiceStatus, SelectExpired,
     SuspendOne, CommitSuspensions, CrashEnforcer, Tick

LEMMA OneCreditorStep ==
    ASSUME TypeOK, OneCreditor, [Next]_vars
    PROVE  OneCreditor'
<1>1. CASE \E w \in Workers : LoadCustomer(w)
  <2>1. PICK w \in Workers : LoadCustomer(w)
    BY <1>1
  <2>2. /\ handler'[w].pay = handler[w].pay /\ ~PaymentLocked(handler[w].pay)
        /\ \A v \in Workers \ {w} : handler'[v] = handler[v]
    BY <2>1, ServingWorker DEF LoadCustomer, TypeOK
  <2> QED
    BY <2>2 DEF OneCreditor, PaymentLocked
<1>2. CASE \A w \in Workers : ~LoadCustomer(w)
  BY <1>2, NotLoaded DEF OneCreditor
<1> QED
  BY <1>1, <1>2

\* What a step leaves in the set of the overtaken.
LEMMA OvertakenFrame ==
    ASSUME [Next]_vars,
           \A w \in Workers : ~CommitSettlement(w), \A w \in Workers : ~LoadCustomer(w)
    PROVE  overtaken' = overtaken
BY DEF Next, Settle, Enforce, vars, netVars, rowVars, histVars, StkPush, CallbackIgnored,
       CallbackFound, CommitPending, MarkFailed, RollbackSettlement, ActivationRaises,
       CrashWorker, Answer, SetInvoiceStatus, SelectExpired, SuspendOne, CommitSuspensions,
       CrashEnforcer, Tick

LEMMA LoadedIsCurrentStep ==
    ASSUME TypeOK, OneCreditor, LoadedIsCurrent, [Next]_vars
    PROVE  LoadedIsCurrent'
<1> USE DEF netVars, rowVars, histVars
<1>1. CASE \E w \in Workers : CommitSettlement(w)
  <2>1. PICK w \in Workers : CommitSettlement(w)
    BY <1>1
  <2> DEFINE p == handler[w].pay
  <2>2. /\ handler[w].pc = "crediting" /\ handler' = [handler EXCEPT ![w] = Idle]
        /\ overtaken' = (overtaken \ {p}) \cup CreditedBeside(w, p)
    BY <2>1 DEF CommitSettlement, SettlementWritten
  <2>3. ASSUME NEW v \in Workers, handler'[v].pc = "crediting", handler'[v].pay \notin overtaken'
        PROVE  handler'[v].end = customer'[PayerOf[handler'[v].pay]].end
    <3>1. v # w /\ handler'[v] = handler[v]
      BY <2>2, <2>3 DEF TypeOK, Idle
    <3>2. handler[v].pay # p /\ handler[v].pay \in Payments
      BY <2>2, <2>3, <3>1, ServingWorker DEF OneCreditor
    <3>3. PayerOf[handler[v].pay] # PayerOf[p] /\ handler[v].pay \notin overtaken
      BY <2>2, <2>3, <3>1, <3>2 DEF CreditedBeside
    <3>4. PayerOf[handler[v].pay] \in Customers
      BY <3>2, PaymentsAssumption
    <3>5. customer'[PayerOf[handler[v].pay]] = customer[PayerOf[handler[v].pay]]
      BY <2>1, <3>3, <3>4, SettlementWrites
    <3> QED
      BY <2>3, <3>1, <3>3, <3>5 DEF LoadedIsCurrent
  <2> QED
    BY <2>3 DEF LoadedIsCurrent
<1>2. CASE \E w \in Workers : LoadCustomer(w)
  <2>1. PICK w \in Workers : LoadCustomer(w)
    BY <1>2
  <2>2. /\ handler'[w].pay = handler[w].pay
        /\ handler'[w].end = customer[PayerOf[handler[w].pay]].end
        /\ \A v \in Workers \ {w} : handler'[v] = handler[v]
        /\ customer' = customer /\ overtaken' = overtaken \ {handler[w].pay}
        /\ ~PaymentLocked(handler[w].pay)
    BY <2>1, ServingWorker DEF LoadCustomer, TypeOK
  <2>3. \A v \in Workers \ {w} : handler[v].pc = "crediting" => handler[v].pay # handler[w].pay
    BY <2>2 DEF PaymentLocked
  <2> QED
    BY <2>2, <2>3 DEF LoadedIsCurrent
<1>3. CASE \E e \in Enforcers : CommitSuspensions(e)
  <2>1. handler' = handler /\ overtaken' = overtaken
    BY <1>3 DEF CommitSuspensions
  <2>2. ASSUME NEW w \in Workers, handler[w].pc = "crediting", handler[w].pay \notin overtaken
        PROVE  handler[w].end = customer'[PayerOf[handler[w].pay]].end
    <3>1. PayerOf[handler[w].pay] \in Customers
      BY <2>2, ServingWorker, PaymentsAssumption
    <3> QED
      BY <1>3, <2>2, <3>1, SuspensionsWrite DEF LoadedIsCurrent
  <2> QED
    BY <2>1, <2>2 DEF LoadedIsCurrent
<1>4. ASSUME \A w \in Workers : ~CommitSettlement(w), \A w \in Workers : ~LoadCustomer(w),
             \A e \in Enforcers : ~CommitSuspensions(e)
      PROVE  LoadedIsCurrent'
  <2>1. customer' = customer /\ overtaken' = overtaken
    BY <1>4, CustomerFrame, OvertakenFrame
  <2>2. \A w \in Workers : handler'[w].pc = "crediting" => handler'[w] = handler[w]
    BY <1>4, NotLoaded
  <2> QED
    BY <2>1, <2>2 DEF LoadedIsCurrent
<1> QED
  BY <1>1, <1>2, <1>3, <1>4

\* A payment adds its whole period to what the subscriber has, however many workers
\* serve callbacks, however often these are posted and whatever enforcement runs do:
\* only a second settlement of the same subscriber that commits between the load and
\* the commit of this one can take from it.  PaymentExtends shows that it can.
THEOREM PaymentAddsPeriodHolds == Spec => PaymentAddsPeriod
<1> DEFINE Inv == TypeOK /\ OneCreditor /\ LoadedIsCurrent
<1>1. Init => Inv
  BY TypeOKInit DEF Init, OneCreditor, LoadedIsCurrent, Idle
<1>2. Inv /\ [Next]_vars => Inv'
  BY TypeOKStep, OneCreditorStep, LoadedIsCurrentStep
<1>3. ASSUME Inv, [Next]_vars, NEW p \in (ledger' \ ledger) \ overtaken
      PROVE  customer'[PayerOf[p]].end >= customer[PayerOf[p]].end + Period
  <2>1. CASE \E w \in Workers : CommitSettlement(w)
    <3>1. PICK w \in Workers : CommitSettlement(w)
      BY <2>1
    <3>2. p = handler[w].pay
      BY <1>3, <3>1, SettlementWrites
    <3>3. handler[w].end = customer[PayerOf[p]].end
      BY <1>3, <3>1, <3>2 DEF LoadedIsCurrent, CommitSettlement
    <3> QED
      BY <1>3, <3>1, <3>2, <3>3, SettlementWrites
  <2>2. CASE \E e \in Enforcers : CommitSuspensions(e)
    BY <1>3, <2>2 DEF CommitSuspensions
  <2>3. CASE UNCHANGED <<customer, radius, ledger>>
    BY <1>3, <2>3
  <2> QED
    BY <1>3, <2>1, <2>2, <2>3, CustomerFrame
<1>4. Inv /\ [Next]_vars =>
        [\A p \in (ledger' \ ledger) \ overtaken :
            customer'[PayerOf[p]].end >= customer[PayerOf[p]].end + Period]_vars
  BY <1>3
<1> QED
  BY <1>1, <1>2, <1>4, PTL DEF Spec, PaymentAddsPeriod
=============================================================================
