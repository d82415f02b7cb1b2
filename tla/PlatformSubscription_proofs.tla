--------------------- MODULE PlatformSubscription_proofs ---------------------
(***************************************************************************)
(* Proofs about PlatformSubscription for any tenants, prompts and workers: *)
(* types, that an invoice is paid only by a payment confirmed on the       *)
(* phone, and, where one process runs the billing command, that a tenant   *)
(* has one invoice to pay and, where a period is also longer than the      *)
(* lead, that every period paid for is in the expiry.                      *)
(***************************************************************************)
EXTENDS PlatformSubscription, FiniteSetTheorems, TLAPS

Row == [status : {"pending", "paid"}, prompt : Prompts \cup {NoPrompt}]

Request ==
    [pc : {"idle", "pushed", "clearing", "settling", "extending"},
     prompt : Prompts \cup {NoPrompt}, invoice : DOMAIN invoice \cup {NoInvoice},
     at : Nat, expires : Nat]

RunState ==
    [running : BOOLEAN, todo : SUBSET Tenants, seen : [Tenants -> Nat],
     unbilled : SUBSET Tenants, new : SUBSET Numbers]

\* TypeOK with the domains of the functions, with finitely many rows, and with the
\* request of a busy worker named.
Typed ==
    /\ now \in Nat
    /\ expires \in [Tenants -> Nat]
    /\ DOMAIN invoice \subseteq Numbers /\ IsFiniteSet(DOMAIN invoice)
    /\ invoice \in [DOMAIN invoice -> Row]
    /\ prompt \in [Prompts -> {"none", "sent", "paid", "declined"}]
    /\ charged \in [Prompts -> DOMAIN invoice \cup {NoInvoice}]
    /\ deliveries \in [Prompts -> Nat]
    /\ handler \in [Workers -> Request]
    /\ \A w \in Workers :
          handler[w].pc # "idle" => handler[w].invoice \in DOMAIN invoice /\ handler[w].prompt \in Prompts
    /\ run \in [Runs -> RunState]
    /\ \A r \in Runs : IsFiniteSet(run[r].new)
    /\ bought \in [Tenants -> Nat]
    /\ acked \subseteq Prompts

LEMMA TypedImplies == Typed => TypeOK
  BY PlatformAssumption DEF Typed, TypeOK, Row, Request, RunState

LEMMA IdleTyped == Idle \in Request /\ Idle.pc = "idle"
  BY DEF Idle, Request, NoExpiry

LEMMA NoRunTyped == NoRun \in RunState /\ NoRun.new = {} /\ IsFiniteSet(NoRun.new)
  BY FS_EmptySet DEF NoRun, RunState, NoExpiry

LEMMA TypedInit == Init => Typed
<1> SUFFICES ASSUME Init PROVE Typed
  OBVIOUS
<1>1. DOMAIN invoice = {} /\ IsFiniteSet(DOMAIN invoice)
  BY FS_EmptySet DEF Init
<1>2. handler \in [Workers -> Request] /\ \A w \in Workers : handler[w].pc = "idle"
  BY IdleTyped DEF Init
<1>3. run \in [Runs -> RunState] /\ \A r \in Runs : IsFiniteSet(run[r].new)
  BY NoRunTyped DEF Init
<1>4. invoice \in [DOMAIN invoice -> Row]
  BY DEF Init
<1> QED
  BY <1>1, <1>2, <1>3, <1>4 DEF Init, Typed, NoExpiry

-----------------------------------------------------------------------------
\* A request that is taken up has all its fields.
LEMMA FreshRequest ==
    ASSUME Typed, NEW pc \in {"pushed", "settling", "clearing"}, NEW q \in Prompts,
           NEW i \in DOMAIN invoice, NEW at \in Nat
    PROVE  /\ [Idle EXCEPT !.pc = pc, !.prompt = q, !.invoice = i] \in Request
           /\ [Idle EXCEPT !.pc = pc, !.prompt = q, !.invoice = i, !.at = at] \in Request
BY DEF Idle, Request, NoExpiry

\* Writing a row that exists leaves the numbers, and the requests their types.
LEMMA RowWritten ==
    ASSUME Typed, NEW i \in DOMAIN invoice, NEW row \in Row,
           invoice' = [invoice EXCEPT ![i] = row]
    PROVE  /\ DOMAIN invoice' = DOMAIN invoice
           /\ invoice' \in [DOMAIN invoice -> Row]
           /\ Request' = Request
BY DEF Typed, Request

LEMMA TypedStep == Typed /\ [Next]_vars => Typed'
<1> SUFFICES ASSUME Typed, [Next]_vars PROVE Typed'
  OBVIOUS
<1> USE DEF netVars, rowVars
<1>1. ASSUME NEW t \in Tenants, StartTrial(t) PROVE Typed'
  BY <1>1, PlatformAssumption DEF StartTrial, Typed, Request
<1>2. ASSUME NEW r \in Runs, SelectCandidates(r) PROVE Typed'
  <2>1. [NoRun EXCEPT !.running = TRUE, !.todo = Candidates, !.seen = expires] \in RunState
    BY NoRunTyped DEF Typed, RunState, Candidates
  <2>2. run' \in [Runs -> RunState] /\ \A s \in Runs : IsFiniteSet(run'[s].new)
    BY <1>2, <2>1, NoRunTyped DEF SelectCandidates, Typed, NoRun
  <2> QED
    BY <1>2, <2>2 DEF SelectCandidates, Typed, Request
<1>3. ASSUME NEW r \in Runs, NEW t \in Tenants, CheckOpenInvoice(r, t) PROVE Typed'
  <2> DEFINE found == IF Pending(t) = {} THEN {t} ELSE {}
  <2>1. run[r] \in RunState /\ found \subseteq Tenants
    BY DEF Typed
  <2>2. [run[r] EXCEPT !.todo = @ \ {t}, !.unbilled = found] \in RunState
    <3> HIDE DEF found
    <3> QED
      BY <2>1 DEF RunState
  <2>3. run' = [run EXCEPT ![r] = [run[r] EXCEPT !.todo = @ \ {t}, !.unbilled = found]]
    BY <1>3 DEF CheckOpenInvoice
  <2>4. run' \in [Runs -> RunState] /\ \A s \in Runs : run'[s].new = run[s].new
    <3> HIDE DEF found
    <3> QED
      BY <2>1, <2>2, <2>3 DEF Typed, RunState
  <2> QED
    BY <1>3, <2>4 DEF CheckOpenInvoice, Typed, Request
<1>4. ASSUME NEW r \in Runs, NEW t \in Tenants, IssueInvoice(r, t) PROVE Typed'
  <2>1. PICK i \in Number(t, run[r].seen[t]) :
            run' = [run EXCEPT ![r].unbilled = {}, ![r].new = @ \cup {i}]
    BY <1>4 DEF IssueInvoice
  <2>2. run[r].seen[t] \in Nat
    BY DEF Typed, RunState
  <2>3. i \in Numbers
    BY <2>1, <2>2 DEF Number, Numbers
  <2>4. IsFiniteSet(run[r].new \cup {i})
    BY FS_AddElement DEF Typed
  <2>5. run[r] \in RunState
    BY DEF Typed
  <2>6. [run[r] EXCEPT !.unbilled = {}, !.new = @ \cup {i}] \in RunState
    BY <2>3, <2>5 DEF RunState
  <2>7. run' = [run EXCEPT ![r] = [run[r] EXCEPT !.unbilled = {}, !.new = @ \cup {i}]]
    BY <2>1
  <2>8. run' \in [Runs -> RunState]
    BY <2>6, <2>7 DEF Typed
  <2>9. \A s \in Runs : IsFiniteSet(run'[s].new)
    BY <2>4, <2>5, <2>7 DEF Typed, RunState
  <2> QED
    BY <1>4, <2>8, <2>9 DEF IssueInvoice, Typed, Request
<1>5. ASSUME NEW r \in Runs, CommitRun(r) PROVE Typed'
  <2>1. run' \in [Runs -> RunState] /\ \A s \in Runs : IsFiniteSet(run'[s].new)
    BY <1>5, NoRunTyped DEF CommitRun, Typed
  <2>2. run[r].new \subseteq Numbers /\ IsFiniteSet(run[r].new)
    BY DEF Typed, RunState
  <2>3. CASE run[r].new \cap DOMAIN invoice = {}
    <3>1. DOMAIN invoice' = DOMAIN invoice \cup run[r].new
      BY <1>5, <2>3 DEF CommitRun
    <3>2. IsFiniteSet(DOMAIN invoice') /\ DOMAIN invoice' \subseteq Numbers
      <4>1. IsFiniteSet(DOMAIN invoice) /\ DOMAIN invoice \subseteq Numbers
        BY DEF Typed
      <4>2. IsFiniteSet(DOMAIN invoice \cup run[r].new)
        BY <2>2, <4>1, FS_Union
      <4> QED
        BY <2>2, <3>1, <4>1, <4>2
    <3>3. invoice' \in [DOMAIN invoice' -> Row]
      BY <1>5, <2>3, <3>1 DEF CommitRun, Typed, Row
    <3>4. Request \subseteq Request'
      BY <3>1 DEF Request
    <3>5. charged' \in [Prompts -> DOMAIN invoice' \cup {NoInvoice}]
      BY <1>5, <3>1 DEF CommitRun, Typed
    <3>6. handler' \in [Workers -> Request']
      BY <1>5, <3>4 DEF CommitRun, Typed
    <3> QED
      BY <1>5, <2>1, <3>1, <3>2, <3>3, <3>5, <3>6 DEF CommitRun, Typed
  <2>4. CASE run[r].new \cap DOMAIN invoice # {}
    BY <1>5, <2>1, <2>4 DEF CommitRun, Typed, Request
  <2> QED
    BY <2>3, <2>4
<1>6. ASSUME NEW r \in Runs, CrashRun(r) PROVE Typed'
  <2>1. run' \in [Runs -> RunState] /\ \A s \in Runs : IsFiniteSet(run'[s].new)
    BY <1>6, NoRunTyped DEF CrashRun, Typed
  <2> QED
    BY <1>6, <2>1 DEF CrashRun, Typed, Request
<1>7. ASSUME NEW w \in Workers, NEW q \in Prompts, NEW i \in DOMAIN invoice, StkPush(w, q, i)
      PROVE Typed'
  <2>1. [Idle EXCEPT !.pc = "pushed", !.prompt = q, !.invoice = i] \in Request
    BY FreshRequest DEF Typed
  <2>2. handler' \in [Workers -> Request]
    BY <1>7, <2>1 DEF StkPush, Typed
  <2>3. \A v \in Workers : handler'[v].pc # "idle" =>
            handler'[v].invoice \in DOMAIN invoice /\ handler'[v].prompt \in Prompts
    BY <1>7 DEF StkPush, Typed, Idle
  <2> QED
    BY <1>7, <2>2, <2>3 DEF StkPush, Typed, Request
<1>8. ASSUME NEW w \in Workers, NEW q \in Prompts, CallbackIgnored(w, q) PROVE Typed'
  BY <1>8 DEF CallbackIgnored, Posted, Typed, Request
<1>9. ASSUME NEW w \in Workers, NEW q \in Prompts, CallbackFound(w, q) PROVE Typed'
  <2>1. PICK i \in Matching(q) :
            \/ handler' = [handler EXCEPT ![w] =
                  [Idle EXCEPT !.pc = "settling", !.prompt = q, !.invoice = i, !.at = now]]
            \/ handler' = [handler EXCEPT ![w] =
                  [Idle EXCEPT !.pc = "clearing", !.prompt = q, !.invoice = i]]
    BY <1>9 DEF CallbackFound
  <2>2. i \in DOMAIN invoice /\ now \in Nat
    BY DEF Matching, Typed
  <2>3. PICK h : /\ handler' = [handler EXCEPT ![w] = h]
                 /\ h \in Request /\ h.invoice \in DOMAIN invoice /\ h.prompt \in Prompts
    <3> DEFINE settling == [Idle EXCEPT !.pc = "settling", !.prompt = q, !.invoice = i, !.at = now]
               clearing == [Idle EXCEPT !.pc = "clearing", !.prompt = q, !.invoice = i]
    <3>1. settling \in Request /\ clearing \in Request
      BY <2>2, FreshRequest
    <3>2. /\ settling.invoice = i /\ settling.prompt = q
          /\ clearing.invoice = i /\ clearing.prompt = q
      BY DEF Idle
    <3>3. handler' = [handler EXCEPT ![w] = settling] \/ handler' = [handler EXCEPT ![w] = clearing]
      BY <2>1
    <3> HIDE DEF settling, clearing
    <3> QED
      BY <2>2, <3>1, <3>2, <3>3
  <2>4. /\ handler' \in [Workers -> Request]
        /\ \A v \in Workers : handler'[v].pc # "idle" =>
              handler'[v].invoice \in DOMAIN invoice /\ handler'[v].prompt \in Prompts
    BY <2>3 DEF Typed
  <2>5. deliveries' \in [Prompts -> Nat]
    BY <1>9 DEF CallbackFound, Posted, Typed
  <2> QED
    BY <1>9, <2>4, <2>5 DEF CallbackFound, Typed, Request
<1>10. ASSUME NEW w \in Workers, Settle(w) PROVE Typed'
  <2> DEFINE i == handler[w].invoice
  <2>1. i \in DOMAIN invoice /\ handler[w].prompt \in Prompts
    BY <1>10 DEF Settle, CommitPrompt, ClearPrompt, LoadTenant, CommitExtension, Typed
  <2>2. i.tenant \in Tenants /\ invoice[i] \in Row
    BY <2>1 DEF Typed, Numbers
  <2>3. CASE CommitPrompt(w)
    <3>1. [invoice[i] EXCEPT !.prompt = handler[w].prompt] \in Row
      BY <2>1, <2>2 DEF Row
    <3>2. DOMAIN invoice' = DOMAIN invoice /\ invoice' \in [DOMAIN invoice -> Row] /\ Request' = Request
      BY <2>1, <2>3, <3>1, RowWritten DEF CommitPrompt
    <3> QED
      BY <2>3, <3>2, IdleTyped DEF CommitPrompt, Typed
  <2>4. CASE ClearPrompt(w)
    <3>1. [invoice[i] EXCEPT !.prompt = NoPrompt] \in Row
      BY <2>2 DEF Row
    <3>2. DOMAIN invoice' = DOMAIN invoice /\ invoice' \in [DOMAIN invoice -> Row] /\ Request' = Request
      BY <2>1, <2>4, <3>1, RowWritten DEF ClearPrompt
    <3> QED
      BY <2>4, <3>2, IdleTyped DEF ClearPrompt, Typed
  <2>5. CASE LoadTenant(w)
    <3>1. expires[i.tenant] \in Nat
      BY <2>2 DEF Typed
    <3>2. handler[w] \in Request
      BY DEF Typed
    <3>3. [handler[w] EXCEPT !.pc = "extending", !.expires = expires[i.tenant]] \in Request
      BY <3>1, <3>2 DEF Request
    <3>4. handler' = [handler EXCEPT ![w] =
              [handler[w] EXCEPT !.pc = "extending", !.expires = expires[i.tenant]]]
      BY <2>5 DEF LoadTenant
    <3>5. handler' \in [Workers -> Request]
      BY <3>3, <3>4 DEF Typed
    <3> QED
      BY <2>1, <2>5, <3>2, <3>4, <3>5 DEF LoadTenant, Typed, Request
  <2>6. CASE CommitExtension(w)
    <3>1. [invoice[i] EXCEPT !.status = "paid"] \in Row
      BY <2>2 DEF Row
    <3>2. DOMAIN invoice' = DOMAIN invoice /\ invoice' \in [DOMAIN invoice -> Row] /\ Request' = Request
      BY <2>1, <2>6, <3>1, RowWritten DEF CommitExtension
    <3>3. Extended(handler[w].at, handler[w].expires) \in Nat
      BY PlatformAssumption DEF Extended, Typed, Request
    <3>4. expires' \in [Tenants -> Nat] /\ bought' \in [Tenants -> Nat] /\ acked' \subseteq Prompts
      BY <2>1, <2>2, <2>6, <3>3 DEF CommitExtension, Typed
    <3> QED
      BY <2>6, <3>2, <3>4, IdleTyped DEF CommitExtension, Typed
  <2> QED
    BY <1>10, <2>3, <2>4, <2>5, <2>6 DEF Settle
<1>11. ASSUME NEW w \in Workers, CrashWorker(w) PROVE Typed'
  BY <1>11, IdleTyped DEF CrashWorker, Typed, Request
<1>12. ASSUME NEW q \in Prompts, Answer(q) PROVE Typed'
  BY <1>12 DEF Answer, Typed, Request
<1>13. CASE Tick
  BY <1>13 DEF Tick, Typed, Request
<1>14. CASE UNCHANGED vars
  BY <1>14 DEF vars, Typed, Request
<1> QED
  BY <1>1, <1>2, <1>3, <1>4, <1>5, <1>6, <1>7, <1>8, <1>9, <1>10, <1>11, <1>12, <1>13, <1>14
  DEF Next, Bill

\* The rows, prompts, requests and runs keep their types.
THEOREM PlatformTypeCorrect == Spec => []TypeOK
<1>1. Spec => []Typed
  BY TypedInit, TypedStep, PTL DEF Spec
<1> QED
  BY <1>1, TypedImplies, PTL

-----------------------------------------------------------------------------
(*                     A paid invoice was confirmed                        *)

\* What the phone, the rows and the requests in flight agree on: a checkout request
\* is opened for one invoice, the row and the workers that know it mean that one, and
\* only a confirmed one is settling.
PromptsAgree ==
    /\ \A q \in Prompts : prompt[q] = "none" => charged[q] = NoInvoice
    /\ \A i \in DOMAIN invoice : invoice[i].prompt \in Prompts => charged[invoice[i].prompt] = i
    /\ \A w \in Workers :
          /\ handler[w].pc \in {"pushed", "settling", "extending"}
                => charged[handler[w].prompt] = handler[w].invoice
          /\ handler[w].pc \in {"settling", "extending"} => prompt[handler[w].prompt] = "paid"

Confirmed(i) == \E q \in Prompts : charged[q] = i /\ prompt[q] = "paid"

\* The two halves of PaidIsConfirmed.
PaidConfirmed == \A i \in DOMAIN invoice : invoice[i].status = "paid" => Confirmed(i)
PaidBought == \A t \in Tenants : Cardinality(Paid(t)) <= bought[t]

ConfirmedInv == Typed /\ PromptsAgree /\ PaidConfirmed /\ PaidBought

LEMMA ConfirmedImplies == ConfirmedInv => PaidIsConfirmed
<1> SUFFICES ASSUME ConfirmedInv, NEW t \in Tenants
             PROVE  /\ bought[t] >= Cardinality(Paid(t))
                    /\ \A i \in Paid(t) : \E q \in Prompts : charged[q] = i /\ prompt[q] = "paid"
  BY DEF PaidIsConfirmed
<1>1. \A i \in Paid(t) : Confirmed(i)
  BY DEF ConfirmedInv, PaidConfirmed, Paid
<1>2. Cardinality(Paid(t)) \in Nat
  <2>1. IsFiniteSet(DOMAIN invoice) /\ Paid(t) \subseteq DOMAIN invoice
    BY DEF ConfirmedInv, Typed, Paid
  <2> QED
    BY <2>1, FS_Subset, FS_CardinalityType
<1>3. Cardinality(Paid(t)) <= bought[t] /\ bought[t] \in Nat
  BY DEF ConfirmedInv, PaidBought, Typed
<1> QED
  BY <1>1, <1>2, <1>3 DEF Confirmed

\* Where the statuses stay what they are, the paid invoices do.
LEMMA SamePaid ==
    ASSUME DOMAIN invoice' = DOMAIN invoice,
           \A i \in DOMAIN invoice : invoice'[i].status = invoice[i].status
    PROVE  \A t : Paid(t)' = Paid(t)
BY DEF Paid

\* A prompt that is sent opens a checkout request no row and no worker knows.
LEMMA PushedIsNew ==
    ASSUME Typed, PromptsAgree, NEW q \in Prompts, prompt[q] = "none"
    PROVE  /\ \A i \in DOMAIN invoice : charged[q] # i /\ invoice[i].prompt # q
           /\ \A w \in Workers : handler[w].pc \in {"pushed", "settling", "extending"}
                                    => handler[w].prompt # q
<1>1. charged[q] = NoInvoice /\ NoInvoice \notin DOMAIN invoice
  BY PlatformAssumption DEF PromptsAgree, Typed
<1>2. \A w \in Workers : handler[w].pc \in {"pushed", "settling", "extending"}
          => handler[w].invoice \in DOMAIN invoice
  BY DEF Typed
<1> QED
  BY <1>1, <1>2 DEF PromptsAgree

LEMMA ConfirmedInit == Init => ConfirmedInv
<1> SUFFICES ASSUME Init PROVE ConfirmedInv
  OBVIOUS
<1>1. Typed
  BY TypedInit
<1>2. DOMAIN invoice = {} /\ \A w \in Workers : handler[w].pc = "idle"
  BY IdleTyped DEF Init
<1>3. PromptsAgree
  BY <1>2 DEF Init, PromptsAgree
<1>4. PaidConfirmed
  BY <1>2 DEF PaidConfirmed
<1>5. PaidBought
  <2>1. \A t \in Tenants : Paid(t) = {}
    BY <1>2 DEF Paid
  <2>2. Cardinality({}) = 0
    BY FS_EmptySet
  <2>3. \A t \in Tenants : bought[t] = 0
    BY DEF Init
  <2>4. ASSUME NEW t \in Tenants PROVE Cardinality(Paid(t)) <= bought[t]
    <3>1. Cardinality(Paid(t)) = 0
      BY <2>1, <2>2
    <3> QED
      BY <2>3, <3>1
  <2> QED
    BY <2>4 DEF PaidBought
<1> QED
  BY <1>1, <1>3, <1>4, <1>5 DEF ConfirmedInv

LEMMA ConfirmedStep == ConfirmedInv /\ [Next]_vars => ConfirmedInv'
<1> SUFFICES ASSUME ConfirmedInv, [Next]_vars PROVE ConfirmedInv'
  OBVIOUS
<1> USE DEF netVars, rowVars
<1>t. Typed /\ Typed' /\ PromptsAgree /\ PaidConfirmed /\ PaidBought
  BY TypedStep DEF ConfirmedInv
<1> SUFFICES PromptsAgree' /\ PaidConfirmed' /\ PaidBought'
  BY <1>t DEF ConfirmedInv
<1>1. ASSUME UNCHANGED <<invoice, prompt, charged, bought>>, handler' = handler
      PROVE  PromptsAgree' /\ PaidConfirmed' /\ PaidBought'
  BY <1>t, <1>1 DEF PromptsAgree, PaidConfirmed, Confirmed, PaidBought, Paid
<1>2. ASSUME NEW t \in Tenants, StartTrial(t) PROVE PromptsAgree' /\ PaidConfirmed' /\ PaidBought'
  BY <1>1, <1>2 DEF StartTrial
<1>3. ASSUME NEW r \in Runs, Bill(r) \/ CrashRun(r) PROVE PromptsAgree' /\ PaidConfirmed' /\ PaidBought'
  <2>1. CASE CommitRun(r) /\ invoice' # invoice
    <3>1. /\ run[r].new \cap DOMAIN invoice = {}
          /\ DOMAIN invoice' = DOMAIN invoice \cup run[r].new
          /\ \A i \in DOMAIN invoice : invoice'[i] = invoice[i]
          /\ \A i \in run[r].new : invoice'[i] = [status |-> "pending", prompt |-> NoPrompt]
          /\ UNCHANGED <<prompt, charged, handler, bought>>
      BY <2>1 DEF CommitRun
    <3>2. PromptsAgree'
      BY <1>t, <3>1, PlatformAssumption DEF PromptsAgree
    <3>3. PaidConfirmed'
      BY <1>t, <3>1 DEF PaidConfirmed, Confirmed
    <3>4. \A t \in Tenants : Paid(t)' = Paid(t)
      BY <3>1 DEF Paid
    <3> QED
      BY <1>t, <3>1, <3>2, <3>3, <3>4 DEF PaidBought
  <2>2. CASE ~(CommitRun(r) /\ invoice' # invoice)
    <3>1. UNCHANGED <<invoice, prompt, charged, bought>> /\ handler' = handler
      BY <1>3, <2>2 DEF Bill, SelectCandidates, CheckOpenInvoice, IssueInvoice, CommitRun, CrashRun
    <3> QED
      BY <1>1, <3>1
  <2> QED
    BY <2>1, <2>2
<1>4. ASSUME NEW w \in Workers, NEW q \in Prompts, NEW i \in DOMAIN invoice, StkPush(w, q, i)
      PROVE PromptsAgree' /\ PaidConfirmed' /\ PaidBought'
  <2>1. /\ prompt[q] = "none" /\ invoice' = invoice /\ bought' = bought
        /\ prompt' = [prompt EXCEPT ![q] = "sent"] /\ charged' = [charged EXCEPT ![q] = i]
        /\ \A v \in Workers \ {w} : handler'[v] = handler[v]
        /\ handler'[w].pc = "pushed" /\ handler'[w].prompt = q /\ handler'[w].invoice = i
    BY <1>t, <1>4 DEF StkPush, Idle, Typed
  <2>2. /\ \A j \in DOMAIN invoice : charged[q] # j /\ invoice[j].prompt # q
        /\ \A v \in Workers : handler[v].pc \in {"pushed", "settling", "extending"}
                                 => handler[v].prompt # q
    BY <1>t, <2>1, PushedIsNew
  <2>3. PromptsAgree'
    <3>1. \A p \in Prompts : prompt'[p] = "none" => charged'[p] = NoInvoice
      BY <1>t, <2>1 DEF PromptsAgree, Typed
    <3>2. \A j \in DOMAIN invoice' :
              invoice'[j].prompt \in Prompts => charged'[invoice'[j].prompt] = j
      BY <1>t, <2>1, <2>2 DEF PromptsAgree, Typed
    <3>3. ASSUME NEW v \in Workers
          PROVE  /\ handler'[v].pc \in {"pushed", "settling", "extending"}
                       => charged'[handler'[v].prompt] = handler'[v].invoice
                 /\ handler'[v].pc \in {"settling", "extending"} => prompt'[handler'[v].prompt] = "paid"
      <4>1. CASE v = w
        BY <1>t, <2>1, <4>1 DEF Typed
      <4>2. CASE v # w /\ handler[v].pc \in {"pushed", "settling", "extending"}
        <5>1. handler[v].prompt \in Prompts
          BY <1>t, <4>2 DEF Typed
        <5> QED
          BY <1>t, <2>1, <2>2, <4>2, <5>1 DEF PromptsAgree, Typed
      <4>3. CASE v # w /\ handler[v].pc \notin {"pushed", "settling", "extending"}
        BY <2>1, <4>3
      <4> QED
        BY <4>1, <4>2, <4>3
    <3> QED
      BY <3>1, <3>2, <3>3 DEF PromptsAgree
  <2>4. PaidConfirmed'
    <3>1. \A j : Confirmed(j) => Confirmed(j)'
      BY <1>t, <2>1 DEF Confirmed, Typed
    <3> QED
      BY <1>t, <2>1, <3>1 DEF PaidConfirmed
  <2> QED
    BY <1>t, <2>1, <2>3, <2>4, SamePaid DEF PaidBought
<1>5. ASSUME NEW w \in Workers, NEW q \in Prompts, CallbackIgnored(w, q)
      PROVE PromptsAgree' /\ PaidConfirmed' /\ PaidBought'
  BY <1>1, <1>5 DEF CallbackIgnored
<1>6. ASSUME NEW w \in Workers, NEW q \in Prompts, CallbackFound(w, q)
      PROVE PromptsAgree' /\ PaidConfirmed' /\ PaidBought'
  <2>1. UNCHANGED <<invoice, prompt, charged, bought>>
    BY <1>6 DEF CallbackFound
  <2>2. PICK i \in Matching(q) :
          /\ \A v \in Workers \ {w} : handler'[v] = handler[v]
          /\ handler'[w].prompt = q /\ handler'[w].invoice = i
          /\ \/ handler'[w].pc = "settling" /\ prompt[q] = "paid"
             \/ handler'[w].pc = "clearing"
    <3> DEFINE settling(i) == [Idle EXCEPT !.pc = "settling", !.prompt = q, !.invoice = i, !.at = now]
               clearing(i) == [Idle EXCEPT !.pc = "clearing", !.prompt = q, !.invoice = i]
    <3>1. PICK i \in Matching(q) :
              \/ handler' = [handler EXCEPT ![w] = settling(i)] /\ prompt[q] = "paid"
              \/ handler' = [handler EXCEPT ![w] = clearing(i)]
      BY <1>6 DEF CallbackFound, Posted
    <3>2. /\ settling(i).pc = "settling" /\ settling(i).prompt = q /\ settling(i).invoice = i
          /\ clearing(i).pc = "clearing" /\ clearing(i).prompt = q /\ clearing(i).invoice = i
      BY DEF Idle
    <3> HIDE DEF settling, clearing
    <3>3. DOMAIN handler = Workers
      BY <1>t DEF Typed
    <3> QED
      BY <3>1, <3>2, <3>3
  <2>3. charged[q] = i
    BY <1>t DEF PromptsAgree, Matching
  <2>4. PromptsAgree'
    BY <1>t, <2>1, <2>2, <2>3 DEF PromptsAgree
  <2> QED
    BY <1>t, <2>1, <2>4, SamePaid DEF PaidConfirmed, Confirmed, PaidBought
<1>7. ASSUME NEW w \in Workers, Settle(w) PROVE PromptsAgree' /\ PaidConfirmed' /\ PaidBought'
  <2> DEFINE i == handler[w].invoice
             q == handler[w].prompt
  <2>1. i \in DOMAIN invoice /\ q \in Prompts
    BY <1>t, <1>7 DEF Settle, CommitPrompt, ClearPrompt, LoadTenant, CommitExtension, Typed
  <2>2. UNCHANGED <<prompt, charged>> /\ DOMAIN invoice' = DOMAIN invoice
    BY <1>7 DEF Settle, CommitPrompt, ClearPrompt, LoadTenant, CommitExtension
  <2>3. CASE CommitPrompt(w) \/ ClearPrompt(w)
    <3>1. /\ handler' = [handler EXCEPT ![w] = Idle] /\ bought' = bought
          /\ \A j \in DOMAIN invoice : invoice'[j].status = invoice[j].status
          /\ \A j \in DOMAIN invoice : \/ invoice'[j].prompt = invoice[j].prompt
                                       \/ invoice'[j].prompt = NoPrompt
                                       \/ j = i /\ invoice'[j].prompt = q /\ handler[w].pc = "pushed"
      <4>1. invoice \in [DOMAIN invoice -> Row] /\ invoice[i] \in Row
        BY <1>t, <2>1 DEF Typed
      <4>2. CASE CommitPrompt(w)
        <5>1. /\ handler[w].pc = "pushed" /\ handler' = [handler EXCEPT ![w] = Idle]
              /\ invoice' = [invoice EXCEPT ![i] = [invoice[i] EXCEPT !.prompt = q]]
              /\ bought' = bought
          BY <4>2 DEF CommitPrompt
        <5> QED
          BY <2>1, <4>1, <5>1 DEF Row
      <4>3. CASE ClearPrompt(w)
        <5>1. /\ handler' = [handler EXCEPT ![w] = Idle]
              /\ invoice' = [invoice EXCEPT ![i] = [invoice[i] EXCEPT !.prompt = NoPrompt]]
              /\ bought' = bought
          BY <4>3 DEF ClearPrompt
        <5> QED
          BY <2>1, <4>1, <5>1 DEF Row
      <4> QED
        BY <2>3, <4>2, <4>3
    <3>2. handler'[w].pc = "idle" /\ \A v \in Workers \ {w} : handler'[v] = handler[v]
      BY <1>t, <3>1, IdleTyped DEF Typed
    <3>3. \A j \in DOMAIN invoice : invoice'[j].prompt \in Prompts => charged[invoice'[j].prompt] = j
      BY <1>t, <3>1, PlatformAssumption DEF PromptsAgree
    <3>4. PromptsAgree'
      BY <1>t, <2>2, <3>2, <3>3 DEF PromptsAgree
    <3>5. PaidConfirmed'
      BY <1>t, <2>2, <3>1 DEF PaidConfirmed, Confirmed
    <3> QED
      BY <1>t, <2>2, <3>1, <3>4, <3>5, SamePaid DEF PaidBought
  <2>4. CASE LoadTenant(w)
    <3>1. /\ invoice' = invoice /\ bought' = bought
          /\ \A v \in Workers \ {w} : handler'[v] = handler[v]
          /\ handler[w].pc = "settling" /\ handler'[w].pc = "extending"
          /\ handler'[w].prompt = q /\ handler'[w].invoice = i
      BY <1>t, <2>4 DEF LoadTenant, Typed, Request
    <3>2. PromptsAgree'
      BY <1>t, <2>2, <3>1 DEF PromptsAgree
    <3> QED
      BY <1>t, <2>2, <3>1, <3>2, SamePaid DEF PaidConfirmed, Confirmed, PaidBought
  <2>5. CASE CommitExtension(w)
    <3>1. /\ handler[w].pc = "extending" /\ handler' = [handler EXCEPT ![w] = Idle]
          /\ invoice'[i].status = "paid" /\ invoice'[i].prompt = invoice[i].prompt
          /\ \A j \in DOMAIN invoice \ {i} : invoice'[j] = invoice[j]
          /\ bought' = [bought EXCEPT ![i.tenant] = @ + 1]
      BY <1>t, <2>1, <2>5 DEF CommitExtension, Typed, Row
    <3>2. handler'[w].pc = "idle" /\ \A v \in Workers \ {w} : handler'[v] = handler[v]
      BY <1>t, <3>1, IdleTyped DEF Typed
    <3>3. Confirmed(i)
      BY <1>t, <2>1, <3>1 DEF PromptsAgree, Confirmed
    <3>4. PromptsAgree'
      BY <1>t, <2>1, <2>2, <3>1, <3>2 DEF PromptsAgree
    <3>5. PaidConfirmed'
      BY <1>t, <2>2, <3>1, <3>3 DEF PaidConfirmed, Confirmed
    <3>6. ASSUME NEW t \in Tenants PROVE Cardinality(Paid(t)') <= bought'[t]
      <4>1. IsFiniteSet(Paid(t))
        <5>1. IsFiniteSet(DOMAIN invoice) /\ Paid(t) \subseteq DOMAIN invoice
          BY <1>t DEF Typed, Paid
        <5> QED
          BY <5>1, FS_Subset
      <4>2. Cardinality(Paid(t)) \in Nat /\ Cardinality(Paid(t)) <= bought[t] /\ bought[t] \in Nat
        BY <1>t, <4>1, FS_CardinalityType DEF PaidBought, Typed
      <4>3. CASE i.tenant = t
        <5>1. Paid(t)' = Paid(t) \cup {i}
          BY <2>1, <2>2, <3>1, <4>3 DEF Paid
        <5>2. Cardinality(Paid(t) \cup {i}) <= Cardinality(Paid(t)) + 1
          BY <4>1, <4>2, FS_AddElement
        <5>3. bought'[t] = bought[t] + 1
          BY <1>t, <3>1, <4>3 DEF Typed
        <5>4. Cardinality(Paid(t) \cup {i}) \in Nat
          BY <4>1, FS_AddElement, FS_CardinalityType
        <5> QED
          BY <4>2, <5>1, <5>2, <5>3, <5>4
      <4>4. CASE i.tenant # t
        <5>1. Paid(t)' = Paid(t)
          BY <2>1, <2>2, <3>1, <4>4 DEF Paid
        <5>2. bought'[t] = bought[t]
          BY <1>t, <3>1, <4>4 DEF Typed
        <5> QED
          BY <4>2, <5>1, <5>2
      <4> QED
        BY <4>3, <4>4
    <3> QED
      BY <3>4, <3>5, <3>6 DEF PaidBought
  <2> QED
    BY <1>7, <2>3, <2>4, <2>5 DEF Settle
<1>8. ASSUME NEW w \in Workers, CrashWorker(w) PROVE PromptsAgree' /\ PaidConfirmed' /\ PaidBought'
  <2>1. /\ UNCHANGED <<invoice, prompt, charged, bought>>
        /\ handler'[w].pc = "idle" /\ \A v \in Workers \ {w} : handler'[v] = handler[v]
    BY <1>t, <1>8, IdleTyped DEF CrashWorker, Typed
  <2>2. PromptsAgree'
    BY <1>t, <2>1 DEF PromptsAgree
  <2> QED
    BY <1>t, <2>1, <2>2, SamePaid DEF PaidConfirmed, Confirmed, PaidBought
<1>9. ASSUME NEW q \in Prompts, Answer(q) PROVE PromptsAgree' /\ PaidConfirmed' /\ PaidBought'
  <2>1. /\ UNCHANGED <<invoice, charged, handler, bought>>
        /\ \A p \in Prompts : /\ prompt'[p] = "none" => prompt[p] = "none"
                              /\ prompt[p] = "paid" => prompt'[p] = "paid"
    BY <1>t, <1>9 DEF Answer, Typed
  <2>2. PromptsAgree'
    <3>1. \A w \in Workers : handler[w].pc \in {"settling", "extending"} => handler[w].prompt \in Prompts
      BY <1>t DEF Typed
    <3> QED
      BY <1>t, <2>1, <3>1 DEF PromptsAgree
  <2> QED
    BY <1>t, <2>1, <2>2, SamePaid DEF PaidConfirmed, Confirmed, PaidBought
<1>10. CASE Tick
  BY <1>1, <1>10 DEF Tick
<1>11. CASE UNCHANGED vars
  BY <1>1, <1>11 DEF vars
<1> QED
  BY <1>2, <1>3, <1>4, <1>5, <1>6, <1>7, <1>8, <1>9, <1>10, <1>11 DEF Next

\* An invoice is paid only by a prompt opened for it and confirmed on the phone, and
\* has bought its tenant time, whatever callbacks, prompts and crashes come together.
THEOREM PaidConfirmedHolds == Spec => []PaidIsConfirmed
<1>1. Spec => []ConfirmedInv
  BY ConfirmedInit, ConfirmedStep, PTL DEF Spec
<1> QED
  BY <1>1, ConfirmedImplies, PTL

-----------------------------------------------------------------------------
(*              One process bills: one invoice to pay                      *)

\* What the run has looked at or is about to add has no invoice to pay, is not looked
\* at again, and is one invoice per tenant.
RunAgrees ==
    \A r \in Runs :
        /\ \A t \in run[r].unbilled : Pending(t) = {} /\ t \notin run[r].todo
        /\ \A i \in run[r].new : /\ Pending(i.tenant) = {}
                                 /\ i.tenant \notin run[r].todo \cup run[r].unbilled
        /\ \A i, j \in run[r].new : i.tenant = j.tenant => i = j

OnePending == \A t \in Tenants : \A i, j \in Pending(t) : i = j

BillingInv == Typed /\ RunAgrees /\ OnePending

LEMMA BillingImplies == BillingInv => OneOpenInvoice
<1> SUFFICES ASSUME BillingInv, NEW t \in Tenants PROVE Cardinality(Pending(t)) <= 1
  BY DEF OneOpenInvoice
<1>1. CASE Pending(t) = {}
  BY <1>1, FS_EmptySet
<1>2. CASE Pending(t) # {}
  <2>1. PICK i : i \in Pending(t)
    BY <1>2
  <2>2. Pending(t) = {i}
    BY <2>1 DEF BillingInv, OnePending
  <2>3. Cardinality({i}) = 1
    BY FS_Singleton
  <2> QED
    BY <2>2, <2>3
<1> QED
  BY <1>1, <1>2

LEMMA BillingInit == Init => BillingInv
<1> SUFFICES ASSUME Init PROVE BillingInv
  OBVIOUS
<1>1. DOMAIN invoice = {} /\ \A r \in Runs : run[r].unbilled = {} /\ run[r].new = {}
  BY DEF Init, NoRun
<1> QED
  BY <1>1, TypedInit DEF BillingInv, RunAgrees, OnePending, Pending

\* A step of another kind leaves the runs, and invoices to pay only become fewer.
LEMMA FewerPending ==
    ASSUME BillingInv, Typed', run' = run, \A t : Pending(t)' \subseteq Pending(t)
    PROVE  BillingInv'
BY DEF BillingInv, RunAgrees, OnePending

LEMMA BillingStep ==
    ASSUME \A r, s \in Runs : r = s
    PROVE  BillingInv /\ [Next]_vars => BillingInv'
<1> SUFFICES ASSUME BillingInv, [Next]_vars PROVE BillingInv'
  OBVIOUS
<1> USE DEF netVars, rowVars
<1>t. Typed /\ Typed' /\ RunAgrees /\ OnePending
  BY TypedStep DEF BillingInv
<1>1. ASSUME invoice' = invoice, run' = run PROVE BillingInv'
  BY <1>t, <1>1, FewerPending DEF Pending
<1>2. ASSUME NEW r \in Runs, SelectCandidates(r) PROVE BillingInv'
  <2>1. invoice' = invoice /\ run'[r].unbilled = {} /\ run'[r].new = {}
    BY <1>t, <1>2 DEF SelectCandidates, NoRun, Typed
  <2> QED
    BY <1>t, <2>1 DEF BillingInv, RunAgrees, OnePending, Pending
<1>3. ASSUME NEW r \in Runs, NEW t \in Tenants, CheckOpenInvoice(r, t) PROVE BillingInv'
  <2>1. /\ invoice' = invoice /\ t \in run[r].todo
        /\ run'[r].todo = run[r].todo \ {t} /\ run'[r].new = run[r].new
        /\ run'[r].unbilled = IF Pending(t) = {} THEN {t} ELSE {}
    <3> DEFINE found == IF Pending(t) = {} THEN {t} ELSE {}
    <3>1. /\ invoice' = invoice /\ t \in run[r].todo
          /\ run' = [run EXCEPT ![r] = [run[r] EXCEPT !.todo = @ \ {t}, !.unbilled = found]]
      BY <1>3 DEF CheckOpenInvoice
    <3>2. run \in [Runs -> RunState] /\ run[r] \in RunState
      BY <1>t DEF Typed
    <3>3. /\ run'[r].todo = run[r].todo \ {t} /\ run'[r].new = run[r].new
          /\ run'[r].unbilled = found
      <4> HIDE DEF found
      <4> QED
        BY <3>1, <3>2 DEF RunState
    <3> QED
      BY <3>1, <3>3
  <2>2. \A u : Pending(u)' = Pending(u)
    BY <2>1 DEF Pending
  <2>3. RunAgrees'
    BY <1>t, <2>1, <2>2 DEF RunAgrees
  <2> QED
    BY <1>t, <2>2, <2>3 DEF BillingInv, OnePending
<1>4. ASSUME NEW r \in Runs, NEW t \in Tenants, IssueInvoice(r, t) PROVE BillingInv'
  <2>1. PICK i \in Number(t, run[r].seen[t]) :
            run' = [run EXCEPT ![r].unbilled = {}, ![r].new = @ \cup {i}]
    BY <1>4 DEF IssueInvoice
  <2>2. /\ invoice' = invoice /\ t \in run[r].unbilled /\ i.tenant = t
        /\ run'[r].todo = run[r].todo /\ run'[r].new = run[r].new \cup {i}
        /\ run'[r].unbilled = {}
    BY <1>t, <1>4, <2>1 DEF IssueInvoice, Number, Typed, RunState
  <2>3. \A u : Pending(u)' = Pending(u)
    BY <2>2 DEF Pending
  <2>4. RunAgrees'
    BY <1>t, <2>2, <2>3 DEF RunAgrees
  <2> QED
    BY <1>t, <2>3, <2>4 DEF BillingInv, OnePending
<1>5. ASSUME NEW r \in Runs, CommitRun(r) PROVE BillingInv'
  <2>1. \A s \in Runs : run'[s].unbilled = {} /\ run'[s].new = {}
    BY <1>t, <1>5 DEF CommitRun, NoRun, Typed
  <2>2. RunAgrees'
    BY <2>1 DEF RunAgrees
  <2>3. CASE run[r].new \cap DOMAIN invoice = {}
    <3>1. /\ DOMAIN invoice' = DOMAIN invoice \cup run[r].new
          /\ \A i \in DOMAIN invoice : invoice'[i] = invoice[i]
      BY <1>5, <2>3 DEF CommitRun
    <3>2. ASSUME NEW t \in Tenants, NEW i \in Pending(t)', NEW j \in Pending(t)' PROVE i = j
      <4>1. /\ i.tenant = t /\ j.tenant = t
            /\ i \in run[r].new \/ i \in Pending(t)
            /\ j \in run[r].new \/ j \in Pending(t)
        BY <3>1 DEF Pending
      <4>2. run[r].new \cap {i, j} # {} => Pending(t) = {}
        BY <1>t, <4>1 DEF RunAgrees
      <4> QED
        BY <1>t, <4>1, <4>2 DEF RunAgrees, OnePending
    <3> QED
      BY <1>t, <2>2, <3>2 DEF BillingInv, OnePending
  <2>4. CASE run[r].new \cap DOMAIN invoice # {}
    <3>1. invoice' = invoice
      BY <1>5, <2>4 DEF CommitRun
    <3> QED
      BY <1>t, <2>2, <3>1 DEF BillingInv, OnePending, Pending
  <2> QED
    BY <2>3, <2>4
<1>6. ASSUME NEW r \in Runs, CrashRun(r) PROVE BillingInv'
  <2>1. invoice' = invoice /\ \A s \in Runs : run'[s].unbilled = {} /\ run'[s].new = {}
    BY <1>t, <1>6 DEF CrashRun, NoRun, Typed
  <2> QED
    BY <1>t, <2>1 DEF BillingInv, RunAgrees, OnePending, Pending
<1>7. ASSUME NEW w \in Workers, Settle(w) PROVE BillingInv'
  <2>1. /\ run' = run /\ DOMAIN invoice' = DOMAIN invoice
        /\ \A i \in DOMAIN invoice : invoice'[i].status \in {invoice[i].status, "paid"}
    <3>1. handler[w].invoice \in DOMAIN invoice
      BY <1>t, <1>7 DEF Settle, CommitPrompt, ClearPrompt, LoadTenant, CommitExtension, Typed
    <3> DEFINE i == handler[w].invoice
    <3>2. invoice \in [DOMAIN invoice -> Row] /\ invoice[i] \in Row
      BY <1>t, <3>1 DEF Typed
    <3>3. CASE LoadTenant(w)
      BY <3>3 DEF LoadTenant
    <3>4. CASE CommitPrompt(w)
      <4>1. /\ run' = run
            /\ invoice' = [invoice EXCEPT ![i] = [invoice[i] EXCEPT !.prompt = handler[w].prompt]]
        BY <3>4 DEF CommitPrompt
      <4> QED
        BY <3>1, <3>2, <4>1 DEF Row
    <3>5. CASE ClearPrompt(w)
      <4>1. /\ run' = run
            /\ invoice' = [invoice EXCEPT ![i] = [invoice[i] EXCEPT !.prompt = NoPrompt]]
        BY <3>5 DEF ClearPrompt
      <4> QED
        BY <3>1, <3>2, <4>1 DEF Row
    <3>6. CASE CommitExtension(w)
      <4>1. /\ run' = run
            /\ invoice' = [invoice EXCEPT ![i] = [invoice[i] EXCEPT !.status = "paid"]]
        BY <3>6 DEF CommitExtension
      <4> QED
        BY <3>1, <3>2, <4>1 DEF Row
    <3> QED
      BY <1>7, <3>3, <3>4, <3>5, <3>6 DEF Settle
  <2>2. \A t : Pending(t)' \subseteq Pending(t)
    BY <2>1 DEF Pending
  <2> QED
    BY <1>t, <2>1, <2>2, FewerPending
<1>8. ASSUME NEW w \in Workers, NEW q \in Prompts,
             \/ \E i \in DOMAIN invoice : StkPush(w, q, i)
             \/ CallbackIgnored(w, q) \/ CallbackFound(w, q) \/ CrashWorker(w) \/ Answer(q)
      PROVE BillingInv'
  BY <1>1, <1>8 DEF StkPush, CallbackIgnored, CallbackFound, CrashWorker, Answer
<1>9. ASSUME (\E t \in Tenants : StartTrial(t)) \/ (\E w \in Workers : CrashWorker(w))
             \/ (\E q \in Prompts : Answer(q)) \/ Tick \/ UNCHANGED vars
      PROVE BillingInv'
  BY <1>1, <1>9 DEF StartTrial, CrashWorker, Answer, Tick, vars
<1> QED
  BY <1>2, <1>3, <1>4, <1>5, <1>6, <1>7, <1>8, <1>9 DEF Next, Bill

\* Where one process runs the billing command, no tenant ever has two invoices to pay,
\* whatever payments, declines and crashes come between the steps of a run.
THEOREM OneProcessBillsOnce ==
    ASSUME \A r, s \in Runs : r = s
    PROVE  Spec => []OneOpenInvoice
<1>1. Init => BillingInv
  BY BillingInit
<1>2. BillingInv /\ [Next]_vars => BillingInv'
  BY BillingStep
<1>3. BillingInv => OneOpenInvoice
  BY BillingImplies
<1> QED
  BY <1>1, <1>2, <1>3, PTL DEF Spec

-----------------------------------------------------------------------------
(*         Every paid invoice has its period in the tenant's expiry        *)

\* What a tenant's expiry is at least with c paid invoices.
Owed(c) == Trial + Period * c

\* The run is about to look at the tenant, to bill it, or to add its invoice.
InRun(t) ==
    \E r \in Runs : \/ t \in run[r].todo \cup run[r].unbilled
                    \/ \E i \in run[r].new : i.tenant = t

Working(w) == handler[w].pc \in {"settling", "extending"}

\* Who has an invoice, or is about to, has an expiry, which holds what it has paid.
HasExpiry ==
    \A t \in Tenants : Pending(t) # {} \/ Paid(t) # {} \/ InRun(t) => expires[t] # NoExpiry
Kept == \A t \in Tenants : expires[t] # NoExpiry => expires[t] >= Owed(Cardinality(Paid(t)))

\* A settlement ends on the day it began, and one worker at a time has the row locked.
Today == \A w \in Workers : Working(w) => handler[w].at = now
OneWriter ==
    \A v, w \in Workers :
        /\ handler[v].pc = "extending" /\ handler[w].pc = "extending"
        /\ handler[v].invoice = handler[w].invoice
        => v = w

\* While a copy of a callback settles an invoice another copy has settled, the tenant
\* is not up for billing: at most one invoice of an earlier selection is still to come.
SettledAlready ==
    \A w \in Workers : \A t \in Tenants :
        /\ Working(w) /\ handler[w].invoice.tenant = t
        /\ invoice[handler[w].invoice].status = "paid"
        => expires[t] > now + Lead /\ (Pending(t) = {} \/ ~InRun(t))

\* The expiry a worker loaded still makes up for every invoice that is paid, and for
\* one more where the tenant has or may get one, when its period is added.
LoadedKeeps ==
    \A w \in Workers : \A t \in Tenants :
        handler[w].pc = "extending" /\ handler[w].invoice.tenant = t =>
            /\ handler[w].expires + Period >= Owed(Cardinality(Paid(t)))
            /\ Pending(t) # {} \/ InRun(t) =>
                  handler[w].expires + Period >= Owed(Cardinality(Paid(t)) + 1)

KeptInv ==
    BillingInv /\ HasExpiry /\ Kept /\ Today /\ OneWriter /\ SettledAlready /\ LoadedKeeps

\* One more paid invoice is one more period.
LEMMA OwedGrows ==
    ASSUME NEW c \in Nat
    PROVE  /\ Owed(c) \in Nat /\ Owed(c + 1) = Owed(c) + Period
           /\ Owed(c) >= Trial
<1>1. Period * (c + 1) = Period * c + Period /\ Period * c \in Nat
  BY PlatformAssumption
<1> QED
  BY <1>1, PlatformAssumption DEF Owed

LEMMA PaidCounted ==
    ASSUME Typed
    PROVE  \A t : IsFiniteSet(Paid(t)) /\ Cardinality(Paid(t)) \in Nat
<1>1. IsFiniteSet(DOMAIN invoice) /\ \A t : Paid(t) \subseteq DOMAIN invoice
  BY DEF Typed, Paid
<1> QED
  BY <1>1, FS_Subset, FS_CardinalityType

LEMMA KeptImplies == KeptInv => PaidPeriodsAreKept
  BY DEF KeptInv, HasExpiry, Kept, PaidPeriodsAreKept, Owed

LEMMA KeptInit == Init => KeptInv
<1> SUFFICES ASSUME Init PROVE KeptInv
  OBVIOUS
<1>1. BillingInv
  BY BillingInit
<1>2. \A w \in Workers : handler[w].pc = "idle"
  BY IdleTyped DEF Init
<1>3. \A t : Pending(t) = {} /\ Paid(t) = {}
  BY DEF Init, Pending, Paid
<1>4. \A t : ~InRun(t)
  BY DEF Init, InRun, NoRun
<1>5. \A t \in Tenants : expires[t] = NoExpiry
  BY DEF Init
<1> QED
  BY <1>1, <1>2, <1>3, <1>4, <1>5
  DEF KeptInv, HasExpiry, Kept, Today, OneWriter, SettledAlready, LoadedKeeps, Working

\* A step that writes no expiry and no status, puts no tenant into a run and takes up
\* no settlement disturbs nothing.
LEMMA QuietStep ==
    ASSUME KeptInv, BillingInv', UNCHANGED <<now, expires>>,
           DOMAIN invoice' = DOMAIN invoice,
           \A i \in DOMAIN invoice : invoice'[i].status = invoice[i].status,
           \A t \in Tenants : InRun(t)' => InRun(t),
           \A w \in Workers : handler'[w] = handler[w] \/ ~Working(w)'
    PROVE  KeptInv'
<1>1. \A t : Paid(t)' = Paid(t) /\ Pending(t)' = Pending(t)
  BY DEF Paid, Pending
<1>2. HasExpiry' /\ Kept'
  BY <1>1 DEF KeptInv, HasExpiry, Kept
<1>3. \A w \in Workers : Working(w)' => handler'[w] = handler[w] /\ Working(w)
  BY DEF Working
<1>4. \A w \in Workers : handler'[w].pc = "extending" => Working(w)'
  BY DEF Working
<1>5. Today' /\ OneWriter'
  BY <1>3, <1>4 DEF KeptInv, Today, OneWriter
<1>6. \A w \in Workers : Working(w) => handler[w].invoice \in DOMAIN invoice
  BY DEF KeptInv, BillingInv, Typed, Working
<1>7. SettledAlready'
  BY <1>1, <1>3, <1>6 DEF KeptInv, SettledAlready
<1>8. LoadedKeeps'
  BY <1>1, <1>3, <1>4 DEF KeptInv, LoadedKeeps
<1> QED
  BY <1>2, <1>5, <1>7, <1>8 DEF KeptInv

\* Selecting the tenants near expiry meets no tenant a late copy is settling.
LEMMA SelectKeeps ==
    ASSUME KeptInv, BillingInv', NEW r \in Runs, SelectCandidates(r)
    PROVE  KeptInv'
<1>1. /\ UNCHANGED <<now, expires, invoice, handler>>
      /\ run'[r].todo = Candidates /\ run'[r].unbilled = {} /\ run'[r].new = {}
      /\ \A s \in Runs \ {r} : run'[s] = run[s]
  BY DEF SelectCandidates, NoRun, KeptInv, BillingInv, Typed, rowVars
<1>2. \A t : Paid(t)' = Paid(t) /\ Pending(t)' = Pending(t)
  BY <1>1 DEF Paid, Pending
<1>3. \A t \in Tenants : InRun(t)' => InRun(t) \/ (expires[t] # NoExpiry /\ expires[t] <= now + Lead)
  BY <1>1 DEF InRun, Candidates
<1>4. HasExpiry' /\ Kept' /\ Today' /\ OneWriter'
  BY <1>1, <1>2, <1>3 DEF KeptInv, HasExpiry, Kept, Today, OneWriter, Working
<1>5. ASSUME NEW w \in Workers, NEW t \in Tenants, Working(w), handler[w].invoice.tenant = t
      PROVE  Pending(t) # {} \/ (InRun(t)' => InRun(t))
  <2>1. handler[w].invoice \in DOMAIN invoice
    BY <1>5 DEF KeptInv, BillingInv, Typed, Working
  <2>2. CASE invoice[handler[w].invoice].status = "paid"
    <3>1. expires[t] > now + Lead /\ expires[t] \in Nat /\ now + Lead \in Nat
      BY <1>5, <2>2, PlatformAssumption DEF KeptInv, SettledAlready, BillingInv, Typed
    <3>2. ~(expires[t] <= now + Lead)
      BY <3>1
    <3> QED
      BY <1>3, <3>2
  <2>3. CASE invoice[handler[w].invoice].status = "pending"
    BY <1>5, <2>1, <2>3 DEF Pending
  <2> QED
    BY <2>1, <2>2, <2>3 DEF KeptInv, BillingInv, Typed, Row
<1>6. SettledAlready'
  <2> SUFFICES ASSUME NEW w \in Workers, NEW t \in Tenants,
                      Working(w), handler[w].invoice.tenant = t,
                      invoice[handler[w].invoice].status = "paid"
               PROVE  expires[t] > now + Lead /\ (Pending(t) = {} \/ ~InRun(t)')
    BY <1>1, <1>2 DEF SettledAlready, Working
  <2>1. expires[t] > now + Lead /\ (Pending(t) = {} \/ ~InRun(t))
    BY DEF KeptInv, SettledAlready
  <2>2. ~(expires[t] <= now + Lead)
    BY <2>1, PlatformAssumption DEF KeptInv, BillingInv, Typed
  <2> QED
    BY <1>3, <2>1, <2>2
<1>7. LoadedKeeps'
  <2>1. \A w \in Workers : handler[w].pc = "extending" => Working(w)
    BY DEF Working
  <2> QED
    BY <1>1, <1>2, <1>5, <2>1 DEF KeptInv, LoadedKeeps
<1> QED
  BY <1>4, <1>6, <1>7 DEF KeptInv

\* The new invoices are of tenants the run was billing: nothing more is still to come.
LEMMA CommitRunKeeps ==
    ASSUME \A r, s \in Runs : r = s, KeptInv, BillingInv', NEW r \in Runs, CommitRun(r)
    PROVE  KeptInv'
<1>1. /\ UNCHANGED <<now, expires, handler>>
      /\ \A s \in Runs : run'[s].todo = {} /\ run'[s].unbilled = {} /\ run'[s].new = {}
  BY DEF CommitRun, NoRun, KeptInv, BillingInv, Typed
<1>2. \A t : ~InRun(t)'
  BY <1>1 DEF InRun
<1>3. /\ DOMAIN invoice \subseteq DOMAIN invoice'
      /\ \A i \in DOMAIN invoice : invoice'[i] = invoice[i]
      /\ \A i \in DOMAIN invoice' \ DOMAIN invoice :
            i \in run[r].new /\ invoice'[i].status = "pending"
  <2>1. CASE run[r].new \cap DOMAIN invoice = {}
    BY <2>1 DEF CommitRun
  <2>2. CASE run[r].new \cap DOMAIN invoice # {}
    BY <2>2 DEF CommitRun
  <2> QED
    BY <2>1, <2>2
<1>4. \A t : Paid(t)' = Paid(t) /\ (Pending(t)' # {} => Pending(t) # {} \/ InRun(t))
  BY <1>3 DEF Paid, Pending, InRun
<1>5. HasExpiry' /\ Kept' /\ Today' /\ OneWriter'
  BY <1>1, <1>2, <1>4 DEF KeptInv, HasExpiry, Kept, Today, OneWriter, Working
<1>6. \A w \in Workers : Working(w) => handler[w].invoice \in DOMAIN invoice
  BY DEF KeptInv, BillingInv, Typed, Working
<1>7. SettledAlready'
  BY <1>1, <1>2, <1>3, <1>6 DEF KeptInv, SettledAlready, Working
<1>8. LoadedKeeps'
  BY <1>1, <1>2, <1>4 DEF KeptInv, LoadedKeeps
<1> QED
  BY <1>5, <1>7, <1>8 DEF KeptInv

\* A request is taken up for an invoice that is still to be paid.
LEMMA FoundKeeps ==
    ASSUME KeptInv, BillingInv', NEW w \in Workers, NEW q \in Prompts, CallbackFound(w, q)
    PROVE  KeptInv'
<1>1. UNCHANGED <<now, expires, invoice, run>>
  BY DEF CallbackFound, rowVars
<1>2. PICK i \in Matching(q) :
          /\ \A v \in Workers \ {w} : handler'[v] = handler[v]
          /\ \/ /\ handler'[w].pc = "settling" /\ handler'[w].invoice = i
                /\ handler'[w].at = now /\ invoice[i].status = "pending"
             \/ handler'[w].pc = "clearing"
  <2> DEFINE settling(i) == [Idle EXCEPT !.pc = "settling", !.prompt = q, !.invoice = i, !.at = now]
             clearing(i) == [Idle EXCEPT !.pc = "clearing", !.prompt = q, !.invoice = i]
  <2>1. PICK i \in Matching(q) :
            \/ handler' = [handler EXCEPT ![w] = settling(i)] /\ invoice[i].status = "pending"
            \/ handler' = [handler EXCEPT ![w] = clearing(i)]
    BY DEF CallbackFound
  <2>2. /\ settling(i).pc = "settling" /\ settling(i).invoice = i /\ settling(i).at = now
        /\ clearing(i).pc = "clearing"
    BY DEF Idle
  <2> HIDE DEF settling, clearing
  <2>3. DOMAIN handler = Workers
    BY DEF KeptInv, BillingInv, Typed
  <2> QED
    BY <2>1, <2>2, <2>3
<1>3. \A t : Paid(t)' = Paid(t) /\ Pending(t)' = Pending(t) /\ (InRun(t)' <=> InRun(t))
  BY <1>1 DEF Paid, Pending, InRun
<1>4. HasExpiry' /\ Kept' /\ Today' /\ OneWriter'
  BY <1>1, <1>2, <1>3 DEF KeptInv, HasExpiry, Kept, Today, OneWriter, Working
<1>5. SettledAlready' /\ LoadedKeeps'
  BY <1>1, <1>2, <1>3 DEF KeptInv, SettledAlready, LoadedKeeps, Working
<1> QED
  BY <1>4, <1>5 DEF KeptInv

\* The worker that gets the row loads an expiry that has every paid period, and one
\* that already has the period of its own invoice where that is paid.
LEMMA LoadKeeps ==
    ASSUME KeptInv, BillingInv', NEW w \in Workers, LoadTenant(w)
    PROVE  KeptInv'
<1> DEFINE i == handler[w].invoice
           u == i.tenant
<1>1. /\ UNCHANGED <<now, expires, invoice, run>>
      /\ handler[w].pc = "settling" /\ handler'[w].pc = "extending"
      /\ handler'[w].invoice = i /\ handler'[w].at = handler[w].at
      /\ handler'[w].expires = expires[u]
      /\ \A v \in Workers \ {w} : handler'[v] = handler[v]
      /\ ~InvoiceLocked(i)
  BY DEF LoadTenant, rowVars, KeptInv, BillingInv, Typed, Request
<1>2. i \in DOMAIN invoice /\ u \in Tenants /\ invoice[i].status \in {"pending", "paid"}
  BY <1>1 DEF KeptInv, BillingInv, Typed, Numbers, Row
<1>3. \A t : Paid(t)' = Paid(t) /\ Pending(t)' = Pending(t) /\ (InRun(t)' <=> InRun(t))
  BY <1>1 DEF Paid, Pending, InRun
<1>4. HasExpiry' /\ Kept' /\ Today' /\ OneWriter' /\ SettledAlready'
  BY <1>1, <1>3
  DEF KeptInv, HasExpiry, Kept, Today, OneWriter, SettledAlready, Working, InvoiceLocked
<1>5. expires[u] # NoExpiry /\ expires[u] \in Nat
  BY <1>2 DEF KeptInv, HasExpiry, Pending, Paid, BillingInv, Typed
<1>6. expires[u] >= Owed(Cardinality(Paid(u)))
  BY <1>2, <1>5 DEF KeptInv, Kept
<1>7. /\ expires[u] + Period >= Owed(Cardinality(Paid(u)) + 1)
      /\ expires[u] + Period >= Owed(Cardinality(Paid(u)))
  <2>1. Cardinality(Paid(u)) \in Nat
    BY PaidCounted DEF KeptInv, BillingInv
  <2> DEFINE c == Cardinality(Paid(u))
  <2>2. Owed(c) \in Nat /\ Owed(c + 1) = Owed(c) + Period
    BY <2>1, OwedGrows
  <2> QED
    BY <1>5, <1>6, <2>2, PlatformAssumption
<1>8. LoadedKeeps'
  BY <1>1, <1>3, <1>7 DEF KeptInv, LoadedKeeps
<1> QED
  BY <1>4, <1>8 DEF KeptInv

\* An invoice that is settled was the tenant's only one to pay, and another copy's
\* settlement leaves the expiry of the tenant far enough ahead.
LEMMA ExtendKeeps ==
    ASSUME Period > Lead, KeptInv, BillingInv', NEW w \in Workers, CommitExtension(w)
    PROVE  KeptInv'
<1>t. Typed /\ OnePending /\ HasExpiry /\ Kept /\ Today /\ OneWriter /\ SettledAlready /\ LoadedKeeps
  BY DEF KeptInv, BillingInv
<1>i. PICK i \in DOMAIN invoice, u \in Tenants : i = handler[w].invoice /\ u = i.tenant
  BY <1>t DEF CommitExtension, Typed, Numbers
<1> DEFINE end == Extended(handler[w].at, handler[w].expires)
<1>1. /\ UNCHANGED <<now, run>> /\ handler[w].pc = "extending"
      /\ i = handler[w].invoice /\ u = i.tenant
  BY <1>i DEF CommitExtension
<1>2. /\ DOMAIN invoice' = DOMAIN invoice /\ invoice'[i].status = "paid"
      /\ \A j \in DOMAIN invoice \ {i} : invoice'[j] = invoice[j]
      /\ expires'[u] = end /\ \A t \in Tenants \ {u} : expires'[t] = expires[t]
      /\ handler'[w].pc = "idle" /\ \A v \in Workers \ {w} : handler'[v] = handler[v]
  <2>1. invoice' = [invoice EXCEPT ![i] = [invoice[i] EXCEPT !.status = "paid"]]
    BY <1>1 DEF CommitExtension
  <2>2. invoice[i] \in Row /\ invoice \in [DOMAIN invoice -> Row]
    BY <1>t, <1>1 DEF Typed
  <2>3. DOMAIN invoice' = DOMAIN invoice /\ invoice'[i].status = "paid"
    BY <1>1, <2>1, <2>2 DEF Row
  <2> QED
    BY <1>t, <1>1, <2>1, <2>2, <2>3, IdleTyped DEF CommitExtension, Typed
<1>3. \A t : InRun(t)' <=> InRun(t)
  BY <1>1 DEF InRun
<1>4. /\ Pending(u)' = Pending(u) \ {i} /\ Paid(u)' = Paid(u) \cup {i}
      /\ \A t \in Tenants \ {u} : Pending(t)' = Pending(t) /\ Paid(t)' = Paid(t)
  BY <1>1, <1>2 DEF Pending, Paid
<1>5. i \notin Paid(u) => Pending(u) = {i} /\ Pending(u)' = {}
  <2>1. i \notin Paid(u) => i \in Pending(u)
    BY <1>t, <1>1 DEF Paid, Pending, Typed, Row
  <2> QED
    BY <1>t, <1>1, <1>4, <2>1 DEF OnePending
<1>6. /\ end \in Nat /\ end >= handler[w].expires + Period /\ end > now + Lead /\ end # NoExpiry
  <2>1. handler[w].at = now /\ now \in Nat /\ handler[w].expires \in Nat
    BY <1>t, <1>1 DEF Today, Working, Typed, Request
  <2> QED
    BY <2>1, PlatformAssumption DEF Extended, NoExpiry
<1> DEFINE c == Cardinality(Paid(u))
<1>7. c \in Nat /\ IsFiniteSet(Paid(u))
  BY <1>t, PaidCounted
<1>8. /\ Cardinality(Paid(u)') = IF i \in Paid(u) THEN c ELSE c + 1
      /\ Owed(c) \in Nat /\ Owed(c + 1) \in Nat /\ Owed(c + 1) = Owed(c) + Period
  <2>1. i \in Paid(u) => Paid(u)' = Paid(u)
    BY <1>4
  <2>2. i \notin Paid(u) => Cardinality(Paid(u) \cup {i}) = c + 1
    BY <1>7, FS_AddElement
  <2>3. c + 1 \in Nat
    BY <1>7
  <2>4. Owed(c) \in Nat /\ Owed(c + 1) \in Nat /\ Owed(c + 1) = Owed(c) + Period
    BY <1>7, <2>3, OwedGrows
  <2> QED
    BY <1>4, <2>1, <2>2, <2>4
<1>9. /\ handler[w].expires \in Nat /\ handler[w].expires + Period >= Owed(c)
      /\ i \notin Paid(u) => handler[w].expires + Period >= Owed(c + 1)
  <2>1. i \notin Paid(u) => Pending(u) # {}
    BY <1>5
  <2> QED
    BY <1>t, <1>1, <2>1 DEF LoadedKeeps, Typed, Request
<1> HIDE DEF end
<1>10. HasExpiry' /\ Kept'
  <2>1. HasExpiry'
    BY <1>t, <1>2, <1>3, <1>4, <1>6 DEF HasExpiry
  <2>2. expires'[u] >= Owed(Cardinality(Paid(u)'))
    <3> HIDE DEF c
    <3>1. CASE i \in Paid(u)
      <4>1. end >= Owed(c)
        BY <1>6, <1>8, <1>9, PlatformAssumption
      <4> QED
        BY <1>2, <1>8, <3>1, <4>1
    <3>2. CASE i \notin Paid(u)
      <4>1. end >= Owed(c + 1)
        BY <1>6, <1>8, <1>9, <3>2, PlatformAssumption
      <4> QED
        BY <1>2, <1>8, <3>2, <4>1
    <3> QED
      BY <3>1, <3>2
  <2>3. ASSUME NEW t \in Tenants, t # u, expires'[t] # NoExpiry
        PROVE  expires'[t] >= Owed(Cardinality(Paid(t)'))
    BY <1>t, <1>2, <1>4, <2>3 DEF Kept
  <2> QED
    BY <2>1, <2>2, <2>3 DEF Kept
<1>11. Today' /\ OneWriter'
  BY <1>t, <1>1, <1>2 DEF Today, OneWriter, Working
\* The other workers at the tenant: a copy of the same callback, still settling, or a
\* late copy at an invoice that was paid before.
<1>12. ASSUME NEW v \in Workers, v # w, Working(v), handler[v].invoice.tenant = u
       PROVE  /\ handler[v].invoice = i => handler[v].pc = "settling"
              /\ handler[v].invoice # i /\ i \notin Paid(u) =>
                    invoice[handler[v].invoice].status = "paid" /\ ~InRun(u)
  <2>1. handler[v].invoice \in DOMAIN invoice
    BY <1>t, <1>12 DEF Typed, Working
  <2>2. handler[v].invoice = i => handler[v].pc = "settling"
    BY <1>t, <1>1, <1>12 DEF OneWriter, Working
  <2>3. ASSUME handler[v].invoice # i, i \notin Paid(u)
        PROVE  invoice[handler[v].invoice].status = "paid" /\ ~InRun(u)
    <3>1. handler[v].invoice \notin Pending(u)
      BY <1>5, <2>3
    <3>2. invoice[handler[v].invoice].status = "paid"
      BY <1>t, <1>12, <2>1, <3>1 DEF Pending, Typed, Row
    <3>3. Pending(u) # {}
      BY <1>5, <2>3
    <3> QED
      BY <1>t, <1>1, <1>12, <3>2, <3>3 DEF SettledAlready
  <2> QED
    BY <2>2, <2>3
<1>13. SettledAlready'
  <2> SUFFICES ASSUME NEW v \in Workers, NEW t \in Tenants,
                      Working(v)', handler'[v].invoice.tenant = t,
                      invoice'[handler'[v].invoice].status = "paid"
               PROVE  expires'[t] > now' + Lead /\ (Pending(t)' = {} \/ ~InRun(t)')
    BY DEF SettledAlready
  <2>1. v # w /\ handler'[v] = handler[v] /\ Working(v)
    BY <1>2 DEF Working
  <2>2. handler[v].invoice \in DOMAIN invoice
    BY <1>t, <2>1 DEF Typed, Working
  <2>3. CASE t # u
    <3>1. invoice[handler[v].invoice].status = "paid"
      BY <1>1, <1>2, <2>1, <2>2, <2>3
    <3> QED
      BY <1>t, <1>1, <1>2, <1>3, <1>4, <2>1, <2>3, <3>1 DEF SettledAlready
  <2>4. CASE t = u
    <3>1. expires'[t] > now' + Lead
      BY <1>1, <1>2, <1>6, <2>4
    <3>2. CASE i \notin Paid(u)
      BY <1>5, <2>4, <3>1, <3>2
    <3>3. CASE i \in Paid(u)
      <4>1. invoice[i].status = "paid" /\ Pending(u)' = Pending(u)
        BY <1>4, <3>3 DEF Paid, Pending
      <4>2. Pending(u) = {} \/ ~InRun(u)
        BY <1>t, <1>1, <4>1 DEF SettledAlready, Working
      <4> QED
        BY <1>3, <2>4, <3>1, <4>1, <4>2
    <3> QED
      BY <3>1, <3>2, <3>3
  <2> QED
    BY <2>3, <2>4
<1>14. LoadedKeeps'
  <2> SUFFICES ASSUME NEW v \in Workers, NEW t \in Tenants,
                      handler'[v].pc = "extending", handler'[v].invoice.tenant = t
               PROVE  /\ handler'[v].expires + Period >= Owed(Cardinality(Paid(t)'))
                      /\ Pending(t)' # {} \/ InRun(t)' =>
                            handler'[v].expires + Period >= Owed(Cardinality(Paid(t)') + 1)
    BY DEF LoadedKeeps
  <2>1. v # w /\ handler'[v] = handler[v] /\ Working(v)
    BY <1>2 DEF Working
  <2>2. CASE t # u
    BY <1>t, <1>2, <1>3, <1>4, <2>1, <2>2 DEF LoadedKeeps
  <2>3. CASE t = u /\ i \in Paid(u)
    BY <1>t, <1>2, <1>3, <1>4, <1>8, <2>1, <2>3 DEF LoadedKeeps
  <2>4. CASE t = u /\ i \notin Paid(u)
    <3>1. handler[v].invoice # i /\ ~InRun(u)
      BY <1>12, <2>1, <2>4
    <3>2. Pending(t)' = {} /\ ~InRun(t)'
      BY <1>3, <1>5, <2>4, <3>1
    <3>3. handler[v].expires + Period >= Owed(c + 1)
      BY <1>t, <1>5, <2>1, <2>4 DEF LoadedKeeps
    <3> QED
      BY <1>8, <2>1, <2>4, <3>2, <3>3
  <2> QED
    BY <2>2, <2>3, <2>4
<1> QED
  BY <1>10, <1>11, <1>13, <1>14 DEF KeptInv

LEMMA KeptStep ==
    ASSUME \A r, s \in Runs : r = s, Period > Lead
    PROVE  KeptInv /\ [Next]_vars => KeptInv'
<1> SUFFICES ASSUME KeptInv, [Next]_vars PROVE KeptInv'
  OBVIOUS
<1> USE DEF netVars, rowVars
<1>t. Typed /\ BillingInv'
  BY BillingStep DEF KeptInv, BillingInv
<1>1. ASSUME UNCHANGED <<now, expires, run>>, DOMAIN invoice' = DOMAIN invoice,
             \A i \in DOMAIN invoice : invoice'[i].status = invoice[i].status,
             \A w \in Workers : handler'[w] = handler[w] \/ ~Working(w)'
      PROVE  KeptInv'
  <2>1. \A t \in Tenants : InRun(t)' => InRun(t)
    BY <1>1 DEF InRun
  <2> QED
    BY <1>t, <1>1, <2>1, QuietStep
<1>2. ASSUME NEW t \in Tenants, StartTrial(t) PROVE KeptInv'
  <2>1. /\ UNCHANGED <<now, invoice, run, handler>> /\ expires[t] = NoExpiry
        /\ expires'[t] = now + Trial /\ \A u \in Tenants \ {t} : expires'[u] = expires[u]
    BY <1>t, <1>2 DEF StartTrial, Typed
  <2>2. \A u : Paid(u)' = Paid(u) /\ Pending(u)' = Pending(u) /\ (InRun(u)' <=> InRun(u))
    BY <2>1 DEF Paid, Pending, InRun
  <2>3. Paid(t) = {} /\ Pending(t) = {}
    BY <2>1 DEF KeptInv, HasExpiry
  <2>4. now + Trial >= Owed(Cardinality(Paid(t))) /\ now + Trial # NoExpiry
    <3>1. Cardinality(Paid(t)) = 0
      BY <2>3, FS_EmptySet
    <3>2. Owed(0) = Trial
      BY PlatformAssumption DEF Owed
    <3> QED
      BY <1>t, <3>1, <3>2, PlatformAssumption DEF Typed, NoExpiry
  <2>5. HasExpiry' /\ Kept'
    BY <2>1, <2>2, <2>4 DEF KeptInv, HasExpiry, Kept
  <2>6. Today' /\ OneWriter' /\ LoadedKeeps'
    BY <2>1, <2>2 DEF KeptInv, Today, OneWriter, LoadedKeeps, Working
  <2>7. \A w \in Workers : Working(w) => handler[w].invoice.tenant # t
    <3>1. \A w \in Workers : Working(w) =>
              handler[w].invoice \in DOMAIN invoice /\ invoice[handler[w].invoice].status \in {"pending", "paid"}
      BY <1>t DEF Typed, Working, Row
    <3> QED
      BY <2>3, <3>1 DEF Paid, Pending
  <2>8. SettledAlready'
    BY <2>1, <2>2, <2>7 DEF KeptInv, SettledAlready, Working
  <2> QED
    BY <1>t, <2>5, <2>6, <2>8 DEF KeptInv
<1>3. ASSUME NEW r \in Runs, SelectCandidates(r) PROVE KeptInv'
  BY <1>t, <1>3, SelectKeeps
<1>4. ASSUME NEW r \in Runs, NEW t \in Tenants, CheckOpenInvoice(r, t) \/ IssueInvoice(r, t)
      PROVE  KeptInv'
  <2>1. UNCHANGED <<now, expires, invoice, handler>> /\ \A s \in Runs \ {r} : run'[s] = run[s]
    BY <1>4 DEF CheckOpenInvoice, IssueInvoice
  <2>2. run[r] \in RunState /\ run \in [Runs -> RunState]
    BY <1>t DEF Typed
  <2>3. \A u \in Tenants : InRun(u)' => InRun(u)
    <3>1. CASE CheckOpenInvoice(r, t)
      <4> DEFINE found == IF Pending(t) = {} THEN {t} ELSE {}
      <4>1. /\ t \in run[r].todo /\ found \subseteq {t}
            /\ run' = [run EXCEPT ![r] = [run[r] EXCEPT !.todo = @ \ {t}, !.unbilled = found]]
        BY <3>1 DEF CheckOpenInvoice
      <4>2. /\ run'[r].todo = run[r].todo \ {t} /\ run'[r].new = run[r].new
            /\ run'[r].unbilled = found
        <5> HIDE DEF found
        <5> QED
          BY <2>2, <4>1 DEF RunState
      <4> HIDE DEF found
      <4> QED
        BY <2>1, <4>1, <4>2 DEF InRun
    <3>2. CASE IssueInvoice(r, t)
      <4>1. PICK i \in Number(t, run[r].seen[t]) :
                run' = [run EXCEPT ![r].unbilled = {}, ![r].new = @ \cup {i}]
        BY <3>2 DEF IssueInvoice
      <4>2. /\ t \in run[r].unbilled /\ i.tenant = t
            /\ run'[r].todo = run[r].todo /\ run'[r].new = run[r].new \cup {i}
            /\ run'[r].unbilled = {}
        BY <2>2, <3>2, <4>1 DEF IssueInvoice, Number, RunState
      <4> QED
        BY <2>1, <4>2 DEF InRun
    <3> QED
      BY <1>4, <3>1, <3>2
  <2> QED
    BY <1>t, <2>1, <2>3, QuietStep
<1>5. ASSUME NEW r \in Runs, CommitRun(r) PROVE KeptInv'
  BY <1>t, <1>5, CommitRunKeeps
<1>6. ASSUME NEW r \in Runs, CrashRun(r) PROVE KeptInv'
  <2>1. /\ UNCHANGED <<now, expires, invoice, handler>>
        /\ run'[r].todo = {} /\ run'[r].unbilled = {} /\ run'[r].new = {}
        /\ \A s \in Runs \ {r} : run'[s] = run[s]
    BY <1>t, <1>6 DEF CrashRun, NoRun, Typed
  <2>2. \A t \in Tenants : InRun(t)' => InRun(t)
    BY <2>1 DEF InRun
  <2> QED
    BY <1>t, <2>1, <2>2, QuietStep
<1>7. ASSUME NEW w \in Workers, NEW q \in Prompts, NEW i \in DOMAIN invoice, StkPush(w, q, i)
      PROVE  KeptInv'
  <2>1. /\ UNCHANGED <<now, expires, run, invoice>>
        /\ handler'[w].pc = "pushed" /\ \A v \in Workers \ {w} : handler'[v] = handler[v]
    BY <1>t, <1>7 DEF StkPush, Idle, Typed
  <2> QED
    BY <1>1, <2>1 DEF Working
<1>8. ASSUME NEW w \in Workers, NEW q \in Prompts, CallbackFound(w, q) PROVE KeptInv'
  BY <1>t, <1>8, FoundKeeps
<1>9. ASSUME NEW w \in Workers, CommitPrompt(w) \/ ClearPrompt(w) PROVE KeptInv'
  <2> DEFINE i == handler[w].invoice
  <2>1. i \in DOMAIN invoice /\ invoice[i] \in Row /\ handler \in [Workers -> Request]
    BY <1>t, <1>9 DEF CommitPrompt, ClearPrompt, Typed
  <2>2. PICK p : invoice' = [invoice EXCEPT ![i] = [invoice[i] EXCEPT !.prompt = p]]
    BY <1>9 DEF CommitPrompt, ClearPrompt
  <2>3. /\ DOMAIN invoice' = DOMAIN invoice
        /\ \A j \in DOMAIN invoice : invoice'[j].status = invoice[j].status
    BY <2>1, <2>2 DEF Row
  <2>4. UNCHANGED <<now, expires, run>> /\ handler' = [handler EXCEPT ![w] = Idle]
    BY <1>9 DEF CommitPrompt, ClearPrompt
  <2>5. \A v \in Workers : handler'[v] = handler[v] \/ ~Working(v)'
    BY <2>1, <2>4, IdleTyped DEF Working
  <2> QED
    BY <1>1, <2>3, <2>4, <2>5
<1>10. ASSUME NEW w \in Workers, LoadTenant(w) PROVE KeptInv'
  BY <1>t, <1>10, LoadKeeps
<1>11. ASSUME NEW w \in Workers, CommitExtension(w) PROVE KeptInv'
  BY <1>t, <1>11, ExtendKeeps
<1>12. ASSUME NEW w \in Workers, CrashWorker(w) PROVE KeptInv'
  <2>1. /\ UNCHANGED <<now, expires, run, invoice>>
        /\ \A v \in Workers : handler'[v] = handler[v] \/ ~Working(v)'
    BY <1>t, <1>12, IdleTyped DEF CrashWorker, Typed, Working
  <2> QED
    BY <1>1, <2>1
<1>13. CASE Tick
  <2>1. /\ UNCHANGED <<expires, invoice, run, handler>> /\ \A w \in Workers : ~Working(w)
    BY <1>13 DEF Tick, Working
  <2>2. \A t : Paid(t)' = Paid(t) /\ Pending(t)' = Pending(t) /\ (InRun(t)' <=> InRun(t))
    BY <2>1 DEF Paid, Pending, InRun
  <2> QED
    BY <1>t, <2>1, <2>2
    DEF KeptInv, HasExpiry, Kept, Today, OneWriter, SettledAlready, LoadedKeeps, Working
<1>14. ASSUME NEW w \in Workers, NEW q \in Prompts, CallbackIgnored(w, q) PROVE KeptInv'
  BY <1>1, <1>14 DEF CallbackIgnored
<1>15. ASSUME NEW q \in Prompts, Answer(q) PROVE KeptInv'
  BY <1>1, <1>15 DEF Answer
<1>16. CASE UNCHANGED vars
  BY <1>1, <1>16 DEF vars
<1> QED
  BY <1>2, <1>3, <1>4, <1>5, <1>6, <1>7, <1>8, <1>9, <1>10, <1>11, <1>12, <1>13, <1>14, <1>15, <1>16
  DEF Next, Bill, Settle

\* Where one process runs the billing command and a period is longer than the lead,
\* a tenant's expiry has the period of every invoice it paid, on top of its trial,
\* however many copies of callbacks, workers and prompts settle its invoices.
THEOREM PaidPeriodsKeptHolds ==
    ASSUME \A r, s \in Runs : r = s, Period > Lead
    PROVE  Spec => []PaidPeriodsAreKept
<1>1. Init => KeptInv
  BY KeptInit
<1>2. KeptInv /\ [Next]_vars => KeptInv'
  BY KeptStep
<1>3. KeptInv => PaidPeriodsAreKept
  BY KeptImplies
<1> QED
  BY <1>1, <1>2, <1>3, PTL DEF Spec
=============================================================================
