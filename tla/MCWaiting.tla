----------------------------- MODULE MCWaiting ------------------------------
(***************************************************************************)
(* The pages and jobs that wait for one another: a page polls, a thread or *)
(* a device works, and either may be late, lost or restarted.  The console *)
(* is a single-page application and shows one page at a time, so a         *)
(* behaviour is about one part: `part` says which, and s1, s2, ... are its *)
(* variables.                                                              *)
(***************************************************************************)
EXTENDS Naturals, FiniteSets, Sequences, FiniteSetTheorems, SequenceTheorems, TLAPS

CONSTANTS Consoles, Candidates, Workers, MaxTries,   \* of the imports, MaxTries of a scan too
          Runs, Chunks,                              \* of a scan
          Bills, Totals, MaxPushes, MaxPolls, MaxReads, MaxSaves,  \* of the invoices
          Dues, MaxMounts, MaxPrompts,               \* of the platform's invoices
          Goods, MaxOrders, MaxAttempts,             \* of the portal
          Persons, Emails, Slugs, MaxSignups, MaxReloads, MayLose, MayCrash,  \* of the sign-up
          Typed, AllowUnknown,                       \* of the CPEs
          Threads, MaxThreads, HistoryTurns, MaxQuestions, MaxOpened,   \* of the copilot
          Subscribers, MaxPassword, MaxLoads, MaxCalls             \* of a client's page

VARIABLES part,   \* what the behaviour is about, from the first state on
          s1, s2, s3, s4, s5, s6, s7, s8, s9, s10, s11, s12, s13   \* the variables of that part

vars == <<part, s1, s2, s3, s4, s5, s6, s7, s8, s9, s10, s11, s12, s13>>

\* The paywall of a tenant whose subscription lapses and is settled.
Gate == INSTANCE SubscriptionGate
    WITH user <- s1, state <- s2, loaded <- s3, armed <- s4, requests <- s5, page <- s6,
         locked <- s7, noticed <- s8, heard <- s9, Users <- {"ann"}, MaxRequests <- 1,
         CanSwitch <- TRUE, MayFail <- TRUE

\* The page that pays the platform's invoice, visited twice.
Bill == INSTANCE InvoicePolling
    WITH page <- s1, mounts <- s2, view <- s3, dialog <- s4, sending <- s5, prompts <- s6,
         pays <- s7, awaiting <- s8, timer <- s9, polls <- s10, loads <- s11, paid <- s12,
         unlocks <- s13, Invoices <- Dues, MaxMounts <- MaxMounts,
         MaxPrompts <- MaxPrompts

\* A subscriber buys on the portal, with readings that fail,
Shop == INSTANCE PortalCheckout
    WITH shop <- s1, catalog <- s2, text <- s3, lookups <- s4, shown <- s5, paying <- s6,
         step <- s7, checkout <- s8, left <- s9, reading <- s10, orders <- s11,
         prompts <- s12, Items <- Goods, MaxPrompts <- MaxOrders,
         MaxAttempts <- MaxAttempts, MayFail <- TRUE

\* and with readings that do not.
SureShop == INSTANCE PortalCheckout
    WITH shop <- s1, catalog <- s2, text <- s3, lookups <- s4, shown <- s5, paying <- s6,
         step <- s7, checkout <- s8, left <- s9, reading <- s10, orders <- s11,
         prompts <- s12, Items <- {"a"}, MaxPrompts <- 2, MaxAttempts <- 2, MayFail <- FALSE

\* A person signs up, loses answers and reloads.
Signup == INSTANCE Onboarding
    WITH step <- s1, email <- s2, token <- s3, saved <- s4, busy <- s5, reply <- s6,
         screen <- s7, reloads <- s8, row <- s9, job <- s10, tenants <- s11, admins <- s12,
         Persons <- Persons, Emails <- Emails, Slugs <- Slugs, MaxSignups <- MaxSignups,
         MaxReloads <- MaxReloads, MayLose <- MayLose, MayCrash <- MayCrash

\* A run is imported on a server that is not restarted,
Import == INSTANCE ImportRun
    WITH status <- s1, cand <- s2, linked <- s3, clients <- s4, paid <- s5, counts <- s6,
         worker <- s7, view <- s8, phase <- s9, tries <- s10, result <- s11,
         Consoles <- Consoles, Candidates <- Candidates, Workers <- Workers,
         MaxTries <- MaxTries, Careful <- TRUE, Restarts <- FALSE

\* and on one that is.
DownImport == INSTANCE ImportRun
    WITH status <- s1, cand <- s2, linked <- s3, clients <- s4, paid <- s5, counts <- s6,
         worker <- s7, view <- s8, phase <- s9, tries <- s10, result <- s11,
         Consoles <- Consoles, Candidates <- Candidates, Workers <- Workers,
         MaxTries <- MaxTries, Careful <- TRUE, Restarts <- TRUE

\* A router is scanned with every upload arriving,
Scan == INSTANCE RouterScan
    WITH run <- s1, thread <- s2, readable <- s3, stored <- s4, found <- s5, blocked <- s6,
         next <- s7, token <- s8, shown <- s9, polled <- s10, tries <- s11,
         committed <- s12, Runs <- Runs, Chunks <- Chunks, MaxTries <- MaxTries, Lossy <- FALSE,
         Direct <- FALSE

\* and with uploads lost.
LossyScan == INSTANCE RouterScan
    WITH run <- s1, thread <- s2, readable <- s3, stored <- s4, found <- s5, blocked <- s6,
         next <- s7, token <- s8, shown <- s9, polled <- s10, tries <- s11,
         committed <- s12, Runs <- Runs, Chunks <- Chunks, MaxTries <- MaxTries, Lossy <- TRUE,
         Direct <- FALSE

\* The tasks of a CPE.
Tasks == INSTANCE CpeTasks
    WITH status <- s1, tasks <- s2, session <- s3, rpc <- s4, approved <- s5, MaxTasks <- 2,
         MaxAttempts <- 2

\* The list of CPEs, one request at a time.
Fleet == INSTANCE CpeFleet
    WITH rows <- s1, list <- s2, loading <- s3, actionId <- s4, reqs <- s5, dialog <- s6,
         seen <- s7, Typed <- Typed, AllowUnknown <- AllowUnknown, MaxOut <- 1,
         Lossy <- FALSE

\* The copilot, used by one who waits.
Chat == INSTANCE CopilotChat
    WITH order <- s1, stored <- s2, given <- s3, asked <- s4, elsewhere <- s5, asks <- s6,
         open <- s7, booting <- s8, history <- s9, active <- s10, screen <- s11,
         sending <- s12, opening <- s13, Threads <- Threads, MaxThreads <- MaxThreads,
         HistoryTurns <- HistoryTurns, Switching <- FALSE, Losses <- FALSE,
         MaxQuestions <- MaxQuestions, MaxElsewhere <- 0, MaxReads <- MaxOpened

\* The page of a client, with every answer arriving,
Client == INSTANCE ClientRecord
    WITH db <- s1, at <- s2, client <- s3, loading <- s4, loads <- s5, calls <- s6,
         password <- s7, modal <- s8, Clients <- Subscribers, Moving <- FALSE, Losses <- FALSE,
         MaxPassword <- MaxPassword, MaxLoads <- MaxLoads, MaxCalls <- MaxCalls

\* and left for another one, with answers lost.
MovingClient == INSTANCE ClientRecord
    WITH db <- s1, at <- s2, client <- s3, loading <- s4, loads <- s5, calls <- s6,
         password <- s7, modal <- s8, Clients <- {"a", "b"}, Moving <- TRUE, Losses <- TRUE,
         MaxPassword <- 1, MaxLoads <- 1, MaxCalls <- 1

\* Invoices are paid from the list,
Invoice == INSTANCE InvoiceDesk
    WITH invoices <- s1, payments <- s2, filter <- s3, rows <- s4, readings <- s5, modal <- s6,
         push <- s7, polls <- s8, form <- s9, said <- s10, reads <- s11, saves <- s12,
         Ids <- Bills, Amounts <- Totals, Stays <- FALSE, MaxPushes <- MaxPushes,
         MaxPolls <- MaxPolls, MaxReads <- MaxReads, MaxSaves <- MaxSaves

\* and from their own page, which has no tabs.
InvoicePage == INSTANCE InvoiceDesk
    WITH invoices <- s1, payments <- s2, filter <- s3, rows <- s4, readings <- s5, modal <- s6,
         push <- s7, polls <- s8, form <- s9, said <- s10, reads <- s11, saves <- s12,
         Ids <- Bills, Amounts <- Totals, Stays <- TRUE, MaxPushes <- MaxPushes,
         MaxPolls <- MaxPolls, MaxReads <- 1, MaxSaves <- MaxSaves

ASSUME WaitingAssumption ==
    /\ Gate!GateAssumption /\ Bill!PollingAssumption /\ Shop!CheckoutAssumption
    /\ SureShop!CheckoutAssumption /\ Signup!OnboardingAssumption /\ Import!RunAssumption
    /\ DownImport!RunAssumption /\ Scan!ScanAssumption /\ LossyScan!ScanAssumption
    /\ Tasks!CpeTasksAssumption /\ Fleet!CpeFleetAssumption /\ Chat!CopilotAssumption
    /\ Client!RecordAssumption /\ MovingClient!RecordAssumption /\ Invoice!DeskAssumption
    /\ InvoicePage!DeskAssumption

-----------------------------------------------------------------------------
Init ==
    \/ /\ part = "gate" /\ Gate!Init
       /\ s10 = "idle" /\ s11 = "idle" /\ s12 = "idle" /\ s13 = "idle"
    \/ /\ part = "bill" /\ Bill!Init
    \/ /\ part = "shop" /\ Shop!Init
       /\ s13 = "idle"
    \/ /\ part = "shopSure" /\ SureShop!Init
       /\ s13 = "idle"
    \/ /\ part = "signup" /\ Signup!Init
       /\ s13 = "idle"
    \/ /\ part = "import" /\ Import!Init
       /\ s12 = "idle" /\ s13 = "idle"
    \/ /\ part = "importDown" /\ DownImport!Init
       /\ s12 = "idle" /\ s13 = "idle"
    \/ /\ part = "scan" /\ Scan!Init
       /\ s13 = "idle"
    \/ /\ part = "scanLossy" /\ LossyScan!Init
       /\ s13 = "idle"
    \/ /\ part = "tasks" /\ Tasks!Init
       /\ s6 = "idle" /\ s7 = "idle" /\ s8 = "idle" /\ s9 = "idle" /\ s10 = "idle"
       /\ s11 = "idle" /\ s12 = "idle" /\ s13 = "idle"
    \/ /\ part = "fleet" /\ Fleet!Init
       /\ s8 = "idle" /\ s9 = "idle" /\ s10 = "idle" /\ s11 = "idle" /\ s12 = "idle"
       /\ s13 = "idle"
    \/ /\ part = "chat" /\ Chat!Init
    \/ /\ part = "client" /\ Client!Init
       /\ s9 = "idle" /\ s10 = "idle" /\ s11 = "idle" /\ s12 = "idle" /\ s13 = "idle"
    \/ /\ part = "clientMoving" /\ MovingClient!Init
       /\ s9 = "idle" /\ s10 = "idle" /\ s11 = "idle" /\ s12 = "idle" /\ s13 = "idle"
    \/ /\ part = "invoice" /\ Invoice!Init
       /\ s13 = "idle"
    \/ /\ part = "invoicePage" /\ InvoicePage!Init
       /\ s13 = "idle"

Next ==
    \/ part = "gate" /\ Gate!Next /\ UNCHANGED <<part, s10, s11, s12, s13>>
    \/ part = "bill" /\ Bill!Next /\ UNCHANGED <<part>>
    \/ part = "shop" /\ Shop!Next /\ UNCHANGED <<part, s13>>
    \/ part = "shopSure" /\ SureShop!Next /\ UNCHANGED <<part, s13>>
    \/ part = "signup" /\ Signup!Next /\ UNCHANGED <<part, s13>>
    \/ part = "import" /\ Import!Next /\ UNCHANGED <<part, s12, s13>>
    \/ part = "importDown" /\ DownImport!Next /\ UNCHANGED <<part, s12, s13>>
    \/ part = "scan" /\ Scan!Next /\ UNCHANGED <<part, s13>>
    \/ part = "scanLossy" /\ LossyScan!Next /\ UNCHANGED <<part, s13>>
    \/ part = "tasks" /\ Tasks!Next /\ UNCHANGED <<part, s6, s7, s8, s9, s10, s11, s12, s13>>
    \/ part = "fleet" /\ Fleet!Next /\ UNCHANGED <<part, s8, s9, s10, s11, s12, s13>>
    \/ part = "chat" /\ Chat!Next /\ UNCHANGED <<part>>
    \/ part = "client" /\ Client!Next /\ UNCHANGED <<part, s9, s10, s11, s12, s13>>
    \/ part = "clientMoving" /\ MovingClient!Next /\ UNCHANGED <<part, s9, s10, s11, s12, s13>>
    \/ part = "invoice" /\ Invoice!Next /\ UNCHANGED <<part, s13>>
    \/ part = "invoicePage" /\ InvoicePage!Next /\ UNCHANGED <<part, s13>>

\* Timers go off, threads and devices work.
Work ==
    \/ part = "gate" /\ Gate!Work /\ UNCHANGED <<part, s10, s11, s12, s13>>
    \/ part = "bill" /\ Bill!Work /\ UNCHANGED <<part>>
    \/ part = "shop" /\ Shop!Work /\ UNCHANGED <<part, s13>>
    \/ part = "shopSure" /\ SureShop!Work /\ UNCHANGED <<part, s13>>
    \/ part = "signup" /\ Signup!Work /\ UNCHANGED <<part, s13>>
    \/ part = "import" /\ Import!Work /\ UNCHANGED <<part, s12, s13>>
    \/ part = "importDown" /\ DownImport!Work /\ UNCHANGED <<part, s12, s13>>
    \/ part = "scan" /\ Scan!Work /\ UNCHANGED <<part, s13>>
    \/ part = "scanLossy" /\ LossyScan!Work /\ UNCHANGED <<part, s13>>
    \/ part = "tasks" /\ Tasks!Work /\ UNCHANGED <<part, s6, s7, s8, s9, s10, s11, s12, s13>>
    \/ part = "client" /\ Client!Work /\ UNCHANGED <<part, s9, s10, s11, s12, s13>>
    \/ part = "clientMoving" /\ MovingClient!Work /\ UNCHANGED <<part, s9, s10, s11, s12, s13>>
    \/ part = "invoice" /\ Invoice!Work /\ UNCHANGED <<part, s13>>
    \/ part = "invoicePage" /\ InvoicePage!Work /\ UNCHANGED <<part, s13>>

\* Pages and devices ask again.
Asks ==
    \/ part = "gate" /\ Gate!Asks /\ UNCHANGED <<part, s10, s11, s12, s13>>
    \/ part = "bill" /\ Bill!Asks /\ UNCHANGED <<part>>
    \/ part = "shop" /\ Shop!Asks /\ UNCHANGED <<part, s13>>
    \/ part = "shopSure" /\ SureShop!Asks /\ UNCHANGED <<part, s13>>
    \/ part = "signup" /\ Signup!Asks /\ UNCHANGED <<part, s13>>
    \/ part = "import" /\ Import!Asks /\ UNCHANGED <<part, s12, s13>>
    \/ part = "importDown" /\ DownImport!Asks /\ UNCHANGED <<part, s12, s13>>
    \/ part = "scan" /\ Scan!Asks /\ UNCHANGED <<part, s13>>
    \/ part = "scanLossy" /\ LossyScan!Asks /\ UNCHANGED <<part, s13>>
    \/ part = "tasks" /\ Tasks!Asks /\ UNCHANGED <<part, s6, s7, s8, s9, s10, s11, s12, s13>>
    \/ part = "fleet" /\ Fleet!Asks /\ UNCHANGED <<part, s8, s9, s10, s11, s12, s13>>
    \/ part = "invoice" /\ Invoice!Asks /\ UNCHANGED <<part, s13>>
    \/ part = "invoicePage" /\ InvoicePage!Asks /\ UNCHANGED <<part, s13>>

\* Requests end, answered or not, and what arrived is handled.
Answers ==
    \/ part = "gate" /\ Gate!Answers /\ UNCHANGED <<part, s10, s11, s12, s13>>
    \/ part = "bill" /\ Bill!Answers /\ UNCHANGED <<part>>
    \/ part = "shop" /\ Shop!Answers /\ UNCHANGED <<part, s13>>
    \/ part = "shopSure" /\ SureShop!Answers /\ UNCHANGED <<part, s13>>
    \/ part = "fleet" /\ Fleet!Answers /\ UNCHANGED <<part, s8, s9, s10, s11, s12, s13>>
    \/ part = "chat" /\ Chat!Answers /\ UNCHANGED <<part>>
    \/ part = "client" /\ Client!Answers /\ UNCHANGED <<part, s9, s10, s11, s12, s13>>
    \/ part = "clientMoving" /\ MovingClient!Answers /\ UNCHANGED <<part, s9, s10, s11, s12, s13>>
    \/ part = "invoice" /\ Invoice!Answers /\ UNCHANGED <<part, s13>>
    \/ part = "invoicePage" /\ InvoicePage!Answers /\ UNCHANGED <<part, s13>>

\* A device does not drop every session before its first turn.
Turns ==
    \/ part = "tasks" /\ Tasks!Turns /\ UNCHANGED <<part, s6, s7, s8, s9, s10, s11, s12, s13>>

Spec == Init /\ [][Next]_vars /\ WF_vars(Work) /\ WF_vars(Asks) /\ WF_vars(Answers) /\ SF_vars(Turns)

-----------------------------------------------------------------------------
\* The variables of each part have their types, which say what cannot go
\* together: a poll without a run, a dialog over nothing, a task sent twice.
TypeOK ==
    /\ part = "gate" => Gate!TypeOK
    /\ part = "bill" => Bill!TypeOK
    /\ part = "shop" => Shop!TypeOK
    /\ part = "shopSure" => SureShop!TypeOK
    /\ part = "signup" => Signup!TypeOK
    /\ part = "import" => Import!TypeOK
    /\ part = "importDown" => DownImport!TypeOK
    /\ part = "scan" => Scan!TypeOK
    /\ part = "scanLossy" => LossyScan!TypeOK
    /\ part = "tasks" => Tasks!TypeOK
    /\ part = "fleet" => Fleet!TypeOK
    /\ part = "chat" => Chat!TypeOK
    /\ part = "client" => Client!TypeOK
    /\ part = "clientMoving" => MovingClient!TypeOK
    /\ part = "invoice" => Invoice!TypeOK
    /\ part = "invoicePage" => InvoicePage!TypeOK

\* What a page says of money, runs, routers and accounts is so on the server:
\* an invoice shown as awaited is polled for, a receipt is of the sale on
\* screen, a finished sign-up can be signed in to, an import's counts and
\* marks are of clients that exist, a scan called whole is whole, a client's
\* status is the stored one, and "paid" is of a paid invoice.
WhatIsSaidIsTrue ==
    /\ part = "bill" => Bill!AwaitingIsPolled
    /\ part = "shop" => Shop!ReceiptIsOwn
    /\ part = "signup" => Signup!CompletedIsUsable /\ Signup!StepNeverAhead
    /\ part = "import" => Import!ResultIsTrue /\ Import!MarkedIsReal
    /\ part = "importDown" => DownImport!ResultIsTrue /\ DownImport!MarkedIsReal
    /\ part = "scan" => Scan!ScannedIsWhole
    /\ part = "scanLossy" => LossyScan!ShownIsFound /\ LossyScan!BlockedStays
    /\ part = "fleet" => Fleet!RestShowsRows
    /\ part = "chat" => Chat!PanelIsStored
    /\ part = "client" => Client!StatusShownIsStored
    /\ part = "invoice" => Invoice!ToldIsPaid
    /\ part = "invoicePage" => InvoicePage!ToldIsPaid

\* No step takes back what is paid for or promised: an import that
\* is reverted leaves clients who paid, only candidates of the latest scan are
\* imported, and an invoice loses neither its payments nor being paid, but by a
\* request that names its status.
NothingIsTaken ==
    [][/\ part = "import" => Import!PaidStay
       /\ part = "importDown" => DownImport!PaidStay
       /\ part = "scan" => Scan!ImportedIsScanned
       /\ part = "invoice" => Invoice!PaymentsStay /\ Invoice!PaidStaysPaid
       /\ part = "invoicePage" => InvoicePage!PaymentsStay /\ InvoicePage!PaidStaysPaid]_vars

\* Nothing is on its way in the part: its page polls nothing, its spinners
\* are off, its task is closed.
AtRest ==
    /\ part = "gate" => Gate!GateOpens
    /\ part = "bill" => Bill!PollingEnds
    /\ part = "shop" => Shop!FlowEnds
    /\ part = "signup" => Signup!ScreenFollowsJob
    /\ part = "import" => Import!ImportSettles /\ Import!PollingEnds
    /\ part = "importDown" => DownImport!PollingEnds
    /\ part = "scan" => Scan!ScanSettles
    /\ part = "scanLossy" => LossyScan!PollingEnds
    /\ part = "tasks" => Tasks!QueuedIsClosed
    /\ part = "fleet" => Fleet!RejectedReturns
    /\ part = "chat" => Chat!PanelSettles
    /\ part = "client" => Client!PageSettles
    /\ part = "clientMoving" => MovingClient!PageSettles
    /\ part = "invoice" => Invoice!DialogReleases
    /\ part = "invoicePage" => InvoicePage!DialogReleases

\* Every wait ends, again and again: a page stops polling, a spinner or a
\* disabled button is released and a task of a CPE is done, failed or
\* cancelled, although scans die, uploads are lost and sessions break off.
WaitingEnds == []<>AtRest

\* A call of a locked tenant that is under way comes to the paywall, whichever
\* page made it: the 402 of any call opens the gate.
UnpaidMeetThePaywall == []<>(part = "gate" => Gate!CallsMeetThePaywall)

\* Something was paid: the platform's invoice, or an order before the portal
\* stops asking.
SaidPaid(n) ==
    \/ part = "bill" /\ Bill!SaidPaid(n)
    \/ part = "shopSure" /\ SureShop!PaidInTime(n)

\* The tenant's subscription was read again, or the buyer was told or has left.
Followed(n) ==
    \/ part = "bill" /\ Bill!Refreshed(n)
    \/ part = "shopSure" /\ SureShop!ToldOrLeft(n)

\* A payment that the server has booked reaches the one who made it: the
\* tenant's console reads its subscription again, and the buyer on the portal
\* is told so or has closed the page.
PaidIsFollowed == \A n \in 1 .. 2 : SaidPaid(n) ~> Followed(n)

-----------------------------------------------------------------------------
(*                                 Proofs                                  *)

\* No step changes what the behaviour is about.
LEMMA PartStays == [Next]_vars => part' = part
BY DEF Next, vars

LEMMA BillSteps == part = "bill" /\ [Next]_vars => [Bill!Next]_(Bill!vars)
BY DEF Next, vars, Bill!vars

LEMMA ShopSteps == part = "shop" /\ [Next]_vars => [Shop!Next]_(Shop!vars)
BY DEF Next, vars, Shop!vars

LEMMA SignupSteps == part = "signup" /\ [Next]_vars => [Signup!Next]_(Signup!vars)
BY DEF Next, vars, Signup!vars, Signup!wizard, Signup!server

LEMMA LossyScanSteps == part = "scanLossy" /\ [Next]_vars => [LossyScan!Next]_(LossyScan!vars)
BY DEF Next, vars, LossyScan!vars

LEMMA FleetSteps == part = "fleet" /\ [Next]_vars => [Fleet!Next]_(Fleet!vars)
BY DEF Next, vars, Fleet!vars

LEMMA ChatSteps == part = "chat" /\ [Next]_vars => [Chat!Next]_(Chat!vars)
BY DEF Next, vars, Chat!vars, Chat!server, Chat!panel

LEMMA ClientSteps == part = "client" /\ [Next]_vars => [Client!Next]_(Client!vars)
BY DEF Next, vars, Client!vars, Client!pageVars

LEMMA ImportSteps == part = "import" /\ [Next]_vars => [Import!Next]_(Import!vars)
BY DEF Next, vars, Import!vars

LEMMA DownImportSteps == part = "importDown" /\ [Next]_vars => [DownImport!Next]_(DownImport!vars)
BY DEF Next, vars, DownImport!vars

LEMMA ScanSteps == part = "scan" /\ [Next]_vars => [Scan!Next]_(Scan!vars)
BY DEF Next, vars, Scan!vars

LEMMA InvoiceSteps == part = "invoice" /\ [Next]_vars => [Invoice!Next]_(Invoice!vars)
BY DEF Next, vars, Invoice!vars

LEMMA InvoicePageSteps == part = "invoicePage" /\ [Next]_vars => [InvoicePage!Next]_(InvoicePage!vars)
BY DEF Next, vars, InvoicePage!vars

-----------------------------------------------------------------------------
(*                        Clients who have paid                            *)

\* s4 are the clients an import made, s5 those of them who paid.
PaidExist == s5 \subseteq s4

LEMMA ImportStep == PaidExist /\ [Import!Next]_(Import!vars) => PaidExist' /\ Import!PaidStay
<1> SUFFICES ASSUME PaidExist, [Import!Next]_(Import!vars) PROVE PaidExist' /\ Import!PaidStay
  OBVIOUS
<1>1. ASSUME NEW p \in Consoles, Import!DoRevert(p) PROVE PaidExist' /\ Import!PaidStay
  BY <1>1 DEF PaidExist, Import!PaidStay, Import!DoRevert, Import!Go
<1>2. ASSUME NEW w \in Workers, NEW c \in Candidates, NEW ok \in BOOLEAN, Import!Batch(w, c, ok)
      PROVE  PaidExist' /\ Import!PaidStay
  BY <1>2 DEF PaidExist, Import!PaidStay, Import!Batch
<1>3. ASSUME NEW c \in Candidates, Import!Pay(c) PROVE PaidExist' /\ Import!PaidStay
  BY <1>3 DEF PaidExist, Import!PaidStay, Import!Pay
<1>4. ASSUME UNCHANGED <<s4, s5>> PROVE PaidExist' /\ Import!PaidStay
  BY <1>4 DEF PaidExist, Import!PaidStay
<1>5. ASSUME NEW p \in Consoles,
             \/ Import!Loaded(p) \/ Import!LoadFails(p) \/ Import!Reopen(p) \/ Import!Import(p)
             \/ Import!Revert(p) \/ Import!Refused(p) \/ (\E w \in Workers : Import!Start(p, w))
             \/ Import!RevertFails(p) \/ Import!PollAgain(p) \/ Import!GiveUp(p)
             \/ Import!LostContact(p) \/ Import!Settled(p) \/ Import!RunFailed(p)
      PROVE  UNCHANGED <<s4, s5>>
  BY <1>5 DEF Import!Loaded, Import!LoadFails, Import!Reopen, Import!Import, Import!Revert,
     Import!Refused, Import!Start, Import!RevertFails, Import!PollAgain, Import!GiveUp,
     Import!LostContact, Import!Settled, Import!RunFailed, Import!server
<1>6. ASSUME (\E w \in Workers : Import!Choose(w) \/ Import!Finish(w) \/ Import!Crash(w)) \/ Import!Restart
      PROVE  UNCHANGED <<s4, s5>>
  BY <1>6 DEF Import!Choose, Import!Finish, Import!Crash, Import!Restart
<1>7. CASE UNCHANGED Import!vars
  BY <1>4, <1>7 DEF Import!vars
<1> HIDE DEF PaidExist
<1> QED
  BY <1>1, <1>2, <1>3, <1>4, <1>5, <1>6, <1>7 DEF Import!Next

\* The two imports differ in restarts alone, which touch no client.
LEMMA DownImportStep ==
    PaidExist /\ [DownImport!Next]_(DownImport!vars) => PaidExist' /\ DownImport!PaidStay
<1> SUFFICES ASSUME PaidExist, [DownImport!Next]_(DownImport!vars)
             PROVE  PaidExist' /\ DownImport!PaidStay
  OBVIOUS
<1> USE DEF DownImport!PaidStay
<1>1. ASSUME NEW p \in Consoles, DownImport!DoRevert(p) PROVE PaidExist' /\ DownImport!PaidStay
  BY <1>1 DEF PaidExist, DownImport!DoRevert, DownImport!Go
<1>2. ASSUME NEW w \in Workers, NEW c \in Candidates, NEW ok \in BOOLEAN, DownImport!Batch(w, c, ok)
      PROVE  PaidExist' /\ DownImport!PaidStay
  BY <1>2 DEF PaidExist, DownImport!Batch
<1>3. ASSUME NEW c \in Candidates, DownImport!Pay(c) PROVE PaidExist' /\ DownImport!PaidStay
  BY <1>3 DEF PaidExist, DownImport!Pay
<1>4. ASSUME UNCHANGED <<s4, s5>> PROVE PaidExist' /\ DownImport!PaidStay
  BY <1>4 DEF PaidExist
<1>5. ASSUME NEW p \in Consoles,
             \/ DownImport!Loaded(p) \/ DownImport!LoadFails(p) \/ DownImport!Reopen(p)
             \/ DownImport!Import(p) \/ DownImport!Revert(p) \/ DownImport!Refused(p)
             \/ (\E w \in Workers : DownImport!Start(p, w)) \/ DownImport!RevertFails(p)
             \/ DownImport!PollAgain(p) \/ DownImport!GiveUp(p) \/ DownImport!LostContact(p)
             \/ DownImport!Settled(p) \/ DownImport!RunFailed(p)
      PROVE  UNCHANGED <<s4, s5>>
  BY <1>5 DEF DownImport!Loaded, DownImport!LoadFails, DownImport!Reopen, DownImport!Import,
     DownImport!Revert, DownImport!Refused, DownImport!Start, DownImport!RevertFails,
     DownImport!PollAgain, DownImport!GiveUp, DownImport!LostContact, DownImport!Settled,
     DownImport!RunFailed, DownImport!server
<1>6. ASSUME \/ \E w \in Workers : DownImport!Choose(w) \/ DownImport!Finish(w) \/ DownImport!Crash(w)
             \/ DownImport!Restart
      PROVE  UNCHANGED <<s4, s5>>
  BY <1>6 DEF DownImport!Choose, DownImport!Finish, DownImport!Crash, DownImport!Restart
<1>7. CASE UNCHANGED DownImport!vars
  BY <1>4, <1>7 DEF DownImport!vars
<1> HIDE DEF PaidExist, DownImport!PaidStay
<1> QED
  BY <1>1, <1>2, <1>3, <1>4, <1>5, <1>6, <1>7 DEF DownImport!Next

-----------------------------------------------------------------------------
(*                    What is imported has been scanned                    *)

\* s1 are the runs, s2 those read by a thread, s8 those whose upload token counts, s9 the
\* one shown and s10 the one polled.  A thread works on a run over SSH that is still
\* scanning, an upload is to a run of the agent, and what is shown ended well.
ScanInv ==
    /\ DOMAIN s1 = Runs
    /\ \A r \in Runs : s1[r] # Scan!Absent =>
           DOMAIN s1[r] = {"source", "status"} /\ s1[r].status \in {"scanning", "scanned", "failed", "completed"}
    /\ \A r \in Runs : r \in s2 => s1[r] # Scan!Absent /\ s1[r].source = "ssh" /\ s1[r].status = "scanning"
    /\ \A r \in Runs : r \in s8 => s1[r] # Scan!Absent /\ s1[r].source = "agent"
    /\ s9 # "none" => s9 \in Runs /\ s1[s9] # Scan!Absent /\ s1[s9].status \in {"scanned", "completed"}
    /\ s10 # "none" => s10 \in Runs /\ s1[s10] # Scan!Absent

LEMMA ScanBegin == Scan!Init => ScanInv
BY DEF Scan!Init, ScanInv, Scan!None

LEMMA ScanStep == ScanInv /\ [Scan!Next]_(Scan!vars) => ScanInv' /\ Scan!ImportedIsScanned
<1> DEFINE Safe == ScanInv' /\ Scan!ImportedIsScanned
<1> SUFFICES ASSUME ScanInv, [Scan!Next]_(Scan!vars) PROVE Safe
  OBVIOUS
<1>n. "none" \notin Runs
  BY WaitingAssumption DEF Scan!ScanAssumption
<1>a. Scan!Absent.status = "none" /\ Scan!Absent.source = "none"
  BY DEF Scan!Absent
\* The run r takes the state x; none is imported.
<1>1. ASSUME NEW r \in Runs, NEW x, s1' = [s1 EXCEPT ![r] = x], DOMAIN x = {"source", "status"},
             x # Scan!Absent,
             x.status \in {"scanning", "scanned", "failed", "completed"},
             s12' = s12, s2' \subseteq s2 \cup {r}, s8' \subseteq s8 \cup {r},
             r \in s2' => x.source = "ssh" /\ x.status = "scanning",
             r \in s8' => x.source = "agent",
             s9' \in {s9, r, "none"}, s9' = r => x.status \in {"scanned", "completed"},
             s10' \in {s10, r, "none"}
      PROVE  Safe
  BY <1>1, <1>n DEF ScanInv, Scan!ImportedIsScanned
<1>2. ASSUME s1' = s1, s12' = s12, s2' \subseteq s2, s8' \subseteq s8,
             s9' = s9 \/ (s10 # "none" /\ s9' = s10 /\ s1[s10].status \in {"scanned", "completed"}),
             s10' \in {s10, "none"}
      PROVE  Safe
  BY <1>2 DEF ScanInv, Scan!ImportedIsScanned
<1>3. ASSUME NEW r \in Runs, Scan!ScanOverSsh(r) PROVE Safe
  <2> DEFINE x == [source |-> "ssh", status |-> "scanning"]
  <2>1. s1[r] = Scan!Absent /\ s1' = [s1 EXCEPT ![r] = x] /\ s2' = s2 \cup {r} /\ UNCHANGED <<s8, s12>>
        /\ s9' = "none" /\ s10' = r
    BY <1>3 DEF Scan!ScanOverSsh, Scan!Created, Scan!None
  <2>2. DOMAIN x = {"source", "status"} /\ x.source = "ssh" /\ x.status = "scanning"
    OBVIOUS
  <2>3. r \notin s8
    BY <2>1 DEF ScanInv
  <2>4. x # Scan!Absent
    BY <1>a, <2>2
  <2> HIDE DEF x, Safe
  <2> QED
    BY <1>1, <1>n, <2>1, <2>2, <2>3, <2>4
<1>4. ASSUME NEW r \in Runs, Scan!AgentScript(r) PROVE Safe
  <2> DEFINE x == [source |-> "agent", status |-> "scanning"]
  <2>1. s1[r] = Scan!Absent /\ s1' = [s1 EXCEPT ![r] = x] /\ s8' = s8 \cup {r}
        /\ UNCHANGED <<s2, s9, s10, s12>>
    BY <1>4 DEF Scan!AgentScript, Scan!Created, Scan!page
  <2>2. DOMAIN x = {"source", "status"} /\ x.source = "agent" /\ x.status = "scanning"
    OBVIOUS
  <2>3. r \notin s2 /\ s9 # r
    BY <1>n, <2>1 DEF ScanInv
  <2>4. x # Scan!Absent
    BY <1>a, <2>2
  <2> HIDE DEF x, Safe
  <2> QED
    BY <1>1, <2>1, <2>2, <2>3, <2>4
<1>5. ASSUME NEW r \in Runs, Scan!ScanExport(r) PROVE Safe
  <2> DEFINE x == [source |-> "export", status |-> "scanned"]
  <2>1. s1[r] = Scan!Absent /\ s1' = [s1 EXCEPT ![r] = x] /\ UNCHANGED <<s2, s8, s10, s12>> /\ s9' = r
    BY <1>5 DEF Scan!ScanExport, Scan!agent
  <2>2. DOMAIN x = {"source", "status"} /\ x.source = "export" /\ x.status = "scanned"
    OBVIOUS
  <2>3. r \notin s2 /\ r \notin s8
    BY <2>1 DEF ScanInv
  <2>4. x # Scan!Absent
    BY <1>a, <2>2
  <2> HIDE DEF x, Safe
  <2> QED
    BY <1>1, <2>1, <2>2, <2>3, <2>4
\* A run that is there takes another status.
<1>6. ASSUME NEW r \in Runs, s1[r] # Scan!Absent, NEW st \in {"scanned", "failed", "completed"}
      PROVE  LET x == [s1[r] EXCEPT !.status = st] IN
             /\ [s1 EXCEPT ![r].status = st] = [s1 EXCEPT ![r] = x]
             /\ DOMAIN x = {"source", "status"} /\ x.source = s1[r].source /\ x.status = st
             /\ x # Scan!Absent
  <2> DEFINE x == [s1[r] EXCEPT !.status = st]
  <2>1. DOMAIN x = {"source", "status"} /\ x.source = s1[r].source /\ x.status = st
    BY <1>6 DEF ScanInv
  <2>2. x # Scan!Absent
    BY <1>a, <2>1
  <2>3. [s1 EXCEPT ![r].status = st] = [s1 EXCEPT ![r] = x]
    OBVIOUS
  <2> QED
    BY <2>1, <2>2, <2>3
<1>7. ASSUME NEW r \in Runs, Scan!ThreadFails(r) PROVE Safe
  <2> DEFINE x == [s1[r] EXCEPT !.status = "failed"]
  <2>1. r \in s2 /\ s2' = s2 \ {r} /\ s1' = [s1 EXCEPT ![r].status = "failed"] /\ UNCHANGED <<s8, s9, s10, s12>>
    BY <1>7 DEF Scan!ThreadFails, Scan!agent, Scan!page
  <2>2. s1[r] # Scan!Absent /\ s1[r].source = "ssh" /\ s1[r].status = "scanning"
    BY <2>1 DEF ScanInv
  <2>3. s9 # r /\ r \notin s8
    BY <1>n, <2>2 DEF ScanInv
  <2>4. /\ s1' = [s1 EXCEPT ![r] = x]
        /\ DOMAIN x = {"source", "status"} /\ x.source = "ssh" /\ x.status = "failed" /\ x # Scan!Absent
    BY <1>6, <2>1, <2>2
  <2> HIDE DEF x, Safe
  <2> QED
    BY <1>1, <2>1, <2>3, <2>4
<1>8. ASSUME NEW r \in Runs, Scan!ThreadEnds(r) PROVE Safe
  <2> DEFINE x == [s1[r] EXCEPT !.status = "scanned"]
  <2>1. r \in s2 /\ s2' = s2 \ {r} /\ s1' = [s1 EXCEPT ![r].status = "scanned"] /\ UNCHANGED <<s8, s9, s10, s12>>
    BY <1>8 DEF Scan!ThreadEnds, Scan!agent, Scan!page
  <2>2. s1[r] # Scan!Absent /\ s1[r].source = "ssh" /\ r \notin s8
    BY <2>1 DEF ScanInv
  <2>3. /\ s1' = [s1 EXCEPT ![r] = x]
        /\ DOMAIN x = {"source", "status"} /\ x.source = "ssh" /\ x.status = "scanned" /\ x # Scan!Absent
    BY <1>6, <2>1, <2>2
  <2> HIDE DEF x, Safe
  <2> QED
    BY <1>1, <2>1, <2>2, <2>3
<1>9. ASSUME NEW r \in Runs, Scan!Done(r) PROVE Safe
  <2> DEFINE x == [s1[r] EXCEPT !.status = "scanned"]
  <2>1. r \in s8 /\ s8' = s8 \ {r} /\ s1' = [s1 EXCEPT ![r].status = "scanned"] /\ UNCHANGED <<s2, s9, s10, s12>>
    BY <1>9 DEF Scan!Done, Scan!page
  <2>2. s1[r] # Scan!Absent /\ s1[r].source = "agent" /\ r \notin s2
    BY <2>1 DEF ScanInv
  <2>3. /\ s1' = [s1 EXCEPT ![r] = x]
        /\ DOMAIN x = {"source", "status"} /\ x.source = "agent" /\ x.status = "scanned" /\ x # Scan!Absent
    BY <1>6, <2>1, <2>2
  <2> HIDE DEF x, Safe
  <2> QED
    BY <1>1, <2>1, <2>2, <2>3
<1>10. ASSUME NEW r \in Runs, Scan!Import(r) PROVE Safe
  <2> DEFINE x == [s1[r] EXCEPT !.status = "completed"]
  <2>1. /\ s9 = r /\ s1[r].status # "completed" /\ s1' = [s1 EXCEPT ![r].status = "completed"]
        /\ s12' = s12 \cup {r} /\ UNCHANGED <<s2, s8, s9, s10>>
    BY <1>10 DEF Scan!Import, Scan!Opened, Scan!Leads, Scan!agent, Scan!page
  <2>2. s1[r] # Scan!Absent /\ s1[r].status = "scanned" /\ r \notin s2
    BY <1>n, <2>1 DEF ScanInv
  <2>3. /\ s1' = [s1 EXCEPT ![r] = x] /\ DOMAIN x = {"source", "status"}
        /\ x.source = s1[r].source /\ x.status = "completed" /\ x # Scan!Absent
    BY <1>6, <2>1, <2>2
  <2>4. Scan!ImportedIsScanned
    BY <2>1, <2>2 DEF Scan!ImportedIsScanned
  <2> HIDE DEF x
  <2> QED
    BY <2>1, <2>2, <2>3, <2>4 DEF ScanInv
<1>11. CASE Scan!Settled
  <2>1. s10 # "none" /\ Scan!Good(s1[s10].status) /\ s9' = s10 /\ s10' = "none" /\ UNCHANGED <<s1, s2, s8, s12>>
    BY <1>11 DEF Scan!Settled, Scan!None, Scan!agent
  <2>2. s1[s10].status \in {"scanned", "completed"}
    BY <2>1 DEF Scan!Good, ScanInv
  <2> HIDE DEF Safe
  <2> QED
    BY <1>2, <2>1, <2>2
<1>12. ASSUME NEW r \in Runs, Scan!Paste(r) \/ Scan!Upload(r) \/ Scan!UploadLost(r) \/ Scan!TokenExpires(r)
       PROVE  Safe
  <2>1. UNCHANGED <<s1, s2, s9, s10, s12>> /\ s8' \subseteq s8
    BY <1>12 DEF Scan!Paste, Scan!Upload, Scan!UploadLost, Scan!TokenExpires, Scan!page
  <2> HIDE DEF Safe
  <2> QED
    BY <1>2, <2>1
<1>13. CASE Scan!PollAgain \/ Scan!PollEnds \/ Scan!LostContact \/ Scan!Restart
  <2>1. UNCHANGED <<s1, s8, s9, s12>> /\ s2' \subseteq s2 /\ s10' \in {s10, "none"}
    BY <1>13 DEF Scan!PollAgain, Scan!PollEnds, Scan!LostContact, Scan!Restart, Scan!agent, Scan!page, Scan!None
  <2> HIDE DEF Safe
  <2> QED
    BY <1>2, <2>1
<1>14. CASE UNCHANGED Scan!vars
  <2> HIDE DEF Safe
  <2> QED
    BY <1>2, <1>14 DEF Scan!vars
<1> HIDE DEF Safe
<1> QED
  BY <1>3, <1>4, <1>5, <1>7, <1>8, <1>9, <1>10, <1>11, <1>12, <1>13, <1>14 DEF Scan!Next


-----------------------------------------------------------------------------
(*                     What was collected of an invoice                    *)

Columns == {"status", "amount", "items"}
Payment == [of : Bills \cup {"none"}, status : {"pending", "completed", "failed"}]

\* s1 are the invoices, s2 the payments, s6 the pay dialog and s9 the invoice form: a
\* payment is of an invoice that exists, if of any, and what is edited has a number.
BillsInv ==
    /\ DOMAIN s1 = Bills /\ \A i \in Bills : DOMAIN s1[i] = Columns
    /\ s2 \in Seq(Payment)
    /\ \A k \in 1..Len(s2) : s2[k].of # "none" => s1[s2[k].of].status # "absent"
    /\ DOMAIN s6 = {"step", "of", "payment"} /\ s6.of \in Bills \cup {"none"}
    /\ DOMAIN s9 = {"of", "new", "total"}
    /\ s9 # Invoice!NoForm /\ ~s9.new => s9.of \in Bills

LEMMA BillsBegin == Invoice!Init => BillsInv
<1> SUFFICES ASSUME Invoice!Init PROVE BillsInv
  OBVIOUS
<1>1. DOMAIN s1 = Bills /\ \A i \in Bills : DOMAIN s1[i] = Columns
  <2>1. DOMAIN s1 = Bills
    BY DEF Invoice!Init
  <2>2. ASSUME NEW i \in Bills PROVE DOMAIN s1[i] = Columns
    <3>1. PICK a : s1[i] = [status |-> "pending", amount |-> a, items |-> a]
      BY <2>2 DEF Invoice!Init
    <3> QED
      BY <3>1 DEF Columns
  <2> QED
    BY <2>1, <2>2
<1>2. s2 = <<>> /\ s6 = Invoice!Closed /\ s9 = Invoice!NoForm
  BY DEF Invoice!Init
<1>3. DOMAIN Invoice!Closed = {"step", "of", "payment"} /\ Invoice!Closed.of = "none"
  BY DEF Invoice!Closed
<1>4. DOMAIN Invoice!NoForm = {"of", "new", "total"} /\ Invoice!NoForm.new = FALSE
  BY DEF Invoice!NoForm
<1> QED
  BY <1>1, <1>2, <1>3, <1>4 DEF BillsInv

\* What is seen of an invoice's status, and what a payment is replaced by.
LEMMA Columned ==
    ASSUME NEW x, DOMAIN x = Columns
    PROVE  /\ \A v : LET y == [x EXCEPT !.status = v] IN DOMAIN y = Columns /\ y.status = v
           /\ \A v : LET y == [x EXCEPT !.amount = v] IN DOMAIN y = Columns /\ y.status = x.status
           /\ \A v, w : DOMAIN [x EXCEPT !.amount = v, !.status = w] = Columns
BY DEF Columns

LEMMA Paid ==
    ASSUME NEW x \in Payment
    PROVE  /\ \A v \in {"completed", "failed"} : LET y == [x EXCEPT !.status = v] IN
                  y \in Payment /\ y.of = x.of /\ y.status = v
           /\ LET y == [x EXCEPT !.of = "none"] IN y \in Payment /\ y.of = "none" /\ y.status = x.status
BY DEF Payment

\* An invoice is deleted, and the list is read, which concerns neither dialog nor form.
Deletes == (\E i \in Bills : Invoice!ServeDelete(i)) /\ UNCHANGED <<s6, s7, s9, s10>>
Reads == UNCHANGED <<s1, s2, s6, s7, s9, s10>>

LEMMA InvoiceStep ==
    BillsInv /\ ([Invoice!Next]_(Invoice!vars) \/ Deletes \/ Reads)
        => BillsInv' /\ Invoice!PaymentsStay /\ Invoice!PaidStaysPaid
<1> DEFINE Safe == BillsInv' /\ Invoice!PaymentsStay /\ Invoice!PaidStaysPaid
<1> SUFFICES ASSUME BillsInv, [Invoice!Next]_(Invoice!vars) \/ Deletes \/ Reads PROVE Safe
  OBVIOUS
<1>t. /\ DOMAIN s1 = Bills /\ \A i \in Bills : DOMAIN s1[i] = Columns
      /\ s2 \in Seq(Payment) /\ Len(s2) \in Nat
      /\ \A k \in 1..Len(s2) : s2[k] \in Payment /\ (s2[k].of # "none" => s1[s2[k].of].status # "absent")
      /\ DOMAIN s6 = {"step", "of", "payment"} /\ s6.of \in Bills \cup {"none"}
      /\ DOMAIN s9 = {"of", "new", "total"}
      /\ s9 # Invoice!NoForm /\ ~s9.new => s9.of \in Bills
  BY DEF BillsInv
<1>c. DOMAIN Invoice!Closed = {"step", "of", "payment"} /\ Invoice!Closed.of = "none"
  BY DEF Invoice!Closed
<1>n. DOMAIN Invoice!NoForm = {"of", "new", "total"} /\ Invoice!NoForm.new = FALSE
  BY DEF Invoice!NoForm
<1>b. "none" \notin Bills
  BY WaitingAssumption DEF Invoice!DeskAssumption
\* The dialog goes on, and no row changes.
<1>1. ASSUME UNCHANGED <<s1, s2, s9>>, DOMAIN s6' = {"step", "of", "payment"}, s6'.of \in Bills \cup {"none"}
      PROVE  Safe
  BY <1>1, <1>t DEF BillsInv, Invoice!PaymentsStay, Invoice!PaidStaysPaid
\* The form goes on.
<1>2. ASSUME UNCHANGED <<s1, s2, s6>>, DOMAIN s9' = {"of", "new", "total"},
             s9' # Invoice!NoForm /\ ~s9'.new => s9'.of \in Bills
      PROVE  Safe
  BY <1>2, <1>t DEF BillsInv, Invoice!PaymentsStay, Invoice!PaidStaysPaid
\* One invoice takes other columns, and no payment is of it when it goes.
<1>3. ASSUME NEW i \in Bills, NEW x, DOMAIN x = Columns, s1' = [s1 EXCEPT ![i] = x], s6' = s6,
             s1[i].status = "paid" /\ x.status = "pending" => Invoice!NameStatus(i),
             s2' \in Seq(Payment), Len(s2') = Len(s2),
             \A k \in 1..Len(s2) : /\ s2[k].status = "completed" => s2'[k].status = "completed"
                                   /\ s2'[k].of \in {s2[k].of, "none"}
                                   /\ x.status = "absent" => s2'[k].of # i,
             s9' \in {s9, Invoice!NoForm}
      PROVE  Safe
  <2>1. DOMAIN s1' = Bills /\ \A j \in Bills : s1'[j] = IF j = i THEN x ELSE s1[j]
    BY <1>3, <1>t
  <2>2. Invoice!PaidStaysPaid
    BY <1>3, <2>1 DEF Invoice!PaidStaysPaid
  <2>3. Invoice!PaymentsStay
    BY <1>3 DEF Invoice!PaymentsStay
  <2>4. \A k \in 1..Len(s2') : s2'[k].of # "none" => s1'[s2'[k].of].status # "absent"
    <3> SUFFICES ASSUME NEW k \in 1..Len(s2), s2'[k].of # "none"
                 PROVE  s1'[s2'[k].of].status # "absent"
      BY <1>3
    <3>1. s2'[k].of = s2[k].of /\ s2[k].of \in Bills /\ s1[s2[k].of].status # "absent"
      BY <1>3, <1>t DEF Payment
    <3> QED
      BY <1>3, <2>1, <3>1
  <2>5. DOMAIN s9' = {"of", "new", "total"} /\ (s9' # Invoice!NoForm /\ ~s9'.new => s9'.of \in Bills)
    BY <1>3, <1>t, <1>n
  <2>6. \A j \in Bills : DOMAIN s1'[j] = Columns
    BY <1>3, <1>t, <2>1
  <2> QED
    BY <1>3, <1>t, <2>1, <2>2, <2>3, <2>4, <2>5, <2>6 DEF BillsInv
<1>4. CASE Deletes
  <2>1. PICK i \in Bills : Invoice!ServeDelete(i)
    BY <1>4 DEF Deletes
  <2>2. UNCHANGED <<s6, s9>>
    BY <1>4 DEF Deletes
  <2> DEFINE x == [status |-> "absent", amount |-> 0, items |-> 0]
  <2>3. /\ s1' = [s1 EXCEPT ![i] = x]
        /\ s2' = [k \in 1..Len(s2) |-> IF s2[k].of = i THEN [s2[k] EXCEPT !.of = "none"] ELSE s2[k]]
    BY <2>1 DEF Invoice!ServeDelete
  <2>4. DOMAIN x = Columns /\ x.status = "absent"
    BY DEF Columns
  <2>5. \A k \in 1..Len(s2) : /\ s2'[k] \in Payment /\ s2'[k].status = s2[k].status
                              /\ s2'[k].of \in {s2[k].of, "none"} /\ s2'[k].of # i
    <3> SUFFICES ASSUME NEW k \in 1..Len(s2)
                 PROVE  /\ s2'[k] \in Payment /\ s2'[k].status = s2[k].status
                        /\ s2'[k].of \in {s2[k].of, "none"} /\ s2'[k].of # i
      OBVIOUS
    <3> DEFINE y == [s2[k] EXCEPT !.of = "none"]
    <3>1. s2[k] \in Payment
      BY <1>t
    <3>2. y \in Payment /\ y.of = "none" /\ y.status = s2[k].status
      BY <3>1, Paid
    <3>3. s2'[k] = IF s2[k].of = i THEN y ELSE s2[k]
      BY <2>3
    <3> HIDE DEF y
    <3> QED
      BY <1>b, <3>1, <3>2, <3>3
  <2>6. s2' \in Seq(Payment) /\ Len(s2') = Len(s2)
    <3>1. s2' = [k \in 1..Len(s2) |-> s2'[k]]
      BY <2>3
    <3>2. s2' \in [1..Len(s2) -> Payment]
      BY <2>5, <3>1
    <3> QED
      BY <1>t, <3>2
  <2> HIDE DEF x, Safe
  <2> QED
    BY <1>3, <2>2, <2>3, <2>4, <2>5, <2>6
<1>5. CASE Invoice!ServePush
  <2> DEFINE p == [of |-> s6.of, status |-> "pending"]
  <2>1. /\ s1[s6.of].status # "absent" /\ s2' = Append(s2, p) /\ UNCHANGED <<s1, s6, s9>>
    BY <1>5 DEF Invoice!ServePush, Invoice!editor
  <2>2. p \in Payment /\ p.of = s6.of
    BY <1>t DEF Payment
  <2> HIDE DEF p
  <2>3. /\ s2' \in Seq(Payment) /\ Len(s2') = Len(s2) + 1
        /\ \A k \in 1..Len(s2) : s2'[k] = s2[k]
        /\ s2'[Len(s2) + 1] = p
    BY <1>t, <2>1, <2>2
  <2>4. \A k \in 1..Len(s2') : s2'[k].of # "none" => s1'[s2'[k].of].status # "absent"
    <3> SUFFICES ASSUME NEW k \in 1..Len(s2), k # 0
                 PROVE  s2'[k].of # "none" => s1'[s2'[k].of].status # "absent"
      BY <1>t, <2>1, <2>2, <2>3
    <3> QED
      BY <1>t, <2>1, <2>3
  <2> QED
    BY <1>t, <2>1, <2>3, <2>4 DEF BillsInv, Invoice!PaymentsStay, Invoice!PaidStaysPaid
<1>6. CASE Invoice!Callback
  <2>1. UNCHANGED <<s6, s9>>
    BY <1>6 DEF Invoice!Callback, Invoice!dialog, Invoice!editor
  <2>2. PICK k \in 1..Len(s2) : \E s \in {"completed", "failed"} :
            /\ s2[k].status = "pending" /\ s2' = [s2 EXCEPT ![k].status = s]
            /\ s1' = IF s = "completed" /\ s2[k].of # "none"
                     THEN [s1 EXCEPT ![s2[k].of].status = "paid"] ELSE s1
    BY <1>6 DEF Invoice!Callback
  <2>3. PICK s \in {"completed", "failed"} :
            /\ s2[k].status = "pending" /\ s2' = [s2 EXCEPT ![k].status = s]
            /\ s1' = IF s = "completed" /\ s2[k].of # "none"
                     THEN [s1 EXCEPT ![s2[k].of].status = "paid"] ELSE s1
    BY <2>2
  <2> DEFINE y == [s2[k] EXCEPT !.status = s]
  <2>4. y \in Payment /\ y.of = s2[k].of /\ y.status = s
    <3>1. s2[k] \in Payment
      BY <1>t
    <3> QED
      BY <2>3, <3>1, Paid
  <2>5. s2' = [s2 EXCEPT ![k] = y]
    BY <2>3
  <2> HIDE DEF y
  <2>6. /\ s2' \in Seq(Payment) /\ Len(s2') = Len(s2)
        /\ \A j \in 1..Len(s2) : s2'[j] = IF j = k THEN y ELSE s2[j]
    BY <1>t, <2>4, <2>5
  <2>7. \A j \in 1..Len(s2) : /\ s2[j].status = "completed" => s2'[j].status = "completed"
                              /\ s2'[j].of = s2[j].of
    BY <2>3, <2>4, <2>6
  <2>8. CASE s = "completed" /\ s2[k].of # "none"
    <3> DEFINE i == s2[k].of
               x == [s1[i] EXCEPT !.status = "paid"]
    <3>1. i \in Bills /\ s1[i].status # "absent"
      BY <1>t, <2>8 DEF Payment
    <3>2. DOMAIN x = Columns /\ x.status = "paid"
      BY <1>t, <3>1, Columned
    <3>3. s1' = [s1 EXCEPT ![i] = x]
      BY <2>3, <2>8
    <3> HIDE DEF x, i, Safe
    <3> QED
      BY <1>3, <2>1, <2>6, <2>7, <3>1, <3>2, <3>3
  <2>9. CASE ~(s = "completed" /\ s2[k].of # "none")
    <3>1. s1' = s1
      BY <2>3, <2>9
    <3>2. \A j \in 1..Len(s2') : s2'[j].of # "none" => s1'[s2'[j].of].status # "absent"
      BY <1>t, <2>6, <2>7, <3>1
    <3> QED
      BY <1>t, <2>1, <2>6, <2>7, <3>1, <3>2 DEF BillsInv, Invoice!PaymentsStay, Invoice!PaidStaysPaid
  <2> QED
    BY <2>8, <2>9
<1>7. CASE Invoice!SaveNew
  <2> DEFINE x == [status |-> "pending", amount |-> s9.total, items |-> s9.total]
  <2>1. PICK i \in Bills : s1[i].status = "absent" /\ s1' = [s1 EXCEPT ![i] = x]
    BY <1>7 DEF Invoice!SaveNew
  <2>2. s9' \in {s9, Invoice!NoForm} /\ UNCHANGED <<s2, s6>>
    BY <1>7 DEF Invoice!SaveNew, Invoice!dialog
  <2>3. DOMAIN x = Columns /\ x.status = "pending"
    BY DEF Columns
  <2> HIDE DEF x, Safe
  <2> QED
    BY <1>3, <1>t, <2>1, <2>2, <2>3
<1>8. CASE Invoice!Save
  <2> DEFINE x == [s1[s9.of] EXCEPT !.amount = s9.total, !.status = @]
  <2>1. /\ s9 # Invoice!NoForm /\ ~s9.new /\ s9' \in {s9, Invoice!NoForm} /\ UNCHANGED <<s2, s6>>
        /\ s1[s9.of].status # "absent" /\ s1' = [s1 EXCEPT ![s9.of] = x]
    BY <1>8 DEF Invoice!Save, Invoice!Update, Invoice!dialog
  <2>2. s9.of \in Bills
    BY <1>t, <2>1
  <2>3. DOMAIN x = Columns /\ x.status = s1[s9.of].status
    BY <1>t, <2>2, Columned DEF Columns
  <2> HIDE DEF x, Safe
  <2> QED
    BY <1>3, <1>t, <2>1, <2>2, <2>3
<1>9. CASE \E i \in Bills : Invoice!NameStatus(i)
  <2>1. PICK i \in Bills : Invoice!NameStatus(i)
    BY <1>9
  <2>2. PICK s \in {"pending", "paid"} : \E a :
            s1' = [s1 EXCEPT ![i] = [s1[i] EXCEPT !.amount = a, !.status = s]]
    BY <2>1 DEF Invoice!NameStatus, Invoice!Update
  <2>3. PICK a : s1' = [s1 EXCEPT ![i] = [s1[i] EXCEPT !.amount = a, !.status = s]]
    BY <2>2
  <2>4. UNCHANGED <<s2, s6, s9>>
    BY <2>1 DEF Invoice!NameStatus, Invoice!dialog, Invoice!editor
  <2> DEFINE x == [s1[i] EXCEPT !.amount = a, !.status = s]
  <2>5. DOMAIN x = Columns /\ x.status = s
    BY <1>t DEF Columns
  <2>6. s1' = [s1 EXCEPT ![i] = x] /\ x.status # "absent"
    BY <2>2, <2>3, <2>5
  <2> HIDE DEF x, Safe
  <2> QED
    BY <1>3, <1>t, <2>1, <2>4, <2>5, <2>6
<1>10. CASE Invoice!OpenPay
  <2>1. PICK i \in Bills : s6' = [step |-> "form", of |-> i, payment |-> 0]
    BY <1>10 DEF Invoice!OpenPay
  <2>2. UNCHANGED <<s1, s2, s9>>
    BY <1>10 DEF Invoice!OpenPay, Invoice!server, Invoice!editor
  <2> QED
    BY <1>1, <2>1, <2>2
<1>11. ASSUME UNCHANGED <<s1, s2, s9>>,
              s6' \in {s6, Invoice!Closed} \/ \E st, k : s6' = [s6 EXCEPT !.step = st]
                                                        \/ s6' = [s6 EXCEPT !.step = st, !.payment = k]
       PROVE  Safe
  BY <1>1, <1>11, <1>t, <1>c
<1>12. CASE Invoice!Submit
  BY <1>11, <1>12 DEF Invoice!Submit, Invoice!server, Invoice!editor
<1>13. CASE Invoice!RefusePush
  BY <1>11, <1>13 DEF Invoice!RefusePush, Invoice!server, Invoice!editor
<1>14. CASE Invoice!PushAnswered
  BY <1>11, <1>14 DEF Invoice!PushAnswered, Invoice!server, Invoice!editor
<1>15. CASE Invoice!Poll
  BY <1>11, <1>15 DEF Invoice!Poll, Invoice!GiveUp, Invoice!server, Invoice!editor
<1>16. CASE Invoice!PollFails
  BY <1>11, <1>16 DEF Invoice!PollFails, Invoice!GiveUp, Invoice!server, Invoice!editor
<1>17. CASE Invoice!TryAgain
  BY <1>11, <1>17 DEF Invoice!TryAgain, Invoice!server, Invoice!editor
<1>18. CASE Invoice!Close
  BY <1>11, <1>18 DEF Invoice!Close, Invoice!server, Invoice!editor
<1>19. CASE Invoice!Edit
  <2>1. PICK i \in Bills : s9' = [of |-> i, new |-> FALSE, total |-> s1[i].items]
    BY <1>19 DEF Invoice!Edit
  <2>2. UNCHANGED <<s1, s2, s6>>
    BY <1>19 DEF Invoice!Edit, Invoice!server, Invoice!dialog
  <2> QED
    BY <1>2, <2>1, <2>2
<1>20. CASE Invoice!Create
  <2>1. DOMAIN s9' = {"of", "new", "total"} /\ s9'.new = TRUE
    BY <1>20, <1>n DEF Invoice!Create
  <2>2. UNCHANGED <<s1, s2, s6>>
    BY <1>20 DEF Invoice!Create, Invoice!server, Invoice!dialog
  <2> QED
    BY <1>2, <2>1, <2>2
<1>21. CASE Invoice!ChangeItems
  <2>1. PICK t : s9 # Invoice!NoForm /\ s9' = [s9 EXCEPT !.total = t]
    BY <1>21 DEF Invoice!ChangeItems
  <2>2. UNCHANGED <<s1, s2, s6>>
    BY <1>21 DEF Invoice!ChangeItems, Invoice!server, Invoice!dialog
  <2> QED
    BY <1>2, <1>t, <2>1, <2>2
<1>22. CASE Invoice!Leave
  <2>1. s9' = Invoice!NoForm /\ UNCHANGED <<s1, s2, s6>>
    BY <1>22 DEF Invoice!Leave, Invoice!server, Invoice!dialog
  <2> QED
    BY <1>2, <1>n, <2>1
<1>23. CASE Reads
  BY <1>1, <1>23, <1>t DEF Reads
<1>24. Invoice!Delete => Deletes
  BY DEF Invoice!Delete, Deletes, Invoice!dialog, Invoice!editor
<1>25. Invoice!SetFilter \/ Invoice!Refresh \/ Invoice!ServeReading \/ Invoice!ReadEnds \/ Invoice!SaveRefused
          \/ UNCHANGED Invoice!vars => Reads
  BY DEF Invoice!SetFilter, Invoice!Refresh, Invoice!ServeReading, Invoice!ReadEnds, Invoice!SaveRefused,
     Invoice!vars, Invoice!server, Invoice!dialog, Invoice!editor, Reads
<1> HIDE DEF Safe
<1> QED
  BY <1>4, <1>5, <1>6, <1>7, <1>8, <1>9, <1>10, <1>12, <1>13, <1>14, <1>15, <1>16, <1>17, <1>18,
     <1>19, <1>20, <1>21, <1>22, <1>23, <1>24, <1>25 DEF Invoice!Next

\* The page of an invoice differs from the list by what its poll does to the dialog, and by how
\* often it is read.
LEMMA InvoicePageBegin == InvoicePage!Init => Invoice!Init
BY DEF InvoicePage!Init, Invoice!Init, InvoicePage!NoRow, Invoice!NoRow, InvoicePage!NoRows,
   Invoice!NoRows, InvoicePage!Closed, Invoice!Closed, InvoicePage!NoForm, Invoice!NoForm,
   InvoicePage!EmptyBag, Invoice!EmptyBag, InvoicePage!SetToBag, Invoice!SetToBag

LEMMA InvoicePageGoes ==
    [InvoicePage!Next]_(InvoicePage!vars)
        => [Invoice!Next]_(Invoice!vars) \/ Deletes \/ Reads \/ InvoicePage!Poll
<1> SUFFICES ASSUME [InvoicePage!Next]_(InvoicePage!vars)
             PROVE  [Invoice!Next]_(Invoice!vars) \/ Deletes \/ Reads \/ InvoicePage!Poll
  OBVIOUS
<1>1. CASE \/ InvoicePage!SetFilter \/ InvoicePage!Refresh \/ InvoicePage!ServeReading
           \/ InvoicePage!ReadEnds \/ InvoicePage!SaveRefused \/ UNCHANGED InvoicePage!vars
  BY <1>1 DEF InvoicePage!SetFilter, InvoicePage!Refresh, InvoicePage!ServeReading, InvoicePage!ReadEnds,
     InvoicePage!SaveRefused, InvoicePage!vars, InvoicePage!server, InvoicePage!dialog,
     InvoicePage!editor, Reads
<1>2. CASE InvoicePage!Delete
  BY <1>2 DEF InvoicePage!Delete, InvoicePage!ServeDelete, Invoice!ServeDelete, InvoicePage!dialog,
     InvoicePage!editor, Deletes
<1>3. CASE InvoicePage!OpenPay \/ InvoicePage!Submit \/ InvoicePage!ServePush \/ InvoicePage!RefusePush
  <2>1. Invoice!OpenPay \/ Invoice!Submit \/ Invoice!ServePush \/ Invoice!RefusePush
    BY <1>3 DEF InvoicePage!OpenPay, Invoice!OpenPay, InvoicePage!Submit, Invoice!Submit,
       InvoicePage!ServePush, Invoice!ServePush, InvoicePage!RefusePush, Invoice!RefusePush,
       InvoicePage!Closed, Invoice!Closed, InvoicePage!server, Invoice!server, InvoicePage!list,
       Invoice!list, InvoicePage!editor, Invoice!editor
  <2> QED
    BY <2>1 DEF Invoice!Next
<1>4. CASE InvoicePage!PushAnswered \/ InvoicePage!Callback \/ InvoicePage!PollFails
           \/ InvoicePage!TryAgain \/ InvoicePage!Close
  <2>1. Invoice!PushAnswered \/ Invoice!Callback \/ Invoice!PollFails \/ Invoice!TryAgain \/ Invoice!Close
    BY <1>4 DEF InvoicePage!PushAnswered, Invoice!PushAnswered, InvoicePage!Callback, Invoice!Callback,
       InvoicePage!PollFails, Invoice!PollFails, InvoicePage!GiveUp, Invoice!GiveUp,
       InvoicePage!TryAgain, Invoice!TryAgain, InvoicePage!Close, Invoice!Close, InvoicePage!Closed,
       Invoice!Closed, InvoicePage!server, Invoice!server, InvoicePage!list, Invoice!list,
       InvoicePage!dialog, Invoice!dialog, InvoicePage!editor, Invoice!editor
  <2> QED
    BY <2>1 DEF Invoice!Next
<1>5. CASE InvoicePage!Edit \/ InvoicePage!Create \/ InvoicePage!ChangeItems \/ InvoicePage!SaveNew
  <2>1. Invoice!Edit \/ Invoice!Create \/ Invoice!ChangeItems \/ Invoice!SaveNew
    BY <1>5 DEF InvoicePage!Edit, Invoice!Edit, InvoicePage!Create, Invoice!Create,
       InvoicePage!ChangeItems, Invoice!ChangeItems, InvoicePage!SaveNew, Invoice!SaveNew,
       InvoicePage!NoForm, Invoice!NoForm, InvoicePage!server, Invoice!server, InvoicePage!list,
       Invoice!list, InvoicePage!dialog, Invoice!dialog
  <2> QED
    BY <2>1 DEF Invoice!Next
<1>6. CASE \/ InvoicePage!Save \/ InvoicePage!Leave \/ \E i \in Bills : InvoicePage!NameStatus(i)
  <2>1. Invoice!Save \/ Invoice!Leave \/ \E i \in Bills : Invoice!NameStatus(i)
    BY <1>6 DEF InvoicePage!Save, Invoice!Save, InvoicePage!Leave, Invoice!Leave, InvoicePage!NameStatus,
       Invoice!NameStatus, InvoicePage!Update, Invoice!Update, InvoicePage!NoForm, Invoice!NoForm,
       InvoicePage!server, Invoice!server, InvoicePage!list, Invoice!list, InvoicePage!dialog,
       Invoice!dialog, InvoicePage!editor, Invoice!editor
  <2> QED
    BY <2>1 DEF Invoice!Next
<1> QED
  BY <1>1, <1>2, <1>3, <1>4, <1>5, <1>6 DEF InvoicePage!Next

LEMMA SameNaming == ASSUME NEW i PROVE InvoicePage!NameStatus(i) <=> Invoice!NameStatus(i)
BY DEF InvoicePage!NameStatus, Invoice!NameStatus, InvoicePage!Update, Invoice!Update, InvoicePage!list,
   Invoice!list, InvoicePage!dialog, Invoice!dialog, InvoicePage!editor, Invoice!editor

LEMMA InvoicePageStep ==
    BillsInv /\ [InvoicePage!Next]_(InvoicePage!vars)
        => BillsInv' /\ InvoicePage!PaymentsStay /\ InvoicePage!PaidStaysPaid
<1> DEFINE Safe == BillsInv' /\ Invoice!PaymentsStay /\ Invoice!PaidStaysPaid
<1> SUFFICES ASSUME BillsInv, [InvoicePage!Next]_(InvoicePage!vars) PROVE Safe
  BY SameNaming
  DEF Invoice!PaymentsStay, Invoice!PaidStaysPaid, InvoicePage!PaymentsStay, InvoicePage!PaidStaysPaid
<1>1. CASE [Invoice!Next]_(Invoice!vars) \/ Deletes \/ Reads
  BY <1>1, InvoiceStep
<1>2. CASE InvoicePage!Poll
  <2>1. DOMAIN InvoicePage!Closed = {"step", "of", "payment"} /\ InvoicePage!Closed.of = "none"
    BY DEF InvoicePage!Closed
  <2>2. \/ s6' \in {s6, InvoicePage!Closed}
        \/ \E st : s6' = [s6 EXCEPT !.step = st, !.payment = 0]
    BY <1>2 DEF InvoicePage!Poll, InvoicePage!GiveUp
  <2>3. UNCHANGED <<s1, s2, s9>>
    BY <1>2 DEF InvoicePage!Poll, InvoicePage!server, InvoicePage!editor
  <2>4. DOMAIN s6 = {"step", "of", "payment"} /\ s6.of \in Bills \cup {"none"}
    BY DEF BillsInv
  <2>5. DOMAIN s6' = {"step", "of", "payment"} /\ s6'.of \in Bills \cup {"none"}
    BY <2>1, <2>2, <2>4
  <2> QED
    BY <2>3, <2>5 DEF BillsInv, Invoice!PaymentsStay, Invoice!PaidStaysPaid
<1> HIDE DEF Safe
<1> QED
  BY <1>1, <1>2, InvoicePageGoes

-----------------------------------------------------------------------------
(*                        What is paid for stays so                        *)

\* What holds of the part the behaviour is about: an import knows a client for every
\* payment, a scan offers nothing it did not find, and payments and forms are of invoices
\* that exist.
NothingInv ==
    /\ part \in {"import", "importDown"} => PaidExist
    /\ part = "scan" => ScanInv
    /\ part \in {"invoice", "invoicePage"} => BillsInv

LEMMA NothingBegin == Init => NothingInv
<1> SUFFICES ASSUME Init PROVE NothingInv
  OBVIOUS
<1>1. part = "import" => Import!Init
  BY DEF Init
<1>2. part = "importDown" => DownImport!Init
  BY DEF Init
<1>3. part = "scan" => Scan!Init
  BY DEF Init
<1>4. part = "invoice" => Invoice!Init
  BY DEF Init
<1>5. part = "invoicePage" => InvoicePage!Init
  BY DEF Init
<1>6. part \in {"import", "importDown"} => PaidExist
  BY <1>1, <1>2 DEF Import!Init, DownImport!Init, PaidExist
<1> QED
  BY <1>3, <1>4, <1>5, <1>6, ScanBegin, BillsBegin, InvoicePageBegin DEF NothingInv

LEMMA NothingStep ==
    NothingInv /\ [Next]_vars
        => /\ NothingInv'
           /\ part = "import" => Import!PaidStay
           /\ part = "importDown" => DownImport!PaidStay
           /\ part = "scan" => Scan!ImportedIsScanned
           /\ part = "invoice" => Invoice!PaymentsStay /\ Invoice!PaidStaysPaid
           /\ part = "invoicePage" => InvoicePage!PaymentsStay /\ InvoicePage!PaidStaysPaid
<1> SUFFICES ASSUME NothingInv, [Next]_vars
             PROVE  /\ NothingInv'
                    /\ part = "import" => Import!PaidStay
                    /\ part = "importDown" => DownImport!PaidStay
                    /\ part = "scan" => Scan!ImportedIsScanned
                    /\ part = "invoice" => Invoice!PaymentsStay /\ Invoice!PaidStaysPaid
                    /\ part = "invoicePage" => InvoicePage!PaymentsStay /\ InvoicePage!PaidStaysPaid
  OBVIOUS
<1>0. part' = part
  BY PartStays
<1>1. part = "import" => PaidExist' /\ Import!PaidStay
  BY ImportSteps, ImportStep DEF NothingInv
<1>2. part = "importDown" => PaidExist' /\ DownImport!PaidStay
  BY DownImportSteps, DownImportStep DEF NothingInv
<1>3. part = "scan" => ScanInv' /\ Scan!ImportedIsScanned
  BY ScanSteps, ScanStep DEF NothingInv
<1>4. part = "invoice" => BillsInv' /\ Invoice!PaymentsStay /\ Invoice!PaidStaysPaid
  BY InvoiceSteps, InvoiceStep DEF NothingInv
<1>5. part = "invoicePage" => BillsInv' /\ InvoicePage!PaymentsStay /\ InvoicePage!PaidStaysPaid
  BY InvoicePageSteps, InvoicePageStep DEF NothingInv
<1> QED
  BY <1>0, <1>1, <1>2, <1>3, <1>4, <1>5 DEF NothingInv

\* Whatever the number of consoles, workers, runs and invoices: revert_run deletes no client
\* who has paid, commit_run_route imports from no scan that has not ended as scanned, and
\* neither delete_invoice, the invoice form nor a callback that comes after them undoes a
\* completed payment or makes a paid invoice due again; only a request of the API that names
\* the status does the latter.
THEOREM NothingIsTakenHolds == Spec => NothingIsTaken
<1>1. Init => NothingInv
  BY NothingBegin
<1>2. NothingInv /\ [Next]_vars => NothingInv'
  BY NothingStep
<1>3. NothingInv /\ [Next]_vars =>
        [/\ part = "import" => Import!PaidStay
         /\ part = "importDown" => DownImport!PaidStay
         /\ part = "scan" => Scan!ImportedIsScanned
         /\ part = "invoice" => Invoice!PaymentsStay /\ Invoice!PaidStaysPaid
         /\ part = "invoicePage" => InvoicePage!PaymentsStay /\ InvoicePage!PaidStaysPaid]_vars
  BY NothingStep
<1> QED
  BY <1>1, <1>2, <1>3, PTL DEF Spec, NothingIsTaken

-----------------------------------------------------------------------------
(*                        What a page says is so                           *)

\* The platform's invoices.  s1 is the mount on screen, s2 the number of mounts so far, s4 the
\* invoice of the pay dialog, s7 the prompts under way, s8 what a mount says it waits for, s9
\* what its interval polls and s10 the status requests: the dialog is of the mount on screen,
\* and nothing is of a mount to come, so a new mount starts clean.
DuesInv ==
    /\ s2 \in Nat /\ s1 \in Nat /\ s1 <= s2 /\ s2 <= MaxMounts
    /\ s1 = 0 => s4 = Bill!NoInvoice
    /\ DOMAIN s8 = 1 .. MaxMounts /\ DOMAIN s9 = 1 .. MaxMounts
    /\ \A n \in 1 .. MaxMounts : n > s2 => s9[n] = Bill!NoInvoice /\ s8[n] = Bill!NoInvoice
    /\ \A p \in s7 : DOMAIN p = {"at", "invoice", "here"} /\ p.at \in 1 .. s2
    /\ \A q \in s10 : DOMAIN q = {"at", "invoice", "answer"} /\ q.at \in 1 .. s2
    /\ Bill!AwaitingIsPolled

LEMMA DuesBegin == Bill!Init => DuesInv
BY WaitingAssumption DEF Bill!PollingAssumption, Bill!Init, DuesInv, Bill!Mounts, Bill!AwaitingIsPolled

LEMMA DuesStep == DuesInv /\ [Bill!Next]_(Bill!vars) => DuesInv'
<1> SUFFICES ASSUME DuesInv, [Bill!Next]_(Bill!vars) PROVE DuesInv'
  OBVIOUS
<1>m. MaxMounts \in Nat
  BY WaitingAssumption DEF Bill!PollingAssumption
<1> USE <1>m DEF Bill!AwaitingIsPolled
\* Prompts that nobody waits for any more.
<1>h. \A P : (\A p \in P : DOMAIN p = {"at", "invoice", "here"} /\ p.at \in 1 .. s2)
        => \A p \in {[q EXCEPT !.here = FALSE] : q \in P} :
               DOMAIN p = {"at", "invoice", "here"} /\ p.at \in 1 .. s2
  OBVIOUS
<1>1. CASE Bill!Visit
  BY <1>1 DEF DuesInv, Bill!Visit, Bill!DialogState, Bill!PollState
<1>2. CASE Bill!Leave
  <2>1. /\ s1' = 0 /\ s4' = Bill!NoInvoice
        /\ s9' = [s9 EXCEPT ![s1] = Bill!NoInvoice] /\ s8' = [s8 EXCEPT ![s1] = Bill!NoInvoice]
        /\ s7' = {[q EXCEPT !.here = FALSE] : q \in s7} /\ UNCHANGED <<s2, s10>>
    BY <1>2 DEF Bill!Leave
  <2>2. \A p \in s7' : DOMAIN p = {"at", "invoice", "here"} /\ p.at \in 1 .. s2
    BY <1>h, <2>1 DEF DuesInv
  <2> QED
    BY <2>1, <2>2 DEF DuesInv
<1>3. CASE Bill!CloseDialog
  <2>1. s7' = {[q EXCEPT !.here = FALSE] : q \in s7} /\ s4' = Bill!NoInvoice
        /\ UNCHANGED <<s1, s2, s8, s9, s10>>
    BY <1>3 DEF Bill!CloseDialog, Bill!PollState
  <2>2. \A p \in s7' : DOMAIN p = {"at", "invoice", "here"} /\ p.at \in 1 .. s2
    BY <1>h, <2>1 DEF DuesInv
  <2> QED
    BY <2>1, <2>2 DEF DuesInv
<1>4. CASE Bill!Submit
  <2>1. s7' = s7 \cup {[at |-> s1, invoice |-> s4, here |-> TRUE]} /\ s4 # Bill!NoInvoice
        /\ UNCHANGED <<s1, s2, s4, s8, s9, s10>>
    BY <1>4 DEF Bill!Submit, Bill!PollState
  <2> QED
    BY <2>1 DEF DuesInv
<1>5. ASSUME NEW p \in s7, Bill!PromptSent(p) PROVE DuesInv'
  <2>1. p.at \in 1 .. s2
    BY DEF DuesInv
  <2>2. /\ s9' = [s9 EXCEPT ![p.at] = p.invoice] /\ UNCHANGED <<s1, s2, s10>>
        /\ s4' = (IF p.at = s1 THEN Bill!NoInvoice ELSE s4)
        /\ s8' = IF p.at = s1 THEN [s8 EXCEPT ![p.at] = p.invoice] ELSE s8
        /\ s7' = {[q EXCEPT !.here = FALSE] : q \in {r \in s7 \ {p} : r.at = p.at}}
                  \cup {r \in s7 \ {p} : r.at # p.at}
    BY <1>5 DEF Bill!PromptSent, Bill!StartPolling
  <2>3. \A q \in s7' : DOMAIN q = {"at", "invoice", "here"} /\ q.at \in 1 .. s2
    <3>1. \A q \in {r \in s7 \ {p} : r.at = p.at} : DOMAIN q = {"at", "invoice", "here"} /\ q.at \in 1 .. s2
      BY DEF DuesInv
    <3> QED
      BY <1>h, <2>2, <3>1 DEF DuesInv
  <2> QED
    BY <2>1, <2>2, <2>3 DEF DuesInv
<1>6. ASSUME NEW p \in s7, Bill!PromptFailed(p) PROVE DuesInv'
  BY <1>6 DEF DuesInv, Bill!PromptFailed, Bill!PollState
<1>7. ASSUME NEW n \in 1 .. MaxMounts, Bill!Tick(n) PROVE DuesInv'
  <2>1. /\ s10' = s10 \cup {[at |-> n, invoice |-> s9[n], answer |-> "none"]}
        /\ s9[n] # Bill!NoInvoice /\ UNCHANGED <<s1, s2, s4, s7, s8, s9>>
    BY <1>7 DEF Bill!Tick, Bill!DialogState
  <2> QED
    BY <2>1 DEF DuesInv
<1>8. ASSUME NEW n \in 1 .. MaxMounts, Bill!GiveUp(n) PROVE DuesInv'
  BY <1>8 DEF DuesInv, Bill!GiveUp, Bill!StopPolling, Bill!DialogState
<1>9. ASSUME NEW q \in s10, Bill!StatusServed(q) PROVE DuesInv'
  <2>1. PICK v : s10' = (s10 \ {q}) \cup {[q EXCEPT !.answer = v]} /\ UNCHANGED <<s1, s2, s4, s7, s8, s9>>
    BY <1>9 DEF Bill!StatusServed, Bill!DialogState
  <2>2. DOMAIN [q EXCEPT !.answer = v] = {"at", "invoice", "answer"} /\ [q EXCEPT !.answer = v].at \in 1 .. s2
    BY DEF DuesInv
  <2> QED
    BY <2>1, <2>2 DEF DuesInv
<1>10. ASSUME NEW q \in s10, Bill!StatusPaid(q) PROVE DuesInv'
  <2>1. q.at \in 1 .. s2
    BY DEF DuesInv
  <2> QED
    BY <1>10, <2>1 DEF DuesInv, Bill!StatusPaid, Bill!StopPolling, Bill!DialogState
<1>11. ASSUME NEW q \in s10, Bill!StatusDropped(q) PROVE DuesInv'
  BY <1>11 DEF DuesInv, Bill!StatusDropped, Bill!DialogState
<1>12. ASSUME UNCHANGED <<s1, s2, s7, s8, s9, s10>>, s4' = s4 \/ s1 # 0 PROVE DuesInv'
  BY <1>12 DEF DuesInv
<1>13. CASE \/ Bill!Reload \/ \E l \in s11 : Bill!LoadServed(l) \/ \E fails \in BOOLEAN : Bill!LoadEnded(l, fails)
            \/ \E i \in Dues : Bill!OpenDialog(i) \/ Bill!Settle(i)
            \/ \E n \in 1 .. MaxMounts : Bill!RefreshGate(n)
  BY <1>12, <1>13 DEF Bill!Reload, Bill!LoadServed, Bill!LoadEnded, Bill!OpenDialog, Bill!Settle,
     Bill!RefreshGate, Bill!DialogState, Bill!PollState
<1>14. CASE UNCHANGED Bill!vars
  BY <1>12, <1>14 DEF Bill!vars
<1> QED
  BY <1>1, <1>2, <1>3, <1>4, <1>5, <1>6, <1>7, <1>8, <1>9, <1>10, <1>11, <1>13, <1>14
  DEF Bill!Next, Bill!Mounts

\* The portal.  s1 is the page, s4 the lookups, s5 what is selected, s7 the step of the flow,
\* s8 its prompt, s10 its reading, s11 the orders under way and s12 the prompts.  The flow on
\* screen waits for at most one order, which is for what is selected, and then for the prompt
\* that order got; a prompt that was sent is not sent again for another order.
SaleInv ==
    /\ s1 \in {"hotspot", "pppoe"} /\ (s4 # {} => s1 = "pppoe")
    /\ DOMAIN s12 = 1 .. MaxOrders /\ \A c \in 1 .. MaxOrders : DOMAIN s12[c] = {"item", "outcome"}
    /\ \A o \in s11 : /\ DOMAIN o = {"item", "here"} /\ o.here \in BOOLEAN /\ o.item # Shop!Nothing
                      /\ o.here => s7 = "sending" /\ (s1 = "hotspot" => o.item = s5)
    /\ \A o, p \in s11 : o.here /\ p.here => o = p
    /\ s10 # "none" => s7 = "waiting"
    /\ s7 \in {"waiting", "success"} =>
           /\ s8 \in 1 .. MaxOrders /\ s12[s8].item # Shop!Nothing
           /\ s1 = "hotspot" => s12[s8].item = s5
    /\ s10 = "completed" \/ s7 = "success" => s12[s8].outcome = "completed"

LEMMA SaleBegin == Shop!Init => SaleInv
BY DEF Shop!Init, SaleInv, Shop!Prompts, Shop!Unsent

LEMMA SaleStep == SaleInv /\ [Shop!Next]_(Shop!vars) => SaleInv'
<1> SUFFICES ASSUME SaleInv, [Shop!Next]_(Shop!vars) PROVE SaleInv'
  OBVIOUS
\* The flow begins anew and hears of no order.
<1>1. ASSUME Shop!Mounted, UNCHANGED <<s1, s12>>, s4' # {} => s1 = "pppoe" PROVE SaleInv'
  <2>1. s11' = {[o EXCEPT !.here = FALSE] : o \in s11} /\ s7' = "form" /\ s8' = 0 /\ s10' = "none"
    BY <1>1 DEF Shop!Mounted
  <2>2. ASSUME NEW o \in s11'
        PROVE  DOMAIN o = {"item", "here"} /\ o.here = FALSE /\ o.item # Shop!Nothing
    <3>1. PICK p \in s11 : o = [p EXCEPT !.here = FALSE]
      BY <2>1
    <3>2. DOMAIN p = {"item", "here"} /\ p.item # Shop!Nothing
      BY DEF SaleInv
    <3> QED
      BY <3>1, <3>2
  <2> QED
    BY <1>1, <2>1, <2>2 DEF SaleInv
\* Nothing changes but what the proof does not speak of.
<1>2. ASSUME UNCHANGED <<s1, s7, s8, s10, s11, s12>>, s4' # {} => s1 = "pppoe", s1 = "hotspot" => s5' = s5
      PROVE  SaleInv'
  BY <1>2 DEF SaleInv
<1>3. CASE \/ \E i \in Goods : Shop!SelectPlan(i)
           \/ Shop!Renew \/ Shop!Back
  <2>1. Shop!Mounted /\ UNCHANGED <<s1, s4, s12>>
    BY <1>3 DEF Shop!SelectPlan, Shop!Renew, Shop!Back
  <2> QED
    BY <1>1, <2>1 DEF SaleInv
<1>4. CASE Shop!Done
  <2>1. Shop!Mounted /\ UNCHANGED <<s1, s12>> /\ (s1 = "hotspot" => s4' = s4)
    BY <1>4 DEF Shop!Done
  <2> QED
    BY <1>1, <2>1 DEF SaleInv
<1>5. CASE \/ \E outcome \in {"ready", "error"} : Shop!PlansRead(outcome)
           \/ \E i \in Goods : Shop!Type(i)
           \/ Shop!CheckStatus \/ Shop!LookUpAnother
           \/ \E l \in s4 : Shop!LookupFound(l) \/ Shop!LookupMissed(l)
  <2>1. UNCHANGED <<s1, s7, s8, s10, s11, s12>>
    BY <1>5 DEF Shop!PlansRead, Shop!Type, Shop!CheckStatus, Shop!LookUpAnother, Shop!LookupFound,
       Shop!LookupMissed, Shop!Flow
  <2>2. (s4' # {} => s1 = "pppoe") /\ (s1 = "hotspot" => s5' = s5)
    BY <1>5 DEF SaleInv, Shop!PlansRead, Shop!Type, Shop!CheckStatus, Shop!LookUpAnother,
       Shop!LookupFound, Shop!LookupMissed, Shop!CardShown, Shop!SearchShown
  <2> QED
    BY <1>2, <2>1, <2>2
<1>6. CASE Shop!PayWithoutPhone
  BY <1>6 DEF SaleInv, Shop!PayWithoutPhone, Shop!FormShown
<1>7. CASE Shop!Pay
  <2>1. /\ s7 \in {"form", "error"} /\ s7' = "sending" /\ UNCHANGED <<s1, s4, s5, s10, s12>>
        /\ s11' = s11 \cup {[item |-> Shop!Ordered, here |-> TRUE]}
        /\ Shop!Ordered # Shop!Nothing
    BY <1>7 DEF Shop!Pay, Shop!FormShown
  <2>2. s1 = "hotspot" => Shop!Ordered = s5
    BY DEF Shop!Ordered
  <2>3. \A o \in s11 : ~o.here
    BY <2>1 DEF SaleInv
  <2>4. PICK i : i = Shop!Ordered
    OBVIOUS
  <2>5. i # Shop!Nothing /\ (s1 = "hotspot" => i = s5) /\ s11' = s11 \cup {[item |-> i, here |-> TRUE]}
    BY <2>1, <2>2, <2>4
  <2>6. \A o \in s11' : o \in s11 \/ (DOMAIN o = {"item", "here"} /\ o.here = TRUE /\ o.item = i)
    BY <2>5
  <2>7. \A o, p \in s11' : o.here /\ p.here => o = p
    BY <2>3, <2>5
  <2>8. s10' = "none"
    BY <2>1 DEF SaleInv
  <2> QED
    BY <2>1, <2>3, <2>5, <2>6, <2>7, <2>8 DEF SaleInv
<1>8. ASSUME NEW o \in s11, NEW c \in 1 .. MaxOrders, Shop!OrderAccepted(o, c) PROVE SaleInv'
  <2>1. /\ s12[c] = Shop!Unsent /\ s11' = s11 \ {o} /\ s12' = [s12 EXCEPT ![c].item = o.item]
        /\ UNCHANGED <<s1, s4, s5>>
        /\ IF o.here THEN s7' = "waiting" /\ s8' = c /\ s10' = "none" ELSE UNCHANGED <<s7, s8, s10>>
    BY <1>8 DEF Shop!OrderAccepted, Shop!Free, Shop!Flow
  <2>2. /\ DOMAIN s12' = 1 .. MaxOrders
        /\ \A d \in 1 .. MaxOrders : DOMAIN s12'[d] = {"item", "outcome"} /\ s12'[d].outcome = s12[d].outcome
        /\ \A d \in 1 .. MaxOrders : d # c => s12'[d] = s12[d]
        /\ s12'[c].item = o.item
    BY <2>1 DEF SaleInv
  <2>3. CASE o.here
    <3>1. \A p \in s11' : ~p.here
      BY <2>1, <2>3 DEF SaleInv
    <3>2. o.item # Shop!Nothing /\ (s1 = "hotspot" => o.item = s5)
      BY <2>3 DEF SaleInv
    <3> QED
      BY <2>1, <2>2, <2>3, <3>1, <3>2 DEF SaleInv
  <2>4. CASE ~o.here
    <3>1. s7 \in {"waiting", "success"} => s8 # c
      BY <2>1 DEF SaleInv, Shop!Unsent
    <3> QED
      BY <2>1, <2>2, <2>4, <3>1 DEF SaleInv
  <2> QED
    BY <2>3, <2>4
<1>9. ASSUME NEW o \in s11, Shop!OrderRefused(o) PROVE SaleInv'
  <2>1. /\ s11' = s11 \ {o} /\ s7' = (IF o.here THEN "error" ELSE s7)
        /\ UNCHANGED <<s1, s4, s5, s8, s10, s12>>
    BY <1>9 DEF Shop!OrderRefused
  <2>2. CASE o.here
    <3>1. (\A p \in s11' : ~p.here) /\ s7 = "sending"
      BY <2>1, <2>2 DEF SaleInv
    <3> QED
      BY <2>1, <2>2, <3>1 DEF SaleInv
  <2>3. CASE ~o.here
    BY <2>1, <2>3 DEF SaleInv
  <2> QED
    BY <2>2, <2>3
<1>10. CASE Shop!AskStatus
  BY <1>10 DEF SaleInv, Shop!AskStatus
<1>11. CASE Shop!StatusServed
  BY <1>11 DEF SaleInv, Shop!StatusServed
<1>12. CASE Shop!StatusRead
  BY <1>12 DEF SaleInv, Shop!StatusRead
<1>13. CASE Shop!StatusPending
  BY <1>13 DEF SaleInv, Shop!StatusPending
<1>14. CASE Shop!Retry
  BY <1>14 DEF SaleInv, Shop!Retry
<1>15. ASSUME NEW c \in 1 .. MaxOrders, NEW outcome \in {"completed", "failed"}, Shop!PhoneAnswered(c, outcome)
       PROVE  SaleInv'
  <2>1. /\ s12[c].outcome = "pending" /\ s12' = [s12 EXCEPT ![c].outcome = outcome]
        /\ UNCHANGED <<s1, s4, s5, s7, s8, s10, s11>>
    BY <1>15 DEF Shop!PhoneAnswered, Shop!Flow
  <2>2. /\ DOMAIN s12' = 1 .. MaxOrders
        /\ \A d \in 1 .. MaxOrders : DOMAIN s12'[d] = {"item", "outcome"} /\ s12'[d].item = s12[d].item
        /\ \A d \in 1 .. MaxOrders : d # c => s12'[d] = s12[d]
    BY <2>1 DEF SaleInv
  <2> QED
    BY <2>1, <2>2 DEF SaleInv
<1>16. CASE UNCHANGED Shop!vars
  BY <1>2, <1>16 DEF Shop!vars, SaleInv
<1> QED
  BY <1>3, <1>4, <1>5, <1>6, <1>7, <1>8, <1>9, <1>10, <1>11, <1>12, <1>13, <1>14, <1>15, <1>16
  DEF Shop!Next, Shop!Prompts

\* The sign-up.  s1 is the step of each wizard, s3 its token, s4 the token saved, s5 the request
\* under way, s6 the answer to it; s9 are the rows of the server, s10 the jobs, s11 the tenants
\* and s12 the administrators.
Rows == 1 .. MaxSignups
Landed == {"provisioning", "completed", "failed"}

\* What a step of the wizard rests on in the row r.
Supports(n, r) ==
    /\ r.status # "none"
    /\ n \in {3, 4, 5} => r.verified
    /\ n \in {4, 5} => r.slug # "none"
    /\ n = 6 => r.status \in Landed

\* The row r tells no more than was done.
Sound(r) ==
    /\ r.status # "none" => r.email \in Emails /\ r.reached >= 2
    /\ r.status \in Landed => r.reached >= 5
    /\ r.reached >= 3 => r.verified
    /\ r.reached >= 4 => r.slug # "none"

\* A job works on a row that waits for it, and has made what it has passed.
JobSound(i) ==
    /\ s10[i].at # "idle" => s9[i].status = "provisioning"
    /\ s10[i].at \in {"insert", "admin", "finish"} => s10[i].slug \in Slugs
    /\ s10[i].at \in {"admin", "finish"} => Signup!HasTenant(i)
    /\ s10[i].at = "finish" \/ s9[i].status = "completed" =>
           Signup!HasTenant(i) /\ s12[s9[i].email] = i

\* The row a request is about once it is answered.
About(p) == IF s5[p] = "start" THEN s6[p].to ELSE s3[p]

WizardSound(p) ==
    /\ s1[p] \in 1 .. 6 /\ s3[p] \in Rows \cup {0} /\ s4[p] \in Rows \cup {0}
    /\ s3[p] # 0 => s9[s3[p]].status # "none"
    /\ s1[p] > 1 => s3[p] # 0 /\ Supports(s1[p], s9[s3[p]])
    /\ s1[p] = 6 => s5[p] = "none"
    /\ s5[p] = "boot" => s4[p] # 0
    /\ s5[p] \in {"retarget", "verify", "account", "profile", "complete"} => s3[p] # 0
    /\ s6[p].is # "none" => s5[p] \in Signup!Kinds
    /\ s6[p].is = "ok" => About(p) \in Rows /\ Supports(Signup!NextStep(s5[p]), s9[About(p)])

SignupTyped ==
    /\ DOMAIN s1 = Persons /\ s2 \in [Persons -> Emails] /\ DOMAIN s3 = Persons /\ DOMAIN s4 = Persons
    /\ DOMAIN s5 = Persons /\ DOMAIN s6 = Persons
    /\ s9 \in [Rows -> Signup!Row]
    /\ s10 \in [Rows -> [at : {"idle", "claim", "insert", "admin", "finish"}, slug : Slugs \cup {"none"}]]
    /\ DOMAIN s11 = Slugs /\ DOMAIN s12 = Emails

SignupInv ==
    /\ SignupTyped
    /\ \A i \in Rows : Sound(s9[i]) /\ JobSound(i)
    /\ \A p \in Persons : WizardSound(p)

LEMMA RowsCount == MaxSignups \in Nat /\ 0 \notin Rows /\ "none" \notin Slugs
BY WaitingAssumption DEF Signup!OnboardingAssumption, Rows

LEMMA SignupBegin == Signup!Init => SignupInv
<1> SUFFICES ASSUME Signup!Init PROVE SignupInv
  OBVIOUS
<1>1. SignupTyped
  BY RowsCount DEF Signup!Init, SignupTyped, Signup!Signups, Signup!Row, Signup!Statuses, Signup!NoRow,
     Signup!Idle, Rows
<1>2. \A i \in Rows : Sound(s9[i]) /\ JobSound(i)
  BY DEF Signup!Init, Signup!Signups, Rows, Sound, Landed, JobSound, Signup!NoRow, Signup!Idle
<1>3. \A p \in Persons : WizardSound(p)
  BY DEF Signup!Init, WizardSound, Signup!Nothing, Signup!None
<1> QED
  BY <1>1, <1>2, <1>3 DEF SignupInv

\* What a row has, it keeps.
Grown(r, q) ==
    r.status # "none" => /\ q.status # "none"
                         /\ r.verified => q.verified
                         /\ r.slug # "none" => q.slug # "none"
                         /\ r.status \in Landed => q.status \in Landed

LEMMA StillSupports ==
    ASSUME NEW r, NEW q, Grown(r, q), NEW n, Supports(n, r)
    PROVE  Supports(n, q)
BY DEF Grown, Supports

\* A wizard that does nothing, while a row grows.
LEMMA WizardKept ==
    ASSUME NEW p \in Persons, WizardSound(p), SignupTyped,
           \A i \in Rows : Grown(s9[i], s9'[i]),
           s1'[p] = s1[p], s3'[p] = s3[p], s4'[p] = s4[p], s5'[p] = s5[p], s6'[p] = s6[p]
    PROVE  WizardSound(p)'
<1>1. About(p)' = About(p)
  BY DEF About
<1>2. s3[p] # 0 => s9'[s3[p]].status # "none"
  BY DEF WizardSound, Grown
<1>3. s1[p] > 1 => s3[p] # 0 /\ Supports(s1[p], s9'[s3[p]])
  BY StillSupports DEF WizardSound
<1>4. s6[p].is = "ok" => About(p) \in Rows /\ Supports(Signup!NextStep(s5[p]), s9'[About(p)])
  BY StillSupports DEF WizardSound
<1>5. Signup!NextStep(s5[p])' = Signup!NextStep(s5'[p])
  BY DEF Signup!NextStep
<1> QED
  BY <1>1, <1>2, <1>3, <1>4, <1>5 DEF WizardSound

\* A wizard goes on, and no row does.
LEMMA WizardGoes ==
    ASSUME SignupInv, NEW p \in Persons, UNCHANGED <<s9, s10, s11, s12>>,
           DOMAIN s1' = Persons, s2' \in [Persons -> Emails], DOMAIN s3' = Persons, DOMAIN s4' = Persons,
           DOMAIN s5' = Persons, DOMAIN s6' = Persons,
           \A q \in Persons \ {p} : /\ s1'[q] = s1[q] /\ s3'[q] = s3[q] /\ s4'[q] = s4[q]
                                    /\ s5'[q] = s5[q] /\ s6'[q] = s6[q],
           WizardSound(p)'
    PROVE  SignupInv'
<1>1. SignupTyped'
  BY DEF SignupInv, SignupTyped
<1>2. \A i \in Rows : (Sound(s9[i]) /\ JobSound(i))'
  BY DEF SignupInv, Sound, JobSound, Signup!HasTenant
<1>3. ASSUME NEW q \in Persons, q # p PROVE WizardSound(q)'
  <2>1. \A i \in Rows : Grown(s9[i], s9'[i])
    BY DEF Grown
  <2> QED
    BY <1>3, <2>1, WizardKept DEF SignupInv
<1> QED
  BY <1>1, <1>2, <1>3 DEF SignupInv

\* What the person does, and what becomes of an answer.
LEMMA PersonStep ==
    ASSUME SignupInv, NEW p \in Persons,
           \/ \E e \in Emails : Signup!TypeEmail(p, e)
           \/ Signup!Submit(p) \/ Signup!GoBack(p) \/ Signup!ChangeNumber(p) \/ Signup!Answered(p)
           \/ Signup!Lost(p) \/ Signup!Reload(p) \/ Signup!Restored(p) \/ Signup!NotRestored(p)
           \/ Signup!Poll(p) \/ Signup!Finish(p)
    PROVE  SignupInv'
<1> USE DEF Signup!server
<1>t. SignupTyped /\ WizardSound(p)
  BY DEF SignupInv
<1>s. UNCHANGED <<s9, s10, s11, s12>>
  BY DEF Signup!TypeEmail, Signup!Submit, Signup!GoBack, Signup!ChangeNumber, Signup!Answered,
     Signup!Lost, Signup!Reload, Signup!Restored, Signup!NotRestored, Signup!Poll, Signup!Finish
<1>d. /\ DOMAIN s1' = Persons /\ DOMAIN s3' = Persons /\ DOMAIN s4' = Persons
      /\ DOMAIN s5' = Persons /\ DOMAIN s6' = Persons
  BY <1>t DEF SignupTyped, Signup!TypeEmail, Signup!Submit, Signup!GoBack, Signup!ChangeNumber,
     Signup!Answered, Signup!Keep, Signup!Lost, Signup!Reload, Signup!Restored, Signup!NotRestored,
     Signup!Poll, Signup!Finish
<1>o. \A q \in Persons \ {p} : /\ s1'[q] = s1[q] /\ s3'[q] = s3[q] /\ s4'[q] = s4[q]
                               /\ s5'[q] = s5[q] /\ s6'[q] = s6[q]
  BY <1>t DEF SignupTyped, Signup!TypeEmail, Signup!Submit, Signup!GoBack, Signup!ChangeNumber,
     Signup!Answered, Signup!Keep, Signup!Lost, Signup!Reload, Signup!Restored, Signup!NotRestored,
     Signup!Poll, Signup!Finish
<1>n. 0 \notin Rows
  BY RowsCount DEF Rows
<1>e. s2' \in [Persons -> Emails]
  <2>1. CASE Signup!Restored(p)
    <3>1. s5[p] = "boot" /\ s9[s4[p]].status # "none" /\ s2' = [s2 EXCEPT ![p] = s9[s4[p]].email]
      BY <2>1 DEF Signup!Restored, Signup!Readable
    <3>2. s4[p] \in Rows
      BY <1>t, <3>1 DEF WizardSound
    <3>3. s9[s4[p]].email \in Emails
      BY <3>1, <3>2 DEF SignupInv, Sound
    <3> QED
      BY <1>t, <3>1, <3>3 DEF SignupTyped
  <2>2. CASE \E e \in Emails : Signup!TypeEmail(p, e)
    BY <1>t, <2>2 DEF SignupTyped, Signup!TypeEmail
  <2>3. CASE ~Signup!Restored(p) /\ ~(\E e \in Emails : Signup!TypeEmail(p, e))
    BY <1>t, <2>3 DEF SignupTyped, Signup!Submit, Signup!GoBack, Signup!ChangeNumber,
       Signup!Answered, Signup!Lost, Signup!Reload, Signup!NotRestored, Signup!Poll, Signup!Finish
  <2> QED
    BY <2>1, <2>2, <2>3
<1> SUFFICES WizardSound(p)'
  BY <1>s, <1>d, <1>o, <1>e, WizardGoes
<1>1. ASSUME UNCHANGED <<s3, s4>>, s6'[p].is # "ok", s6'[p].is # "none" => s5'[p] \in Signup!Kinds,
             s1'[p] \in 1 .. 6, s1'[p] > 1 => s3[p] # 0 /\ Supports(s1'[p], s9[s3[p]]),
             s1'[p] = 6 => s5'[p] = "none", s5'[p] # "boot",
             s5'[p] \in {"retarget", "verify", "account", "profile", "complete"} => s3[p] # 0
      PROVE  WizardSound(p)'
  BY <1>t, <1>s, <1>1 DEF WizardSound
\* The forms on screen are of steps whose ground is laid.
<1>2. CASE Signup!Submit(p)
  <2>1. s5[p] = "none" /\ UNCHANGED <<s1, s3, s4, s6>>
    BY <1>2 DEF Signup!Submit
  <2>2. PICK k \in Signup!IdentityForm(p) \cup Signup!CodeForm(p) \cup Signup!AccountForm(p)
                       \cup Signup!LocaleForm(p) \cup Signup!PasswordForm(p) : s5' = [s5 EXCEPT ![p] = k]
    BY <1>2 DEF Signup!Submit
  <2>3. k \in Signup!Kinds /\ s1[p] # 6 /\ (k = "start" \/ s3[p] # 0)
    BY <1>t DEF WizardSound, Signup!IdentityForm, Signup!CodeForm, Signup!AccountForm,
       Signup!LocaleForm, Signup!PasswordForm, Signup!Kinds, Signup!None
  <2>4. s5'[p] = k /\ s6[p].is = "none"
    BY <1>t, <2>1, <2>2 DEF SignupTyped, WizardSound, Signup!Kinds
  <2>5. k # "boot"
    BY <2>3 DEF Signup!Kinds
  <2> QED
    BY <1>1, <1>t, <2>1, <2>3, <2>4, <2>5 DEF WizardSound
<1>3. CASE \E e \in Emails : Signup!TypeEmail(p, e)
  <2>1. UNCHANGED <<s1, s3, s4, s5, s6>>
    BY <1>3 DEF Signup!TypeEmail
  <2> QED
    BY <1>t, <1>s, <2>1 DEF WizardSound, About
<1>4. CASE Signup!GoBack(p)
  <2>1. s5[p] = "none" /\ s1[p] \in 2 .. 5 /\ s1' = [s1 EXCEPT ![p] = @ - 1] /\ UNCHANGED <<s3, s4, s5, s6>>
    BY <1>4 DEF Signup!GoBack
  <2>2. s1'[p] = s1[p] - 1
    BY <1>t, <2>1 DEF SignupTyped
  <2>3. s1'[p] > 1 => s3[p] # 0 /\ Supports(s1'[p], s9[s3[p]])
    BY <1>t, <2>1, <2>2 DEF WizardSound, Supports
  <2>4. s6'[p].is = "none" /\ s5'[p] = "none"
    BY <1>t, <2>1 DEF WizardSound, Signup!Kinds
  <2> QED
    BY <1>1, <2>1, <2>2, <2>3, <2>4
<1>5. CASE Signup!ChangeNumber(p)
  <2>1. s5[p] # "boot" /\ s1' = [s1 EXCEPT ![p] = 1] /\ UNCHANGED <<s3, s4, s5, s6>>
    BY <1>5 DEF Signup!ChangeNumber
  <2>2. s1'[p] = 1
    BY <1>t, <2>1 DEF SignupTyped
  <2> QED
    BY <1>t, <1>s, <2>1, <2>2 DEF WizardSound, About
<1>6. CASE Signup!Lost(p)
  <2>1. s5'[p] = "none" /\ s6'[p] = Signup!Nothing /\ UNCHANGED <<s1, s3, s4>>
    BY <1>6, <1>t DEF Signup!Lost, SignupTyped
  <2> QED
    BY <1>1, <1>t, <2>1 DEF WizardSound, Signup!Nothing
<1>7. CASE Signup!Reload(p)
  <2>1. /\ s1'[p] = 1 /\ s3'[p] = 0 /\ s5'[p] = (IF s4[p] # 0 THEN "boot" ELSE "none")
        /\ s6'[p].is = "none" /\ s4' = s4
    BY <1>7, <1>t DEF Signup!Reload, SignupTyped, Signup!None, Signup!Nothing
  <2> QED
    BY <1>t, <2>1 DEF WizardSound
<1>8. CASE Signup!NotRestored(p)
  <2>1. s5[p] = "boot" /\ s5'[p] = "none" /\ s4'[p] = 0 /\ UNCHANGED <<s1, s3, s6>>
    BY <1>8, <1>t DEF Signup!NotRestored, SignupTyped, Signup!None
  <2>2. s6[p].is = "none"
    BY <1>t, <2>1 DEF WizardSound, Signup!Kinds
  <2> QED
    BY <1>t, <1>s, <2>1, <2>2 DEF WizardSound
<1>9. CASE Signup!Poll(p)
  <2>1. UNCHANGED <<s1, s3, s4, s5, s6>>
    BY <1>9 DEF Signup!Poll
  <2> QED
    BY <1>t, <1>s, <2>1 DEF WizardSound, About
<1>10. CASE Signup!Finish(p)
  <2>1. s1[p] = 6 /\ s1'[p] = 1 /\ s3'[p] = 0 /\ s4'[p] = 0 /\ UNCHANGED <<s5, s6>>
    BY <1>10, <1>t DEF Signup!Finish, SignupTyped, Signup!None
  <2>2. s5[p] = "none" /\ s6[p].is = "none"
    BY <1>t, <2>1 DEF WizardSound, Signup!Kinds
  <2> QED
    BY <1>t, <2>1, <2>2 DEF WizardSound
\* The row says where the wizard goes on.
<1>11. CASE Signup!Restored(p)
  <2> DEFINE r == s9[s4[p]]
  <2>1. /\ s5[p] = "boot" /\ r.status # "none" /\ s5'[p] = "none" /\ s3'[p] = s4[p]
        /\ s1'[p] = Signup!Position(r) /\ UNCHANGED <<s4, s6>>
    BY <1>11, <1>t DEF Signup!Restored, Signup!Readable, SignupTyped
  <2>2. s4[p] \in Rows /\ s6[p].is = "none"
    BY <1>t, <2>1 DEF WizardSound, Signup!Kinds
  <2>3. Sound(r) /\ r \in Signup!Row
    BY <2>2 DEF SignupInv, SignupTyped
  <2>4. Signup!Position(r) \in 1 .. 6 /\ Supports(Signup!Position(r), r)
    BY <2>1, <2>3 DEF Signup!Position, Signup!Row, Sound, Supports, Landed
  <2> QED
    BY <1>n, <1>s, <2>1, <2>2, <2>4 DEF WizardSound
\* The answer to a request takes the wizard to the step it has earned.
<1>12. CASE Signup!Answered(p)
  <2>1. s6[p].is # "none" /\ s5'[p] = "none" /\ s6'[p].is = "none"
    BY <1>12, <1>t DEF Signup!Answered, SignupTyped, Signup!Nothing
  <2>2. CASE s6[p].is # "ok"
    <3>1. UNCHANGED <<s1, s3, s4>>
      BY <1>12, <2>2 DEF Signup!Answered
    <3> QED
      BY <1>1, <1>t, <2>1, <3>1 DEF WizardSound
  <2>3. CASE s6[p].is = "ok"
    <3> DEFINE n == Signup!NextStep(s5[p])
    <3>1. About(p) \in Rows /\ Supports(n, s9[About(p)])
      BY <1>t, <2>3 DEF WizardSound
    <3>2. s1' = [s1 EXCEPT ![p] = n] /\ Signup!Keep(p)
      BY <1>12, <2>3 DEF Signup!Answered
    <3>3. s1'[p] = n /\ n \in 2 .. 6
      BY <1>t, <3>2 DEF SignupTyped, Signup!NextStep
    <3>4. s3'[p] = About(p) /\ s4'[p] \in Rows \cup {0}
      BY <1>t, <3>1, <3>2 DEF Signup!Keep, About, SignupTyped, WizardSound
    <3>5. About(p) # 0
      BY <1>n, <3>1
    <3>6. s9[About(p)].status # "none"
      BY <3>1 DEF Supports
    <3> HIDE DEF n
    <3> QED
      BY <1>s, <2>1, <3>1, <3>3, <3>4, <3>5, <3>6 DEF WizardSound
  <2> QED
    BY <2>2, <2>3
<1> QED
  BY <1>2, <1>3, <1>4, <1>5, <1>6, <1>7, <1>8, <1>9, <1>10, <1>11, <1>12

\* The server serves a request: the row i becomes r, and its job is as it was or begins.
LEMMA ServedStep ==
    ASSUME SignupInv, NEW p \in Persons, NEW i \in Rows, NEW r \in Signup!Row, NEW answer,
           Signup!Serve(p, i, r, answer), Grown(s9[i], r), Sound(r),
           \/ s10' = s10 /\ r.status = s9[i].status /\ r.email = s9[i].email
           \/ s10' = s10 /\ s9[i].status = "none" /\ r.status = "pending"
           \/ /\ s10' = [s10 EXCEPT ![i] = [at |-> "claim", slug |-> "none"]]
              /\ r.status = "provisioning" /\ s9[i].status \in {"pending", "failed"},
           answer = "ok" => (s5[p] = "start" \/ i = s3[p]) /\ Supports(Signup!NextStep(s5[p]), r)
    PROVE  SignupInv'
<1>1. /\ s5[p] \in Signup!Kinds /\ s6[p].is = "none" /\ s9' = [s9 EXCEPT ![i] = r]
      /\ s6' = [s6 EXCEPT ![p] = [is |-> answer, to |-> i]]
      /\ UNCHANGED <<s1, s2, s3, s4, s5, s11, s12>>
  BY DEF Signup!Serve
<1>2. SignupTyped /\ SignupTyped'
  BY <1>1 DEF SignupInv, SignupTyped
<1>3. s9'[i] = r /\ \A j \in Rows \ {i} : s9'[j] = s9[j]
  BY <1>1, <1>2 DEF SignupTyped
<1>4. \A j \in Rows : Grown(s9[j], s9'[j])
  BY <1>3 DEF Grown
<1>5. \A j \in Rows : Sound(s9[j])'
  BY <1>3 DEF SignupInv, Sound
<1>6. ASSUME NEW j \in Rows PROVE JobSound(j)'
  <2>1. Signup!HasTenant(j)' <=> Signup!HasTenant(j)
    BY <1>1 DEF Signup!HasTenant
  <2>2. JobSound(j)
    BY DEF SignupInv
  <2>3. CASE j # i
    <3>1. s10'[j] = s10[j] /\ s9'[j] = s9[j]
      BY <1>2, <1>3, <2>3 DEF SignupTyped
    <3> QED
      BY <1>1, <2>1, <2>2, <3>1 DEF JobSound
  <2>4. CASE j = i /\ s10' = s10 /\ r.status = s9[i].status /\ r.email = s9[i].email
    BY <1>1, <1>3, <2>1, <2>2, <2>4 DEF JobSound
  <2>5. CASE j = i /\ s10' = s10 /\ s9[i].status = "none" /\ r.status = "pending"
    BY <1>3, <1>2, <2>2, <2>5 DEF JobSound, SignupTyped
  <2>6. CASE /\ j = i /\ s10' = [s10 EXCEPT ![i] = [at |-> "claim", slug |-> "none"]]
             /\ r.status = "provisioning"
    <3>1. s10'[j].at = "claim"
      BY <1>2, <2>6 DEF SignupTyped
    <3> QED
      BY <1>3, <2>6, <3>1 DEF JobSound
  <2> QED
    BY <2>3, <2>4, <2>5, <2>6
<1>7. ASSUME NEW q \in Persons, q # p PROVE WizardSound(q)'
  <2>1. s6'[q] = s6[q]
    BY <1>1, <1>2, <1>7 DEF SignupTyped
  <2> QED
    BY <1>1, <1>2, <1>4, <2>1, WizardKept DEF SignupInv
<1>8. WizardSound(p)'
  <2>1. WizardSound(p)
    BY DEF SignupInv
  <2>2. s6'[p].is = answer /\ s6'[p].to = i
    BY <1>1, <1>2 DEF SignupTyped
  <2>3. s3[p] # 0 => s9'[s3[p]].status # "none"
    BY <1>4, <2>1 DEF WizardSound, Grown
  <2>4. s1[p] > 1 => s3[p] # 0 /\ Supports(s1[p], s9'[s3[p]])
    BY <1>4, <2>1, StillSupports DEF WizardSound
  <2>5. answer = "ok" => About(p)' = i
    BY <1>1, <2>2 DEF About
  <2>6. (Signup!NextStep(s5[p]))' = Signup!NextStep(s5[p])
    BY <1>1 DEF Signup!NextStep
  <2> QED
    BY <1>1, <1>3, <2>1, <2>2, <2>3, <2>4, <2>5, <2>6 DEF WizardSound
<1> QED
  BY <1>2, <1>5, <1>6, <1>7, <1>8 DEF SignupInv

\* What a refusal, or an answer that says the number is proven, leaves.
LEMMA RefusedStep ==
    ASSUME SignupInv, NEW p \in Persons, NEW i \in Rows, NEW answer \in {"refused", "verified"},
           Signup!Serve(p, i, s9[i], answer), s10' = s10
    PROVE  SignupInv'
<1>1. s9[i] \in Signup!Row /\ Grown(s9[i], s9[i]) /\ Sound(s9[i])
  BY DEF SignupInv, SignupTyped, Grown
<1> QED
  BY <1>1, ServedStep

\* What the handlers write on a row.
LEMMA Proven ==
    ASSUME NEW x \in Signup!Row, NEW n \in 0 .. 6
    PROVE  LET y == [x EXCEPT !.verified = TRUE, !.reached = n] IN
               /\ y \in Signup!Row /\ y.status = x.status /\ y.email = x.email
               /\ y.verified = TRUE /\ y.slug = x.slug /\ y.reached = n
BY DEF Signup!Row

LEMMA Opened ==
    ASSUME NEW e \in Emails
    PROVE  LET y == [Signup!NoRow EXCEPT !.status = "pending", !.reached = 2, !.email = e] IN
               y \in Signup!Row /\ y.status = "pending" /\ y.reached = 2 /\ y.email = e
<1> DEFINE x == [Signup!NoRow EXCEPT !.status = "pending"]
           y == [x EXCEPT !.reached = 2]
           z == [y EXCEPT !.email = e]
<1>1. x \in Signup!Row /\ x.status = "pending"
  <2>1. 0 \in 0 .. 6
    OBVIOUS
  <2>2. Signup!NoRow \in Signup!Row
    BY <2>1 DEF Signup!NoRow, Signup!Row, Signup!Statuses
  <2> QED
    BY <2>2 DEF Signup!Row, Signup!Statuses
<1>2. 2 \in 0 .. 6
  OBVIOUS
<1>3. z \in Signup!Row /\ z.status = "pending" /\ z.reached = 2 /\ z.email = e
  <2> HIDE DEF x
  <2>1. y \in Signup!Row /\ y.status = "pending" /\ y.reached = 2
    BY <1>1, <1>2 DEF Signup!Row
  <2> HIDE DEF y
  <2> QED
    BY <2>1 DEF Signup!Row
<1> QED
  BY <1>3

LEMMA RequestStep ==
    ASSUME SignupInv, NEW p \in Persons,
           \/ Signup!Start(p) \/ Signup!Retarget(p) \/ Signup!Verify(p) \/ Signup!Profile(p)
           \/ Signup!Complete(p) \/ \E s \in Slugs : Signup!Account(p, s)
    PROVE  SignupInv'
<1>t. SignupTyped /\ WizardSound(p)
  BY DEF SignupInv
<1>n. MaxSignups \in Nat /\ 0 \notin Rows /\ "none" \notin Slugs
  BY RowsCount
<1>o. s3[p] \in Rows => /\ Signup!Own(p) = s9[s3[p]] /\ Signup!Own(p) \in Signup!Row
                        /\ Sound(Signup!Own(p)) /\ s9[s3[p]].status # "none"
  BY <1>n, <1>t DEF SignupInv, SignupTyped, Signup!Own, WizardSound
\* The row r that a request of the wizard's own makes of it.
<1>1. ASSUME NEW r \in Signup!Row, Signup!Serve(p, s3[p], r, "ok"), s3[p] \in Rows, s10' = s10,
             r.status = s9[s3[p]].status, r.email = s9[s3[p]].email, Sound(r),
             s9[s3[p]].verified => r.verified, s9[s3[p]].slug # "none" => r.slug # "none",
             Supports(Signup!NextStep(s5[p]), r)
      PROVE  SignupInv'
  <2>1. Grown(s9[s3[p]], r)
    BY <1>1 DEF Grown
  <2> QED
    BY <1>1, <2>1, ServedStep
<1>2. ASSUME s3[p] \in Rows, Signup!Refuse(p), s10' = s10 PROVE SignupInv'
  BY <1>2, RefusedStep DEF Signup!Refuse
<1>3. CASE Signup!Start(p)
  <2>1. PICK i \in Rows : /\ Signup!Fresh(i)
                          /\ IF s12[s2[p]] # 0 THEN Signup!Serve(p, i, s9[i], "refused")
                             ELSE Signup!Serve(p, i, [Signup!NoRow EXCEPT !.status = "pending", !.reached = 2,
                                                                          !.email = s2[p]], "ok")
    BY <1>3 DEF Signup!Start, Signup!Signups, Rows, Signup!None
  <2>2. s10' = s10 /\ s9[i].status = "none" /\ s5[p] = "start"
    BY <1>3, <2>1 DEF Signup!Start, Signup!Fresh
  <2>3. CASE s12[s2[p]] # 0
    BY <2>1, <2>2, <2>3, RefusedStep
  <2>4. CASE s12[s2[p]] = 0
    <3> DEFINE r == [Signup!NoRow EXCEPT !.status = "pending", !.reached = 2, !.email = s2[p]]
    <3>1. s2[p] \in Emails
      BY <1>t DEF SignupTyped
    <3>2. r \in Signup!Row /\ r.status = "pending" /\ r.reached = 2 /\ r.email = s2[p]
      BY <3>1, Opened
    <3>3. Sound(r)
      BY <3>1, <3>2 DEF Sound, Landed
    <3>5. Grown(s9[i], r)
      BY <2>2 DEF Grown
    <3>6. Signup!NextStep("start") = 2
      BY DEF Signup!NextStep
    <3>7. Supports(2, r)
      BY <3>2 DEF Supports
    <3> HIDE DEF r
    <3> QED
      <4>1. Signup!Serve(p, i, r, "ok")
        BY <2>1, <2>4 DEF r
      <4> QED
        BY <2>2, <3>2, <3>3, <3>5, <3>6, <3>7, <4>1, ServedStep
  <2> QED
    BY <2>3, <2>4
<1>4. CASE Signup!Retarget(p)
  <2>1. s5[p] = "retarget" /\ s10' = s10 /\ s3[p] \in Rows
    BY <1>4, <1>t DEF Signup!Retarget, WizardSound
  <2>2. \/ Signup!Serve(p, s3[p], s9[s3[p]], "ok")
        \/ \E answer \in {"refused", "verified"} : Signup!Serve(p, s3[p], s9[s3[p]], answer)
    BY <1>4, <1>o, <2>1 DEF Signup!Retarget
  <2>3. CASE Signup!Serve(p, s3[p], s9[s3[p]], "ok")
    <3>1. Supports(Signup!NextStep("retarget"), s9[s3[p]])
      BY <1>o, <2>1 DEF Signup!NextStep, Supports
    <3> QED
      BY <1>1, <1>o, <2>1, <2>3, <3>1
  <2> QED
    BY <2>1, <2>2, <2>3, RefusedStep
<1>5. CASE Signup!Verify(p)
  <2> DEFINE r == [Signup!Own(p) EXCEPT !.verified = TRUE, !.reached = Signup!Reached(Signup!Own(p), 3)]
  <2>1. s5[p] = "verify" /\ s10' = s10 /\ s3[p] \in Rows
    BY <1>5, <1>t DEF Signup!Verify, WizardSound
  <2>2. CASE Signup!Serve(p, s3[p], r, "ok")
    <3>1. /\ r \in Signup!Row /\ r.status = s9[s3[p]].status /\ r.email = s9[s3[p]].email
          /\ r.verified = TRUE /\ r.slug = s9[s3[p]].slug
          /\ r.reached = Signup!Reached(Signup!Own(p), 3)
      <4>1. Signup!Reached(Signup!Own(p), 3) \in 0 .. 6
        BY <1>o, <2>1 DEF Signup!Row, Signup!Reached
      <4>2. Signup!Own(p) \in Signup!Row /\ Signup!Own(p) = s9[s3[p]]
        BY <1>o, <2>1
      <4>3. /\ r \in Signup!Row /\ r.status = Signup!Own(p).status /\ r.email = Signup!Own(p).email
            /\ r.verified = TRUE /\ r.slug = Signup!Own(p).slug
            /\ r.reached = Signup!Reached(Signup!Own(p), 3)
        BY <4>1, <4>2, Proven
      <4> QED
        BY <4>2, <4>3
    <3>2. Sound(r)
      BY <1>o, <2>1, <3>1 DEF Sound, Landed, Signup!Reached, Signup!Row
    <3>3. Supports(Signup!NextStep("verify"), r)
      BY <1>o, <2>1, <3>1 DEF Signup!NextStep, Supports
    <3> HIDE DEF r
    <3> QED
      BY <1>1, <2>1, <2>2, <3>1, <3>2, <3>3
  <2> QED
    BY <1>2, <1>5, <2>1, <2>2 DEF Signup!Verify
<1>6. ASSUME NEW s \in Slugs, Signup!Account(p, s) PROVE SignupInv'
  <2> DEFINE r == [Signup!Own(p) EXCEPT !.slug = s, !.reached = Signup!Reached(Signup!Own(p), 4)]
  <2>1. s5[p] = "account" /\ s10' = s10 /\ s3[p] \in Rows
    BY <1>6, <1>t DEF Signup!Account, WizardSound
  <2>2. CASE Signup!Own(p).verified /\ Signup!Serve(p, s3[p], r, "ok")
    <3>1. /\ r \in Signup!Row /\ r.status = s9[s3[p]].status /\ r.email = s9[s3[p]].email
          /\ r.verified = s9[s3[p]].verified /\ r.slug = s
          /\ r.reached = Signup!Reached(Signup!Own(p), 4)
      <4>1. Signup!Reached(Signup!Own(p), 4) \in 0 .. 6
        BY <1>o, <2>1 DEF Signup!Row, Signup!Reached
      <4>2. Signup!Own(p) \in Signup!Row /\ Signup!Own(p) = s9[s3[p]]
        BY <1>o, <2>1
      <4> DEFINE x == Signup!Own(p)
                 n == Signup!Reached(x, 4)
      <4> HIDE DEF x, n
      <4>3. /\ r \in Signup!Row /\ r.status = Signup!Own(p).status /\ r.email = Signup!Own(p).email
            /\ r.verified = Signup!Own(p).verified /\ r.slug = s
            /\ r.reached = Signup!Reached(Signup!Own(p), 4)
        <5>1. x \in Signup!Row /\ n \in 0 .. 6 /\ s \in Slugs
          BY <4>1, <4>2 DEF x, n
        <5>2. LET y == [x EXCEPT !.slug = s, !.reached = n] IN
               /\ y \in Signup!Row /\ y.status = x.status /\ y.email = x.email
               /\ y.verified = x.verified /\ y.slug = s /\ y.reached = n
          BY <5>1 DEF Signup!Row
        <5> QED
          BY <5>2 DEF x, n
      <4> QED
        BY <4>2, <4>3
    <3>2. r.verified /\ r.slug # "none"
      BY <1>n, <1>o, <2>1, <2>2, <3>1
    <3>3. Sound(r)
      BY <1>o, <2>1, <3>1, <3>2 DEF Sound, Landed, Signup!Reached, Signup!Row
    <3>4. Supports(Signup!NextStep("account"), r)
      BY <1>o, <2>1, <3>1, <3>2 DEF Signup!NextStep, Supports
    <3> HIDE DEF r
    <3> QED
      BY <1>1, <2>1, <2>2, <3>1, <3>2, <3>3, <3>4
  <2> QED
    BY <1>2, <1>6, <2>1, <2>2 DEF Signup!Account
<1>7. CASE Signup!Profile(p)
  <2> DEFINE r == [Signup!Own(p) EXCEPT !.reached = Signup!Reached(Signup!Own(p), 5)]
  <2>1. s5[p] = "profile" /\ s10' = s10 /\ s3[p] \in Rows
    BY <1>7, <1>t DEF Signup!Profile, WizardSound
  <2>2. CASE Signup!Own(p).verified /\ Signup!Own(p).slug # "none" /\ Signup!Serve(p, s3[p], r, "ok")
    <3>1. /\ r \in Signup!Row /\ r.status = s9[s3[p]].status /\ r.email = s9[s3[p]].email
          /\ r.verified = s9[s3[p]].verified /\ r.slug = s9[s3[p]].slug
          /\ r.reached = Signup!Reached(Signup!Own(p), 5)
      BY <1>o, <2>1 DEF Signup!Row, Signup!Reached
    <3>2. r.verified /\ r.slug # "none"
      BY <1>o, <2>1, <2>2, <3>1
    <3>3. Sound(r)
      BY <1>o, <2>1, <3>1, <3>2 DEF Sound, Landed, Signup!Reached, Signup!Row
    <3>4. Supports(Signup!NextStep("profile"), r)
      BY <1>o, <2>1, <3>1, <3>2 DEF Signup!NextStep, Supports
    <3> HIDE DEF r
    <3> QED
      BY <1>1, <2>1, <2>2, <3>1, <3>2, <3>3, <3>4
  <2> QED
    BY <1>2, <1>7, <2>1, <2>2 DEF Signup!Profile
\* A signup is completed into a job, which is its row's first: the row was not waiting.
<1>8. CASE Signup!Complete(p)
  <2> DEFINE r == [Signup!Own(p) EXCEPT !.status = "provisioning"]
  <2>1. s5[p] = "complete" /\ s3[p] \in Rows
    BY <1>8, <1>t DEF Signup!Complete, WizardSound
  <2>2. CASE /\ Signup!Live(Signup!Own(p)) /\ Signup!Own(p).reached >= 5 /\ Signup!Serve(p, s3[p], r, "ok")
             /\ s10' = [s10 EXCEPT ![s3[p]] = [at |-> "claim", slug |-> "none"]]
    <3>1. /\ r \in Signup!Row /\ r.status = "provisioning" /\ r.email = s9[s3[p]].email
          /\ r.verified = s9[s3[p]].verified /\ r.slug = s9[s3[p]].slug /\ r.reached = s9[s3[p]].reached
      BY <1>o, <2>1 DEF Signup!Row, Signup!Statuses
    <3>2. s9[s3[p]].status \in {"pending", "failed"}
      BY <1>o, <2>1, <2>2 DEF Signup!Live
    <3>3. Sound(r) /\ Grown(s9[s3[p]], r)
      BY <1>o, <2>1, <2>2, <3>1, <3>2 DEF Sound, Grown, Landed
    <3>4. Supports(Signup!NextStep("complete"), r)
      BY <3>1 DEF Signup!NextStep, Supports, Landed
    <3> HIDE DEF r
    <3> QED
      BY <2>1, <2>2, <3>1, <3>2, <3>3, <3>4, ServedStep
  <2> QED
    BY <1>2, <1>8, <2>1, <2>2 DEF Signup!Complete
<1> QED
  BY <1>3, <1>4, <1>5, <1>6, <1>7, <1>8

\* The server works on: no wizard moves.
LEMMA ServerGoes ==
    ASSUME SignupInv, UNCHANGED <<s1, s2, s3, s4, s5, s6>>, s9' \in [Rows -> Signup!Row],
           s10' \in [Rows -> [at : {"idle", "claim", "insert", "admin", "finish"}, slug : Slugs \cup {"none"}]],
           DOMAIN s11' = Slugs, DOMAIN s12' = Emails,
           \A i \in Rows : Grown(s9[i], s9'[i]) /\ Sound(s9[i])' /\ JobSound(i)'
    PROVE  SignupInv'
<1>1. SignupTyped /\ SignupTyped'
  BY DEF SignupInv, SignupTyped
<1>2. \A p \in Persons : WizardSound(p)'
  BY <1>1, WizardKept DEF SignupInv
<1> QED
  BY <1>1, <1>2 DEF SignupInv

\* A job that fails is over, and its row has failed.
LEMMA FailStep ==
    ASSUME SignupInv, NEW i \in Rows, NEW cause \in {"slug", "email"}, s10[i].at # "idle",
           Signup!FailJob(i, cause), UNCHANGED <<s1, s2, s3, s4, s5, s6>>
    PROVE  SignupInv'
<1> DEFINE x == [s9[i] EXCEPT !.status = "failed"]
           r == [x EXCEPT !.error = cause]
<1>t. SignupTyped /\ Sound(s9[i]) /\ JobSound(i) /\ s9[i] \in Signup!Row
  BY DEF SignupInv, SignupTyped
<1>1. /\ s10' = [s10 EXCEPT ![i] = Signup!Idle] /\ UNCHANGED <<s11, s12>>
      /\ s9' = [s9 EXCEPT ![i] = r]
  BY <1>t DEF Signup!FailJob, SignupTyped
<1>2. /\ r \in Signup!Row /\ r.status = "failed" /\ r.email = s9[i].email /\ r.reached = s9[i].reached
      /\ r.verified = s9[i].verified /\ r.slug = s9[i].slug
  <2>1. /\ x \in Signup!Row /\ x.status = "failed" /\ x.email = s9[i].email /\ x.reached = s9[i].reached
        /\ x.verified = s9[i].verified /\ x.slug = s9[i].slug
    BY <1>t DEF Signup!Row, Signup!Statuses
  <2> HIDE DEF x
  <2> QED
    BY <2>1 DEF Signup!Row
<1> HIDE DEF r
<1>3. s9' \in [Rows -> Signup!Row] /\ s9'[i] = r /\ \A j \in Rows \ {i} : s9'[j] = s9[j]
  BY <1>t, <1>1, <1>2 DEF SignupTyped
<1>4. /\ s10' \in [Rows -> [at : {"idle", "claim", "insert", "admin", "finish"}, slug : Slugs \cup {"none"}]]
      /\ s10'[i].at = "idle" /\ \A j \in Rows \ {i} : s10'[j] = s10[j]
  BY <1>t, <1>1 DEF SignupTyped, Signup!Idle
<1>5. s9[i].status = "provisioning"
  BY <1>t DEF JobSound
<1>6. \A j \in Rows : Grown(s9[j], s9'[j]) /\ Sound(s9[j])'
  <2>1. \A j \in Rows \ {i} : Grown(s9[j], s9'[j]) /\ Sound(s9[j])'
    BY <1>3 DEF SignupInv, Grown, Sound
  <2>2. Grown(s9[i], s9'[i]) /\ Sound(s9[i])'
    BY <1>t, <1>2, <1>3, <1>5 DEF Grown, Sound, Landed
  <2> QED
    BY <2>1, <2>2
<1>7. \A j \in Rows : JobSound(j)'
  <2>1. \A j \in Rows : Signup!HasTenant(j)' <=> Signup!HasTenant(j)
    BY <1>1 DEF Signup!HasTenant
  <2>2. \A j \in Rows \ {i} : JobSound(j)'
    BY <1>1, <1>3, <1>4, <2>1 DEF SignupInv, JobSound
  <2>3. JobSound(i)'
    BY <1>2, <1>3, <1>4 DEF JobSound
  <2> QED
    BY <2>2, <2>3
<1> QED
  BY <1>t, <1>1, <1>3, <1>4, <1>6, <1>7, ServerGoes DEF SignupTyped

\* A tenant, or an administrator, is made only where there is none: nobody loses one.
LEMMA JobWorks ==
    ASSUME SignupInv, NEW i \in Rows, Signup!JobStep(i)
    PROVE  SignupInv'
<1>t. /\ SignupTyped /\ Sound(s9[i]) /\ JobSound(i) /\ s9[i] \in Signup!Row /\ s10[i].slug \in Slugs \cup {"none"}
      /\ s10[i] \in [at : {"idle", "claim", "insert", "admin", "finish"}, slug : Slugs \cup {"none"}]
  BY DEF SignupInv, SignupTyped
<1>n. i # 0 /\ 0 \notin Rows
  BY RowsCount
<1>u. UNCHANGED <<s1, s2, s3, s4, s5, s6>>
  BY DEF Signup!JobStep, Signup!Claim, Signup!Insert, Signup!CreateAdmin, Signup!FinishJob, Signup!wizard
<1>g. s9' = s9 => \A j \in Rows : Grown(s9[j], s9'[j]) /\ Sound(s9[j])'
  BY DEF SignupInv, Grown, Sound
<1>1. CASE Signup!Claim(i)
  <2>1. PICK s \in Slugs : s10' = [s10 EXCEPT ![i] = [at |-> "insert", slug |-> s]]
    BY <1>1 DEF Signup!Claim
  <2>2. s10[i].at = "claim" /\ UNCHANGED <<s9, s11, s12>>
    BY <1>1 DEF Signup!Claim
  <2>3. /\ s10' \in [Rows -> [at : {"idle", "claim", "insert", "admin", "finish"}, slug : Slugs \cup {"none"}]]
        /\ s10'[i] = [at |-> "insert", slug |-> s] /\ \A j \in Rows \ {i} : s10'[j] = s10[j]
    BY <1>t, <2>1 DEF SignupTyped
  <2>4. \A j \in Rows : Signup!HasTenant(j)' <=> Signup!HasTenant(j)
    BY <2>2 DEF Signup!HasTenant
  <2>5. \A j \in Rows \ {i} : JobSound(j)'
    BY <2>2, <2>3, <2>4 DEF SignupInv, JobSound
  <2>6. JobSound(i)'
    BY <1>t, <2>2, <2>3 DEF JobSound
  <2> QED
    BY <1>t, <1>u, <1>g, <2>2, <2>3, <2>5, <2>6, ServerGoes DEF SignupTyped
<1>2. CASE Signup!Insert(i)
  <2>1. s10[i].at = "insert" /\ s10[i].slug \in Slugs /\ s9[i].status = "provisioning"
    BY <1>2, <1>t DEF Signup!Insert, JobSound
  <2>2. CASE \E cause \in {"slug", "email"} : Signup!FailJob(i, cause)
    BY <1>u, <2>1, <2>2, FailStep
  <2>3. CASE /\ s11[s10[i].slug] = 0 /\ s11' = [s11 EXCEPT ![s10[i].slug] = i]
             /\ s9' = [s9 EXCEPT ![i].slug = s10[i].slug] /\ s10' = [s10 EXCEPT ![i].at = "admin"]
             /\ s12' = s12
    <3> DEFINE a == s10[i].slug
               r == [s9[i] EXCEPT !.slug = a]
               k == [s10[i] EXCEPT !.at = "admin"]
    <3>1. /\ r \in Signup!Row /\ r.status = "provisioning" /\ r.email = s9[i].email /\ r.reached = s9[i].reached
          /\ r.verified = s9[i].verified /\ r.slug = a
      BY <1>t, <2>1 DEF Signup!Row
    <3>2. s9' = [s9 EXCEPT ![i] = r] /\ s10' = [s10 EXCEPT ![i] = k]
      BY <1>t, <2>3 DEF SignupTyped
    <3>3. /\ k \in [at : {"idle", "claim", "insert", "admin", "finish"}, slug : Slugs \cup {"none"}]
          /\ k.at = "admin" /\ k.slug = a
      BY <1>t, <2>1
    <3> HIDE DEF r, k
    <3>4. s9' \in [Rows -> Signup!Row] /\ s9'[i] = r /\ \A j \in Rows \ {i} : s9'[j] = s9[j]
      BY <1>t, <3>1, <3>2 DEF SignupTyped
    <3>5. /\ s10' \in [Rows -> [at : {"idle", "claim", "insert", "admin", "finish"}, slug : Slugs \cup {"none"}]]
          /\ s10'[i] = k /\ \A j \in Rows \ {i} : s10'[j] = s10[j]
      BY <1>t, <3>2, <3>3 DEF SignupTyped
    <3>6. a # "none"
      BY <2>1, RowsCount
    <3>7. \A j \in Rows : Grown(s9[j], s9'[j]) /\ Sound(s9[j])'
      <4>1. \A j \in Rows \ {i} : Grown(s9[j], s9'[j]) /\ Sound(s9[j])'
        BY <3>4 DEF SignupInv, Grown, Sound
      <4>2. Grown(s9[i], s9'[i]) /\ Sound(s9[i])'
        BY <1>t, <2>1, <3>1, <3>4, <3>6 DEF Grown, Sound, Landed
      <4> QED
        BY <4>1, <4>2
    <3>8. s11'[a] = i /\ \A s \in Slugs \ {a} : s11'[s] = s11[s]
      BY <1>t, <2>1, <2>3 DEF SignupTyped
    <3>9. Signup!HasTenant(i)' /\ \A j \in Rows : Signup!HasTenant(j) => Signup!HasTenant(j)'
      BY <1>n, <2>1, <2>3, <3>8 DEF Signup!HasTenant
    <3>10. \A j \in Rows \ {i} : JobSound(j)'
      BY <2>3, <3>4, <3>5, <3>9 DEF SignupInv, JobSound
    <3>11. JobSound(i)'
      BY <2>1, <3>1, <3>3, <3>4, <3>5, <3>9 DEF JobSound
    <3>12. DOMAIN s11' = Slugs /\ DOMAIN s12' = Emails
      BY <1>t, <2>3 DEF SignupTyped
    <3> QED
      BY <1>u, <3>4, <3>5, <3>7, <3>10, <3>11, <3>12, ServerGoes
  <2> QED
    BY <1>2, <2>2, <2>3 DEF Signup!Insert, Signup!None
<1>3. CASE Signup!CreateAdmin(i)
  <2> DEFINE e == s9[i].email
             k == [s10[i] EXCEPT !.at = "finish"]
  <2>1. s10[i].at = "admin" /\ s10[i].slug \in Slugs /\ s9[i].status = "provisioning" /\ Signup!HasTenant(i)
    BY <1>3, <1>t DEF Signup!CreateAdmin, JobSound
  <2>2. CASE Signup!FailJob(i, "email")
    BY <1>u, <2>1, <2>2, FailStep
  <2>3. CASE /\ s12[e] = 0 /\ s12' = [s12 EXCEPT ![e] = i] /\ s10' = [s10 EXCEPT ![i].at = "finish"]
             /\ UNCHANGED <<s9, s11>>
    <3>1. s10' = [s10 EXCEPT ![i] = k]
      BY <1>t, <2>3 DEF SignupTyped
    <3>2. /\ k \in [at : {"idle", "claim", "insert", "admin", "finish"}, slug : Slugs \cup {"none"}]
          /\ k.at = "finish" /\ k.slug = s10[i].slug
      BY <1>t
    <3> HIDE DEF k
    <3>3. /\ s10' \in [Rows -> [at : {"idle", "claim", "insert", "admin", "finish"}, slug : Slugs \cup {"none"}]]
          /\ s10'[i] = k /\ \A j \in Rows \ {i} : s10'[j] = s10[j]
      BY <1>t, <3>1, <3>2 DEF SignupTyped
    <3>4. e \in Emails
      BY <1>t, <2>1 DEF Sound
    <3>5. s12'[e] = i /\ \A f \in Emails \ {e} : s12'[f] = s12[f]
      BY <1>t, <2>3, <3>4 DEF SignupTyped
    <3>6. \A j \in Rows : Signup!HasTenant(j)' <=> Signup!HasTenant(j)
      BY <2>3 DEF Signup!HasTenant
    <3>7. ASSUME NEW j \in Rows, j # i PROVE JobSound(j)'
      <4>1. JobSound(j) /\ Sound(s9[j]) /\ s10'[j] = s10[j] /\ j # 0
        BY <1>n, <3>3, <3>7 DEF SignupInv
      <4>2. s10[j].at = "finish" \/ s9[j].status = "completed" => s9[j].email \in Emails
        BY <4>1 DEF JobSound, Sound
      <4>3. s10[j].at = "finish" \/ s9[j].status = "completed" => s12'[s9[j].email] = j
        BY <2>3, <3>5, <4>1, <4>2 DEF JobSound
      <4> QED
        BY <2>3, <3>6, <4>1, <4>3 DEF JobSound
    <3>8. JobSound(i)'
      BY <2>1, <2>3, <3>2, <3>3, <3>5, <3>6 DEF JobSound
    <3>9. DOMAIN s11' = Slugs /\ DOMAIN s12' = Emails /\ s9' \in [Rows -> Signup!Row]
      BY <1>t, <2>3 DEF SignupTyped
    <3> QED
      BY <1>u, <1>g, <2>3, <3>3, <3>7, <3>8, <3>9, ServerGoes
  <2> QED
    BY <1>3, <2>2, <2>3 DEF Signup!CreateAdmin, Signup!None
<1>4. CASE Signup!FinishJob(i)
  <2> DEFINE x == [s9[i] EXCEPT !.status = "completed"]
             r == [x EXCEPT !.reached = 6]
  <2>1. /\ s10[i].at = "finish" /\ s9[i].status = "provisioning" /\ Signup!HasTenant(i)
        /\ s12[s9[i].email] = i
    BY <1>4, <1>t DEF Signup!FinishJob, JobSound
  <2>2. /\ s10' = [s10 EXCEPT ![i] = Signup!Idle] /\ UNCHANGED <<s11, s12>>
        /\ s9' = [s9 EXCEPT ![i] = r]
    BY <1>4, <1>t DEF Signup!FinishJob, SignupTyped
  <2>3. /\ r \in Signup!Row /\ r.status = "completed" /\ r.email = s9[i].email /\ r.reached = 6
        /\ r.verified = s9[i].verified /\ r.slug = s9[i].slug
    <3>1. /\ x \in Signup!Row /\ x.status = "completed" /\ x.email = s9[i].email
          /\ x.verified = s9[i].verified /\ x.slug = s9[i].slug
      BY <1>t DEF Signup!Row, Signup!Statuses
    <3>2. 6 \in 0 .. 6
      OBVIOUS
    <3> HIDE DEF x
    <3> QED
      BY <3>1, <3>2 DEF Signup!Row
  <2> HIDE DEF r
  <2>4. s9' \in [Rows -> Signup!Row] /\ s9'[i] = r /\ \A j \in Rows \ {i} : s9'[j] = s9[j]
    BY <1>t, <2>2, <2>3 DEF SignupTyped
  <2>5. /\ s10' \in [Rows -> [at : {"idle", "claim", "insert", "admin", "finish"}, slug : Slugs \cup {"none"}]]
        /\ s10'[i].at = "idle" /\ \A j \in Rows \ {i} : s10'[j] = s10[j]
    BY <1>t, <2>2 DEF SignupTyped, Signup!Idle
  <2>6. s9[i].verified /\ s9[i].slug # "none" /\ s9[i].email \in Emails
    BY <1>t, <2>1 DEF Sound, Landed, Signup!Row
  <2>7. \A j \in Rows : Grown(s9[j], s9'[j]) /\ Sound(s9[j])'
    <3>1. \A j \in Rows \ {i} : Grown(s9[j], s9'[j]) /\ Sound(s9[j])'
      BY <2>4 DEF SignupInv, Grown, Sound
    <3>2. r.verified
      BY <2>3, <2>6
    <3>3. Grown(s9[i], r)
      BY <2>3, <2>6, <3>2 DEF Grown, Landed
    <3>4. Sound(r)
      BY <2>3, <2>6, <3>2 DEF Sound, Landed
    <3>5. Grown(s9[i], s9'[i]) /\ Sound(s9[i])'
      BY <2>4, <3>3, <3>4 DEF Sound
    <3> QED
      BY <3>1, <3>5
  <2>8. \A j \in Rows : Signup!HasTenant(j)' <=> Signup!HasTenant(j)
    BY <2>2 DEF Signup!HasTenant
  <2>9. \A j \in Rows \ {i} : JobSound(j)'
    BY <2>2, <2>4, <2>5, <2>8 DEF SignupInv, JobSound
  <2>10. JobSound(i)'
    BY <2>1, <2>2, <2>3, <2>4, <2>5, <2>8 DEF JobSound
  <2> QED
    BY <1>t, <1>u, <2>2, <2>4, <2>5, <2>7, <2>9, <2>10, ServerGoes DEF SignupTyped
<1> QED
  BY <1>1, <1>2, <1>3, <1>4 DEF Signup!JobStep

\* Time, the other ways to become a user, and a crash.
LEMMA ServerStep ==
    ASSUME SignupInv,
           \/ Signup!Crash
           \/ \E e \in Emails : Signup!RegisterElsewhere(e)
           \/ \E i \in Rows : Signup!Expire(i) \/ Signup!JobStep(i)
    PROVE  SignupInv'
<1>t. SignupTyped
  BY DEF SignupInv
<1>n. 0 \notin Rows
  BY RowsCount
<1>g. s9' = s9 => \A j \in Rows : Grown(s9[j], s9'[j]) /\ Sound(s9[j])'
  BY DEF SignupInv, Grown, Sound
<1>1. CASE Signup!Crash
  <2>1. s10' = [j \in Rows |-> Signup!Idle] /\ UNCHANGED <<s1, s2, s3, s4, s5, s6, s9, s11, s12>>
    BY <1>1 DEF Signup!Crash, Signup!wizard, Signup!Signups, Rows
  <2>2. s10' \in [Rows -> [at : {"idle", "claim", "insert", "admin", "finish"}, slug : Slugs \cup {"none"}]]
    BY <2>1 DEF Signup!Idle
  <2>3. \A j \in Rows : JobSound(j)'
    <3>1. \A j \in Rows : Signup!HasTenant(j)' <=> Signup!HasTenant(j)
      BY <2>1 DEF Signup!HasTenant
    <3> QED
      BY <2>1, <3>1 DEF SignupInv, JobSound, Signup!Idle
  <2> QED
    BY <1>t, <1>g, <2>1, <2>2, <2>3, ServerGoes DEF SignupTyped
<1>2. ASSUME NEW e \in Emails, Signup!RegisterElsewhere(e) PROVE SignupInv'
  <2>1. /\ s12[e] = 0 /\ s12' = [s12 EXCEPT ![e] = Signup!Other]
        /\ UNCHANGED <<s1, s2, s3, s4, s5, s6, s9, s10, s11>>
    BY <1>2 DEF Signup!RegisterElsewhere, Signup!wizard, Signup!None
  <2>2. DOMAIN s12' = Emails /\ \A f \in Emails \ {e} : s12'[f] = s12[f]
    BY <1>t, <2>1 DEF SignupTyped
  <2>3. ASSUME NEW j \in Rows PROVE JobSound(j)'
    <3>1. JobSound(j) /\ Sound(s9[j]) /\ j # 0
      BY <1>n DEF SignupInv
    <3>2. s10[j].at = "finish" \/ s9[j].status = "completed" => s9[j].email \in Emails
      BY <3>1 DEF JobSound, Sound
    <3>3. s10[j].at = "finish" \/ s9[j].status = "completed" => s12'[s9[j].email] = j
      BY <2>1, <2>2, <3>1, <3>2 DEF JobSound
    <3>4. Signup!HasTenant(j)' <=> Signup!HasTenant(j)
      BY <2>1 DEF Signup!HasTenant
    <3> QED
      BY <2>1, <3>1, <3>3, <3>4 DEF JobSound
  <2> QED
    BY <1>t, <1>g, <2>1, <2>2, <2>3, ServerGoes DEF SignupTyped
<1>3. ASSUME NEW i \in Rows, Signup!Expire(i) PROVE SignupInv'
  <2> DEFINE r == [s9[i] EXCEPT !.expired = TRUE]
  <2>1. s9[i] \in Signup!Row /\ Sound(s9[i])
    BY <1>t DEF SignupInv, SignupTyped
  <2>2. s9' = [s9 EXCEPT ![i] = r] /\ UNCHANGED <<s1, s2, s3, s4, s5, s6, s10, s11, s12>>
    BY <1>3, <1>t DEF Signup!Expire, Signup!wizard, SignupTyped
  <2>3. /\ r \in Signup!Row /\ r.status = s9[i].status /\ r.email = s9[i].email /\ r.reached = s9[i].reached
        /\ r.verified = s9[i].verified /\ r.slug = s9[i].slug
    BY <2>1 DEF Signup!Row
  <2> HIDE DEF r
  <2>4. s9' \in [Rows -> Signup!Row] /\ s9'[i] = r /\ \A j \in Rows \ {i} : s9'[j] = s9[j]
    BY <1>t, <2>2, <2>3 DEF SignupTyped
  <2>5. \A j \in Rows : Grown(s9[j], s9'[j]) /\ Sound(s9[j])'
    <3>1. \A j \in Rows \ {i} : Grown(s9[j], s9'[j]) /\ Sound(s9[j])'
      BY <2>4 DEF SignupInv, Grown, Sound
    <3>2. Grown(s9[i], s9'[i]) /\ Sound(s9[i])'
      BY <2>1, <2>3, <2>4 DEF Grown, Sound, Landed
    <3> QED
      BY <3>1, <3>2
  <2>6. \A j \in Rows : s9'[j].status = s9[j].status /\ s9'[j].email = s9[j].email
    BY <2>3, <2>4
  <2>7. \A j \in Rows : JobSound(j)'
    <3>1. \A j \in Rows : Signup!HasTenant(j)' <=> Signup!HasTenant(j)
      BY <2>2 DEF Signup!HasTenant
    <3> QED
      BY <2>2, <2>6, <3>1 DEF SignupInv, JobSound
  <2> QED
    BY <1>t, <2>2, <2>4, <2>5, <2>7, ServerGoes DEF SignupTyped
<1> QED
  BY <1>1, <1>2, <1>3, JobWorks

LEMMA SignupStep == SignupInv /\ [Signup!Next]_(Signup!vars) => SignupInv'
<1> SUFFICES ASSUME SignupInv, [Signup!Next]_(Signup!vars) PROVE SignupInv'
  OBVIOUS
<1>1. CASE UNCHANGED Signup!vars
  <2>1. UNCHANGED <<s1, s2, s3, s4, s5, s6, s9, s10, s11, s12>>
    BY <1>1 DEF Signup!vars, Signup!wizard, Signup!server
  <2>2. \A j \in Rows : Grown(s9[j], s9'[j]) /\ Sound(s9[j])' /\ JobSound(j)'
    BY <2>1 DEF SignupInv, Grown, Sound, JobSound, Signup!HasTenant
  <2> QED
    BY <2>1, <2>2, ServerGoes DEF SignupInv, SignupTyped
<1>2. CASE \/ Signup!Crash
           \/ \E e \in Emails : Signup!RegisterElsewhere(e)
           \/ \E i \in Rows : Signup!Expire(i) \/ Signup!JobStep(i)
  BY <1>2, ServerStep
<1>3. ASSUME NEW p \in Persons,
             \/ \E e \in Emails : Signup!TypeEmail(p, e)
             \/ Signup!Submit(p) \/ Signup!GoBack(p) \/ Signup!ChangeNumber(p) \/ Signup!Answered(p)
             \/ Signup!Lost(p) \/ Signup!Reload(p) \/ Signup!Restored(p) \/ Signup!NotRestored(p)
             \/ Signup!Poll(p) \/ Signup!Finish(p)
      PROVE  SignupInv'
  BY <1>3, PersonStep
<1>4. ASSUME NEW p \in Persons,
             \/ Signup!Start(p) \/ Signup!Retarget(p) \/ Signup!Verify(p) \/ Signup!Profile(p)
             \/ Signup!Complete(p) \/ \E s \in Slugs : Signup!Account(p, s)
      PROVE  SignupInv'
  BY <1>4, RequestStep
<1> QED
  BY <1>1, <1>2, <1>3, <1>4 DEF Signup!Next, Signup!Signups, Rows

\* So the wizard is never ahead of its row, nor a row of its job.
LEMMA SignupSafe == SignupInv => Signup!CompletedIsUsable /\ Signup!StepNeverAhead
BY DEF SignupInv, JobSound, WizardSound, Supports, Landed, Rows, Signup!CompletedIsUsable,
   Signup!StepNeverAhead, Signup!Own, Signup!None, Signup!Signups

\* The import of a run, open on one page.  s1 is the run's status, s2 its candidates', s3 those
\* with a customer, s4 the clients made, s6 the count; s7 are the threads, s9 what each
\* page does and s11 its banner.
OneDesk == \A p, q \in Consoles : p = q

\* A thread runs only while the run is importing, and alone; what it has left is not made.
ThreadSound(w) ==
    /\ s7[w].at # "off" => s1 = "importing" /\ \A v \in Workers : s7[v].at # "off" => v = w
    /\ s7[w].at = "working" => s7[w].left \cap s4 = {}

\* A page that will change the run knows it to be at rest; one that polls has no banner yet.
PageSound(p) ==
    /\ s9[p] \in {"committing", "reverting"} => s1 # "importing"
    /\ s9[p] = "polling" => s1 \in {"importing", "completed", "failed"} /\ s11[p] = Import!NoResult
    /\ s11[p] # Import!NoResult => s1 = "completed" /\ s11[p] = s6

ImportInv ==
    /\ DOMAIN s2 = Candidates /\ DOMAIN s9 = Consoles /\ DOMAIN s11 = Consoles
    /\ DOMAIN s7 = Workers /\ \A w \in Workers : DOMAIN s7[w] = {"at", "left", "made"}
    /\ s3 = s4 /\ s4 \subseteq Candidates
    /\ \A c \in Candidates : s2[c] = "created" <=> c \in s4
    /\ \A w \in Workers : ThreadSound(w)
    /\ \A p \in Consoles : PageSound(p)

LEMMA ImportBegin == Import!Init => ImportInv
BY DEF Import!Init, ImportInv, ThreadSound, PageSound, Import!Off

\* What a page does, and what is done for it.
LEMMA DeskStep ==
    ASSUME OneDesk, ImportInv, NEW p \in Consoles,
           \/ Import!Loaded(p) \/ Import!LoadFails(p) \/ Import!Reopen(p) \/ Import!Import(p)
           \/ Import!Revert(p) \/ Import!Refused(p) \/ (\E w \in Workers : Import!Start(p, w))
           \/ Import!DoRevert(p) \/ Import!RevertFails(p) \/ Import!PollAgain(p) \/ Import!GiveUp(p)
           \/ Import!LostContact(p) \/ Import!Settled(p) \/ Import!RunFailed(p)
    PROVE  ImportInv'
<1> USE DEF Import!Moves, Import!server
<1>p. PageSound(p) /\ \A q \in Consoles : q = p
  BY DEF ImportInv, OneDesk
<1>0. ASSUME UNCHANGED <<s1, s2, s3, s4, s6, s7>>, DOMAIN s9' = Consoles, DOMAIN s11' = Consoles, PageSound(p)'
      PROVE  ImportInv'
  BY <1>p, <1>0 DEF ImportInv, ThreadSound
<1>1. CASE Import!Loaded(p) \/ Import!LoadFails(p) \/ Import!Refused(p) \/ Import!RevertFails(p)
           \/ Import!GiveUp(p) \/ Import!LostContact(p) \/ Import!RunFailed(p)
  <2>1. /\ UNCHANGED <<s1, s2, s3, s4, s6, s7, s11>> /\ DOMAIN s9' = Consoles /\ s9'[p] \in {"ready", "loading"}
    BY <1>1 DEF ImportInv, Import!Loaded, Import!LoadFails, Import!Refused, Import!RevertFails,
       Import!GiveUp, Import!LostContact, Import!RunFailed
  <2>2. PageSound(p)'
    BY <1>p, <2>1 DEF PageSound
  <2> QED
    BY <1>0, <2>1, <2>2 DEF ImportInv
<1>2. CASE Import!Reopen(p)
  <2>1. /\ UNCHANGED <<s1, s2, s3, s4, s6, s7>> /\ DOMAIN s9' = Consoles /\ DOMAIN s11' = Consoles
        /\ s9'[p] = "loading" /\ s11'[p] = Import!NoResult
    BY <1>2 DEF ImportInv, Import!Reopen
  <2> QED
    BY <1>0, <2>1 DEF PageSound
<1>3. CASE Import!Import(p) \/ Import!Revert(p)
  <2>1. /\ UNCHANGED <<s1, s2, s3, s4, s6, s7, s11>> /\ DOMAIN s9' = Consoles
        /\ s9'[p] \in {"committing", "reverting"} /\ s1 # "importing"
    BY <1>3 DEF ImportInv, Import!Import, Import!Revert
  <2>2. PageSound(p)'
    BY <1>p, <2>1 DEF PageSound
  <2> QED
    BY <1>0, <2>1, <2>2 DEF ImportInv
<1>4. CASE Import!PollAgain(p)
  <2>1. UNCHANGED <<s1, s2, s3, s4, s6, s7, s9, s11>>
    BY <1>4 DEF Import!PollAgain
  <2> QED
    BY <1>0, <1>p, <2>1 DEF ImportInv, PageSound
<1>5. CASE Import!Settled(p)
  <2>1. /\ UNCHANGED <<s1, s2, s3, s4, s6, s7>> /\ DOMAIN s9' = Consoles /\ DOMAIN s11' = Consoles
        /\ s9[p] = "polling" /\ s9'[p] = "loading" /\ s11'[p] = s6 /\ s1 \notin {"importing", "failed"}
    BY <1>5 DEF ImportInv, Import!Settled, Import!Settles
  <2>2. s1 = "completed"
    BY <1>p, <2>1 DEF PageSound
  <2> QED
    BY <1>0, <2>1, <2>2 DEF PageSound
\* No thread is left when a page starts one.
<1>6. ASSUME NEW w \in Workers, Import!Start(p, w) PROVE ImportInv'
  <2>1. /\ s9[p] = "committing" /\ s1 # "completed" /\ s1' = "importing"
        /\ s7' = [s7 EXCEPT ![w].at = "started"] /\ UNCHANGED <<s2, s3, s4, s6, s11>>
        /\ DOMAIN s9' = Consoles /\ s9'[p] = "polling"
    BY <1>6 DEF ImportInv, Import!Start
  <2>2. \A v \in Workers : s7[v].at = "off"
    BY <1>p, <2>1 DEF ImportInv, PageSound, ThreadSound
  <2>3. /\ DOMAIN s7' = Workers /\ \A v \in Workers : DOMAIN s7'[v] = {"at", "left", "made"}
        /\ s7'[w].at = "started" /\ \A v \in Workers \ {w} : s7'[v] = s7[v]
    BY <2>1 DEF ImportInv
  <2>4. \A v \in Workers : ThreadSound(v)'
    BY <2>1, <2>2, <2>3 DEF ThreadSound
  <2>5. s11[p] = Import!NoResult
    BY <1>p, <2>1 DEF PageSound
  <2>6. PageSound(p)'
    BY <2>1, <2>5 DEF PageSound
  <2> QED
    BY <1>p, <2>1, <2>3, <2>4, <2>6 DEF ImportInv
<1>7. CASE Import!DoRevert(p)
  <2>1. /\ s9[p] = "reverting" /\ s1' = "reverted" /\ s2' = Import!Fresh /\ s4' = s4 \ Import!Go
        /\ s3' = s3 \ Import!Go /\ UNCHANGED <<s6, s7>>
        /\ DOMAIN s9' = Consoles /\ DOMAIN s11' = Consoles /\ s9'[p] = "loading" /\ s11'[p] = Import!NoResult
    BY <1>7 DEF ImportInv, Import!DoRevert
  <2>2. \A v \in Workers : s7[v].at = "off"
    BY <1>p, <2>1 DEF ImportInv, PageSound, ThreadSound
  <2>3. \A v \in Workers : ThreadSound(v)'
    BY <2>1, <2>2 DEF ThreadSound
  <2>4. PageSound(p)'
    BY <2>1 DEF PageSound
  <2>5. DOMAIN s2' = Candidates /\ \A c \in Candidates : s2'[c] = "created" <=> c \in s4'
    BY <2>1 DEF ImportInv, Import!Fresh
  <2> QED
    BY <1>p, <2>1, <2>3, <2>4, <2>5 DEF ImportInv
<1> QED
  BY <1>1, <1>2, <1>3, <1>4, <1>5, <1>6, <1>7

\* What a thread does, the payments, and what ends it.
LEMMA ThreadStep ==
    ASSUME OneDesk, ImportInv,
           \/ \E w \in Workers : Import!Choose(w) \/ Import!Finish(w) \/ Import!Crash(w)
           \/ \E w \in Workers, c \in Candidates, ok \in BOOLEAN : Import!Batch(w, c, ok)
           \/ \E c \in Candidates : Import!Pay(c)
           \/ UNCHANGED Import!vars \/ DownImport!Restart
    PROVE  ImportInv'
<1> USE DEF Import!page
<1>1. ASSUME NEW w \in Workers, Import!Choose(w) PROVE ImportInv'
  <2> DEFINE x == [at |-> "working", made |-> 0, left |-> {c \in Candidates : s2[c] \in {"new", "error"}}]
  <2>1. s7[w].at = "started" /\ s1' = "importing" /\ s7' = [s7 EXCEPT ![w] = x]
        /\ UNCHANGED <<s2, s3, s4, s6, s9, s11>>
    BY <1>1 DEF Import!Choose
  <2>2. s1 = "importing" /\ \A v \in Workers : s7[v].at # "off" => v = w
    BY <2>1 DEF ImportInv, ThreadSound
  <2>3. /\ DOMAIN x = {"at", "left", "made"} /\ x.at = "working" /\ x.left \cap s4 = {}
    BY DEF ImportInv
  <2> HIDE DEF x
  <2>4. DOMAIN s7' = Workers /\ s7'[w] = x /\ \A v \in Workers \ {w} : s7'[v] = s7[v]
    BY <2>1 DEF ImportInv
  <2>5. \A v \in Workers : ThreadSound(v)'
    BY <2>1, <2>2, <2>3, <2>4 DEF ThreadSound, ImportInv
  <2>6. \A p \in Consoles : PageSound(p)'
    BY <2>1, <2>2 DEF ImportInv, PageSound
  <2> QED
    BY <2>1, <2>3, <2>4, <2>5, <2>6 DEF ImportInv
<1>2. ASSUME NEW w \in Workers, NEW status \in {"completed", "failed"}, s7[w].at # "off",
             s1' = status, s7' = [s7 EXCEPT ![w] = Import!Off], UNCHANGED <<s2, s3, s4, s6, s9, s11>>
      PROVE  ImportInv'
  <2>1. s1 = "importing" /\ \A v \in Workers : s7[v].at # "off" => v = w
    BY <1>2 DEF ImportInv, ThreadSound
  <2>2. /\ DOMAIN s7' = Workers /\ s7'[w] = Import!Off /\ \A v \in Workers \ {w} : s7'[v] = s7[v]
    BY <1>2 DEF ImportInv
  <2>3. Import!Off.at = "off" /\ DOMAIN Import!Off = {"at", "left", "made"}
    BY DEF Import!Off
  <2>4. \A v \in Workers : s7'[v].at = "off"
    BY <2>1, <2>2, <2>3
  <2>5. \A v \in Workers : ThreadSound(v)'
    BY <2>4 DEF ThreadSound
  <2>6. \A p \in Consoles : PageSound(p)'
    BY <1>2, <2>1 DEF ImportInv, PageSound
  <2> QED
    BY <1>2, <2>2, <2>3, <2>5, <2>6 DEF ImportInv
<1>3. ASSUME NEW w \in Workers, Import!Finish(w) \/ Import!Crash(w) PROVE ImportInv'
  <2>1. \/ s1' = "completed"
        \/ s1' = "failed"
    BY <1>3 DEF Import!Finish, Import!Crash
  <2>2. s7[w].at # "off" /\ s7' = [s7 EXCEPT ![w] = Import!Off] /\ UNCHANGED <<s2, s3, s4, s6, s9, s11>>
    BY <1>3 DEF Import!Finish, Import!Crash
  <2> QED
    BY <1>2, <2>1, <2>2
\* A login in use is one this run has not made: those it has made are not left.
<1>4. ASSUME NEW w \in Workers, NEW c \in Candidates, NEW ok \in BOOLEAN, Import!Batch(w, c, ok)
      PROVE  ImportInv'
  <2> DEFINE fresh == ok /\ c \notin s4
  <2>1. PICK made : /\ s7[w].at = "working" /\ c \in s7[w].left
                    /\ s4' = IF fresh THEN s4 \cup {c} ELSE s4
                    /\ s3' = IF fresh THEN s3 \cup {c} ELSE s3
                    /\ s2' = [s2 EXCEPT ![c] = IF fresh THEN "created" ELSE "error"]
                    /\ s7' = [s7 EXCEPT ![w].left = @ \ {c}, ![w].made = made]
                    /\ UNCHANGED <<s1, s9, s11>>
    BY <1>4 DEF Import!Batch
  <2>2. s1 = "importing" /\ (\A v \in Workers : s7[v].at # "off" => v = w) /\ s7[w].left \cap s4 = {}
    BY <2>1 DEF ImportInv, ThreadSound
  <2>3. /\ DOMAIN s7' = Workers /\ \A v \in Workers : DOMAIN s7'[v] = {"at", "left", "made"}
        /\ s7'[w].at = "working" /\ s7'[w].left = s7[w].left \ {c} /\ \A v \in Workers \ {w} : s7'[v] = s7[v]
    BY <2>1 DEF ImportInv
  <2>4. \A v \in Workers : ThreadSound(v)'
    BY <2>1, <2>2, <2>3 DEF ThreadSound
  <2>5. \A p \in Consoles : PageSound(p)'
    BY <2>1, <2>2 DEF ImportInv, PageSound
  <2>6. DOMAIN s2' = Candidates /\ \A d \in Candidates : s2'[d] = "created" <=> d \in s4'
    BY <2>1, <2>2 DEF ImportInv
  <2> QED
    BY <2>1, <2>3, <2>4, <2>5, <2>6 DEF ImportInv
<1>5. ASSUME UNCHANGED <<s1, s2, s3, s4, s6, s7, s9, s11>> PROVE ImportInv'
  BY <1>5 DEF ImportInv, ThreadSound, PageSound
<1>6. CASE (\E c \in Candidates : Import!Pay(c)) \/ UNCHANGED Import!vars
  BY <1>5, <1>6 DEF Import!Pay, Import!vars
<1>7. CASE DownImport!Restart
  <2>1. s7' = [w \in Workers |-> Import!Off] /\ UNCHANGED <<s1, s2, s3, s4, s6, s9, s11>>
    BY <1>7 DEF DownImport!Restart, DownImport!Off, DownImport!page, Import!Off
  <2>2. /\ DOMAIN s7' = Workers
        /\ \A w \in Workers : s7'[w].at = "off" /\ DOMAIN s7'[w] = {"at", "left", "made"}
    BY <2>1 DEF Import!Off
  <2>3. \A w \in Workers : ThreadSound(w)'
    BY <2>2 DEF ThreadSound
  <2>4. \A p \in Consoles : PageSound(p)'
    BY <2>1 DEF ImportInv, PageSound
  <2> QED
    BY <2>1, <2>2, <2>3, <2>4 DEF ImportInv
<1> QED
  BY <1>1, <1>3, <1>4, <1>6, <1>7

LEMMA SameBanner == DownImport!NoResult = Import!NoResult
BY DEF Import!NoResult, DownImport!NoResult, Import!Cardinality, DownImport!Cardinality

LEMMA ImportedStep == OneDesk /\ ImportInv /\ [Import!Next]_(Import!vars) => ImportInv'
<1> SUFFICES ASSUME OneDesk, ImportInv, [Import!Next]_(Import!vars) PROVE ImportInv'
  OBVIOUS
<1>1. ~Import!Restart
  BY DEF Import!Restart
<1> QED
  BY <1>1, DeskStep, ThreadStep DEF Import!Next

\* A server that is restarted differs in that alone.
LEMMA DownImportedStep == OneDesk /\ ImportInv /\ [DownImport!Next]_(DownImport!vars) => ImportInv'
<1> SUFFICES ASSUME OneDesk, ImportInv, [DownImport!Next]_(DownImport!vars) PROVE ImportInv'
  OBVIOUS
<1> USE DEF Import!Moves, DownImport!Moves, Import!server, DownImport!server, Import!page, DownImport!page,
            Import!Off, DownImport!Off
<1> USE SameBanner
<1>1. ASSUME NEW p \in Consoles
      PROVE  /\ DownImport!Loaded(p) => Import!Loaded(p)
             /\ DownImport!LoadFails(p) => Import!LoadFails(p)
             /\ DownImport!Reopen(p) => Import!Reopen(p)
             /\ DownImport!Import(p) => Import!Import(p)
             /\ DownImport!Revert(p) => Import!Revert(p)
             /\ DownImport!Refused(p) => Import!Refused(p)
             /\ DownImport!RevertFails(p) => Import!RevertFails(p)
             /\ DownImport!PollAgain(p) => Import!PollAgain(p)
             /\ DownImport!GiveUp(p) => Import!GiveUp(p)
             /\ DownImport!LostContact(p) => Import!LostContact(p)
             /\ DownImport!Settled(p) => Import!Settled(p)
             /\ DownImport!RunFailed(p) => Import!RunFailed(p)
  BY DEF DownImport!Loaded, Import!Loaded, DownImport!LoadFails, Import!LoadFails,
     DownImport!Reopen, Import!Reopen, DownImport!Import, Import!Import, DownImport!Revert,
     Import!Revert, DownImport!Refused, Import!Refused, DownImport!RevertFails, Import!RevertFails,
     DownImport!PollAgain, Import!PollAgain, DownImport!GiveUp, Import!GiveUp,
     DownImport!LostContact, Import!LostContact, DownImport!Settled, Import!Settled,
     DownImport!Settles, Import!Settles, DownImport!RunFailed, Import!RunFailed
<1>2. ASSUME NEW p \in Consoles, NEW w \in Workers, DownImport!Start(p, w) PROVE Import!Start(p, w)
  BY <1>2 DEF DownImport!Start, Import!Start
<1>3. ASSUME NEW p \in Consoles, DownImport!DoRevert(p) PROVE Import!DoRevert(p)
  BY <1>3 DEF DownImport!DoRevert, Import!DoRevert, DownImport!Go, Import!Go, DownImport!Fresh, Import!Fresh
<1>4. ASSUME NEW w \in Workers
      PROVE  /\ DownImport!Choose(w) => Import!Choose(w)
             /\ DownImport!Finish(w) => Import!Finish(w)
             /\ DownImport!Crash(w) => Import!Crash(w)
  BY DEF DownImport!Choose, Import!Choose, DownImport!Finish, Import!Finish, DownImport!Crash, Import!Crash
<1>5. ASSUME NEW w \in Workers, NEW c \in Candidates, NEW ok \in BOOLEAN, DownImport!Batch(w, c, ok)
      PROVE  Import!Batch(w, c, ok)
  BY <1>5 DEF DownImport!Batch, Import!Batch
<1>6. ASSUME NEW c \in Candidates, DownImport!Pay(c) PROVE Import!Pay(c)
  BY <1>6 DEF DownImport!Pay, Import!Pay
<1>7. UNCHANGED DownImport!vars => UNCHANGED Import!vars
  BY DEF DownImport!vars, Import!vars
<1> QED
  BY <1>1, <1>2, <1>3, <1>4, <1>5, <1>6, <1>7, DeskStep, ThreadStep DEF DownImport!Next

LEMMA ImportSafe ==
    ImportInv => /\ Import!ResultIsTrue /\ Import!MarkedIsReal
                 /\ DownImport!ResultIsTrue /\ DownImport!MarkedIsReal
BY SameBanner DEF ImportInv, PageSound, Import!ResultIsTrue, Import!MarkedIsReal, DownImport!ResultIsTrue,
   DownImport!MarkedIsReal

\* A scan whose uploads arrive.  s4 are the chunks of each run, s5 those its findings were read
\* from and s7 the upload its script is at: while the token counts, the chunks before are there.
WholeRun(r) ==
    /\ s7[r] \in 0 .. Chunks + 1 /\ s4[r] \subseteq 1 .. Chunks
    /\ s1[r] = Scan!Absent => s7[r] = 0
    /\ r \in s8 => 1 .. (s7[r] - 1) \subseteq s4[r]
    /\ s1[r].status = "scanned" => s5[r] = 1 .. Chunks

WholeInv ==
    /\ ScanInv
    /\ DOMAIN s4 = Runs /\ DOMAIN s5 = Runs /\ DOMAIN s7 = Runs
    /\ \A r \in Runs : WholeRun(r)

LEMMA ChunksCount == Chunks \in Nat \ {0} /\ "none" \notin Runs
BY WaitingAssumption DEF Scan!ScanAssumption

LEMMA WholeBegin == Scan!Init => WholeInv
<1> SUFFICES ASSUME Scan!Init PROVE WholeInv
  OBVIOUS
<1>1. ASSUME NEW r \in Runs PROVE WholeRun(r)
  <2>1. s1[r] = Scan!Absent /\ s4[r] = {} /\ s7[r] = 0 /\ s8 = {}
    BY DEF Scan!Init
  <2>2. s1[r].status # "scanned"
    BY <2>1 DEF Scan!Absent
  <2> QED
    BY <2>1, <2>2, ChunksCount DEF WholeRun
<1> QED
  BY <1>1, ScanBegin DEF Scan!Init, WholeInv

LEMMA WholeStep == WholeInv /\ [Scan!Next]_(Scan!vars) => WholeInv'
<1> SUFFICES ASSUME WholeInv, [Scan!Next]_(Scan!vars) PROVE WholeInv'
  OBVIOUS
<1> USE DEF Scan!agent, Scan!page, Scan!All
<1>i. ScanInv /\ ScanInv'
  BY ScanStep DEF WholeInv
<1>c. Chunks \in Nat \ {0}
  BY ChunksCount
\* The run r alone is touched, or none.
<1>1. ASSUME NEW r \in Runs, DOMAIN s4' = Runs, DOMAIN s5' = Runs, DOMAIN s7' = Runs, DOMAIN s1' = Runs,
             \A q \in Runs \ {r} : /\ s1'[q] = s1[q] /\ s4'[q] = s4[q] /\ s5'[q] = s5[q] /\ s7'[q] = s7[q]
                                   /\ q \in s8' => q \in s8,
             WholeRun(r)'
      PROVE  WholeInv'
  <2>1. \A q \in Runs \ {r} : WholeRun(q)'
    BY <1>1 DEF WholeInv, WholeRun
  <2> QED
    BY <1>i, <1>1, <2>1 DEF WholeInv
<1>2. ASSUME UNCHANGED <<s1, s4, s5, s7>>, s8' \subseteq s8 PROVE WholeInv'
  BY <1>i, <1>2 DEF WholeInv, WholeRun
\* A run that is not read becomes a scan, none of whose uploads is under way.
<1>3. ASSUME NEW r \in Runs, NEW x, s1[r] = Scan!Absent, s1' = [s1 EXCEPT ![r] = x], x.status = "scanning",
             UNCHANGED <<s4, s5, s7>>, s8' \subseteq s8 \cup {r}
      PROVE  WholeInv'
  <2>1. s7[r] = 0 /\ s4[r] \subseteq 1 .. Chunks
    BY <1>3 DEF WholeInv, WholeRun
  <2>2. s1'[r] = x /\ DOMAIN s1' = Runs /\ \A q \in Runs \ {r} : s1'[q] = s1[q]
    BY <1>3, <1>i DEF ScanInv
  <2>3. WholeRun(r)'
    BY <1>c, <1>3, <2>1, <2>2 DEF WholeRun
  <2> QED
    BY <1>1, <1>3, <2>2, <2>3 DEF WholeInv
<1>4. ASSUME NEW r \in Runs, Scan!ScanOverSsh(r) \/ Scan!AgentScript(r) PROVE WholeInv'
  <2>1. CASE Scan!ScanOverSsh(r)
    BY <1>3, <2>1 DEF Scan!ScanOverSsh, Scan!Created
  <2>2. CASE Scan!AgentScript(r)
    BY <1>3, <2>2 DEF Scan!AgentScript, Scan!Created
  <2> QED
    BY <1>4, <2>1, <2>2
<1>5. ASSUME NEW r \in Runs, Scan!ThreadFails(r) \/ Scan!ThreadEnds(r) \/ Scan!ScanExport(r) PROVE WholeInv'
  <2>1. /\ UNCHANGED <<s4, s7, s8>> /\ DOMAIN s5' = Runs /\ \A q \in Runs \ {r} : s5'[q] = s5[q]
        /\ \/ s1' = [s1 EXCEPT ![r].status = "failed"]
           \/ s1' = [s1 EXCEPT ![r].status = "scanned"] /\ s5'[r] = 1 .. Chunks
           \/ s1' = [s1 EXCEPT ![r] = [source |-> "export", status |-> "scanned"]] /\ s5'[r] = 1 .. Chunks
    BY <1>5 DEF WholeInv, Scan!ThreadFails, Scan!ThreadEnds, Scan!ScanExport, Scan!Persist
  <2>2. s1[r] # Scan!Absent \/ Scan!ScanExport(r)
    BY <1>5, <1>i DEF ScanInv, Scan!ThreadFails, Scan!ThreadEnds
  <2>3. DOMAIN s1' = Runs /\ \A q \in Runs \ {r} : s1'[q] = s1[q]
    BY <1>i, <2>1 DEF ScanInv
  <2>4. s1'[r].status = "failed" \/ (s1'[r].status = "scanned" /\ s5'[r] = 1 .. Chunks)
    <3>1. CASE s1[r] # Scan!Absent
      <4>1. DOMAIN s1[r] = {"source", "status"} /\ DOMAIN s1 = Runs
        BY <3>1, <1>i DEF ScanInv
      <4> QED
        BY <2>1, <4>1
    <3>2. CASE Scan!ScanExport(r)
      <4>1. s1' = [s1 EXCEPT ![r] = [source |-> "export", status |-> "scanned"]] /\ s5'[r] = 1 .. Chunks
        BY <3>2 DEF Scan!ScanExport, Scan!Persist, WholeInv
      <4> QED
        BY <1>i, <4>1 DEF ScanInv
    <3> QED
      BY <2>2, <3>1, <3>2
  <2>5. s1'[r] # Scan!Absent
    BY <2>4 DEF Scan!Absent
  <2>6. WholeRun(r)
    BY DEF WholeInv
  <2>7. WholeRun(r)'
    BY <2>1, <2>4, <2>5, <2>6 DEF WholeRun
  <2> QED
    BY <1>1, <2>1, <2>3, <2>7 DEF WholeInv
\* The script goes on.
<1>6. ASSUME NEW r \in Runs, Scan!Paste(r) PROVE WholeInv'
  <2>1. s1[r].source = "agent" /\ s7' = [s7 EXCEPT ![r] = 1] /\ UNCHANGED <<s1, s4, s5, s8>>
    BY <1>6 DEF Scan!Paste
  <2>2. s1[r] # Scan!Absent
    BY <2>1 DEF Scan!Absent
  <2>3. DOMAIN s7' = Runs /\ s7'[r] = 1 /\ \A q \in Runs \ {r} : s7'[q] = s7[q]
    BY <2>1 DEF WholeInv
  <2>4. WholeRun(r)
    BY DEF WholeInv
  <2>5. 1 .. (s7'[r] - 1) = {}
    BY <2>3
  <2>6. WholeRun(r)'
    BY <1>c, <2>1, <2>2, <2>3, <2>4, <2>5 DEF WholeRun
  <2> QED
    BY <1>1, <1>i, <2>1, <2>3, <2>6 DEF WholeInv, ScanInv
<1>7. ASSUME NEW r \in Runs, Scan!Onwards(r)
      PROVE  /\ DOMAIN s7' = Runs /\ s7'[r] = (IF s7[r] > Chunks THEN 0 ELSE s7[r] + 1)
             /\ s7'[r] \in 0 .. Chunks + 1 /\ s7[r] \in 0 .. Chunks + 1
             /\ \A q \in Runs \ {r} : s7'[q] = s7[q]
  <2>1. s7[r] \in 0 .. Chunks + 1
    BY DEF WholeInv, WholeRun
  <2>2. DOMAIN s7' = Runs /\ s7'[r] = (IF s7[r] > Chunks THEN 0 ELSE s7[r] + 1) /\ \A q \in Runs \ {r} : s7'[q] = s7[q]
    BY <1>7 DEF Scan!Onwards, WholeInv
  <2>3. (IF s7[r] > Chunks THEN 0 ELSE s7[r] + 1) \in 0 .. Chunks + 1
    BY <1>c, <2>1
  <2> QED
    BY <2>1, <2>2, <2>3
<1>8. ASSUME NEW r \in Runs, Scan!Upload(r) PROVE WholeInv'
  <2>1. /\ s7[r] \in 1 .. Chunks /\ s4' = [s4 EXCEPT ![r] = @ \cup {s7[r]}] /\ Scan!Onwards(r) /\ r \in s8
        /\ UNCHANGED <<s1, s5, s8>>
    BY <1>8 DEF Scan!Upload, Scan!Stored
  <2>2. WholeRun(r)
    BY DEF WholeInv
  <2>3. DOMAIN s4' = Runs /\ s4'[r] = s4[r] \cup {s7[r]} /\ \A q \in Runs \ {r} : s4'[q] = s4[q]
    BY <2>1 DEF WholeInv
  <2>4. s7'[r] = s7[r] + 1
    BY <1>c, <1>7, <2>1
  <2>5. s1[r] # Scan!Absent
    BY <1>i, <2>1 DEF ScanInv
  <2>6. 1 .. (s7'[r] - 1) \subseteq s4'[r]
    BY <1>c, <2>1, <2>2, <2>3, <2>4 DEF WholeRun
  <2>7. WholeRun(r)'
    BY <1>7, <2>1, <2>2, <2>3, <2>5, <2>6 DEF WholeRun
  <2> QED
    BY <1>1, <1>7, <1>i, <2>1, <2>3, <2>7 DEF WholeInv, ScanInv
<1>9. ASSUME NEW r \in Runs, Scan!UploadLost(r) PROVE WholeInv'
  <2>1. s7[r] # 0 /\ r \notin s8 /\ Scan!Onwards(r) /\ UNCHANGED <<s1, s4, s5, s8>>
    BY <1>9 DEF Scan!UploadLost
  <2>2. WholeRun(r) /\ s1[r] # Scan!Absent
    BY <2>1 DEF WholeInv, WholeRun
  <2>3. WholeRun(r)'
    BY <1>7, <2>1, <2>2 DEF WholeRun
  <2> QED
    BY <1>1, <1>7, <1>i, <2>1, <2>3 DEF WholeInv, ScanInv
\* At the last upload all chunks are there.
<1>10. ASSUME NEW r \in Runs, Scan!Done(r) PROVE WholeInv'
  <2>1. /\ s7[r] = Chunks + 1 /\ r \in s8 /\ Scan!Onwards(r) /\ s1' = [s1 EXCEPT ![r].status = "scanned"]
        /\ s8' = s8 \ {r} /\ s5' = [s5 EXCEPT ![r] = s4[r]] /\ s4' = s4
    BY <1>10 DEF Scan!Done, Scan!Persist
  <2>2. WholeRun(r)
    BY DEF WholeInv
  <2>3. s4[r] = 1 .. Chunks
    <3>1. s7[r] - 1 = Chunks
      BY <1>c, <2>1
    <3> QED
      BY <2>1, <2>2, <3>1 DEF WholeRun
  <2>4. DOMAIN s5' = Runs /\ s5'[r] = 1 .. Chunks /\ \A q \in Runs \ {r} : s5'[q] = s5[q]
    BY <2>1, <2>3 DEF WholeInv
  <2>5. DOMAIN s1' = Runs /\ \A q \in Runs \ {r} : s1'[q] = s1[q]
    BY <1>i, <2>1 DEF ScanInv
  <2>6. s7'[r] = 0
    BY <1>c, <1>7, <2>1
  <2>7. WholeRun(r)'
    BY <1>7, <2>1, <2>2, <2>4, <2>6 DEF WholeRun
  <2> QED
    BY <1>1, <1>7, <2>1, <2>4, <2>5, <2>7 DEF WholeInv
<1>11. ASSUME NEW r \in Runs, Scan!Import(r) PROVE WholeInv'
  <2>1. s9 = r /\ s1' = [s1 EXCEPT ![r].status = "completed"] /\ UNCHANGED <<s4, s5, s7, s8>>
    BY <1>11 DEF Scan!Import, Scan!Opened, Scan!Leads
  <2>2. s1[r] # Scan!Absent /\ DOMAIN s1[r] = {"source", "status"}
    BY <1>i, <2>1, ChunksCount DEF ScanInv
  <2>3. DOMAIN s1' = Runs /\ s1'[r].status = "completed" /\ \A q \in Runs \ {r} : s1'[q] = s1[q]
    BY <1>i, <2>1, <2>2 DEF ScanInv
  <2>4. s1'[r] # Scan!Absent
    BY <2>3 DEF Scan!Absent
  <2>5. WholeRun(r)'
    BY <2>1, <2>3, <2>4 DEF WholeInv, WholeRun
  <2> QED
    BY <1>1, <2>1, <2>3, <2>5 DEF WholeInv
<1>12. ASSUME NEW r \in Runs PROVE ~Scan!TokenExpires(r)
  BY DEF Scan!TokenExpires
<1>13. CASE Scan!PollAgain \/ Scan!Settled \/ Scan!PollEnds \/ Scan!LostContact \/ Scan!Restart \/ UNCHANGED Scan!vars
  BY <1>2, <1>13 DEF Scan!PollAgain, Scan!Settled, Scan!PollEnds, Scan!LostContact, Scan!Restart, Scan!vars
<1> QED
  BY <1>4, <1>5, <1>6, <1>8, <1>9, <1>10, <1>11, <1>12, <1>13 DEF Scan!Next

LEMMA WholeSafe == WholeInv => Scan!ScannedIsWhole
BY DEF WholeInv, WholeRun, Scan!ScannedIsWhole, Scan!All

\* A scan whose uploads may be lost.  s3 says whether the router gives its passwords away, s6 are
\* the runs that block and s12 those imported.  What the page shows is read by the server itself,
\* which misses nothing, and blocks as the router does.
Direct == {"ssh", "export"}
Good == {"scanned", "completed"}

SeenRun(r) ==
    /\ s1[r] # LossyScan!Absent => DOMAIN s1[r] = {"source", "status"}
    /\ r \in s2 => s1[r].source = "ssh" /\ s1[r].status = "scanning"
    /\ r \in s8 => s1[r].source = "agent"
    /\ s1[r].status \in Good /\ s1[r].source \in Direct => s5[r] = LossyScan!All /\ (~s3 => r \in s6)
    /\ r \in s6 => ~s3
    /\ r \in s12 => s3

SeenInv ==
    /\ DOMAIN s1 = Runs /\ DOMAIN s5 = Runs
    /\ \A r \in Runs : SeenRun(r)
    /\ s6 \subseteq Runs /\ s12 \subseteq Runs
    /\ s9 # "none" => s9 \in Runs /\ s1[s9].status \in Good /\ s1[s9].source \in Direct
    /\ s10 # "none" => s10 \in Runs /\ s1[s10].source = "ssh"
                       /\ s1[s10].status \in {"scanning", "scanned", "failed", "completed"}

LEMMA SeenBegin == LossyScan!Init => SeenInv
BY DEF LossyScan!Init, SeenInv, SeenRun, LossyScan!None, LossyScan!Absent, Good

LEMMA SeenStep == SeenInv /\ [LossyScan!Next]_(LossyScan!vars) => SeenInv'
<1> SUFFICES ASSUME SeenInv, [LossyScan!Next]_(LossyScan!vars) PROVE SeenInv'
  OBVIOUS
<1> USE DEF LossyScan!agent, LossyScan!page
<1>n. "none" \notin Runs
  BY ChunksCount
<1>a. LossyScan!Absent.status = "none" /\ LossyScan!Absent.source = "none"
  BY DEF LossyScan!Absent
\* The run r takes the state x.
<1>1. ASSUME NEW r \in Runs, NEW x, s1' = [s1 EXCEPT ![r] = x], DOMAIN x = {"source", "status"},
             x.status \in {"scanning", "scanned", "failed", "completed"}, s3' = s3,
             DOMAIN s5' = Runs, \A q \in Runs \ {r} : s5'[q] = s5[q],
             x.status \in Good /\ x.source \in Direct => s5'[r] = LossyScan!All /\ (~s3 => r \in s6'),
             s6' \subseteq s6 \cup {r}, s6 \subseteq s6' \cup {r}, r \in s6' => ~s3,
             s12' \subseteq s12 \cup {r}, r \in s12' => s3,
             s2' \subseteq s2 \cup {r}, s8' \subseteq s8 \cup {r},
             r \in s2' => x.source = "ssh" /\ x.status = "scanning",
             r \in s8' => x.source = "agent",
             s9' \in {s9, r, "none"}, s9' = r => x.status \in Good /\ x.source \in Direct,
             s10' \in {s10, r, "none"}, s10' = r => x.source = "ssh"
      PROVE  SeenInv'
  <2>1. DOMAIN s1' = Runs /\ s1'[r] = x /\ \A q \in Runs \ {r} : s1'[q] = s1[q]
    BY <1>1 DEF SeenInv
  <2>2. SeenRun(r)'
    BY <1>1, <2>1 DEF SeenRun
  <2>3. \A q \in Runs \ {r} : SeenRun(q)'
    BY <1>1, <2>1 DEF SeenInv, SeenRun
  <2>4. s9' # "none" => s9' \in Runs /\ s1'[s9'].status \in Good /\ s1'[s9'].source \in Direct
    BY <1>1, <1>n, <2>1 DEF SeenInv
  <2>5. s10' # "none" => s10' \in Runs /\ s1'[s10'].source = "ssh"
                         /\ s1'[s10'].status \in {"scanning", "scanned", "failed", "completed"}
    BY <1>1, <1>n, <2>1 DEF SeenInv
  <2> QED
    BY <1>1, <2>1, <2>2, <2>3, <2>4, <2>5 DEF SeenInv
<1>2. ASSUME UNCHANGED <<s1, s3, s5, s6, s12>>, s2' \subseteq s2, s8' \subseteq s8,
             s9' = s9 \/ (s10 # "none" /\ s9' = s10 /\ s1[s10].status \in Good),
             s10' \in {s10, "none"}
      PROVE  SeenInv'
  <2>1. \A r \in Runs : SeenRun(r)'
    BY <1>2 DEF SeenInv, SeenRun
  <2> QED
    BY <1>2, <2>1 DEF SeenInv, Direct
\* What persist_inventory leaves of the run r.
<1>3. ASSUME NEW r \in Runs, NEW chunks, LossyScan!Persist(r, chunks)
      PROVE  /\ DOMAIN s5' = Runs /\ s5'[r] = chunks /\ \A q \in Runs \ {r} : s5'[q] = s5[q]
             /\ s6' \subseteq s6 \cup {r} /\ s6 \subseteq s6' \cup {r} /\ (r \in s6' <=> ~s3)
  BY <1>3 DEF LossyScan!Persist, SeenInv
\* A run that is there takes another status.
<1>4. ASSUME NEW r \in Runs, DOMAIN s1[r] = {"source", "status"}, NEW st
      PROVE  LET x == [s1[r] EXCEPT !.status = st] IN
             /\ [s1 EXCEPT ![r].status = st] = [s1 EXCEPT ![r] = x]
             /\ DOMAIN x = {"source", "status"} /\ x.source = s1[r].source /\ x.status = st
  BY <1>4
<1>r. ASSUME NEW r \in Runs PROVE SeenRun(r)
  BY DEF SeenInv
<1>5. ASSUME NEW r \in Runs, LossyScan!ScanOverSsh(r) PROVE SeenInv'
  <2> DEFINE x == [source |-> "ssh", status |-> "scanning"]
  <2>1. /\ s1[r] = LossyScan!Absent /\ s1' = [s1 EXCEPT ![r] = x] /\ s2' = s2 \cup {r}
        /\ s9' = "none" /\ s10' = r /\ UNCHANGED <<s3, s5, s6, s8, s12>>
    BY <1>5 DEF LossyScan!ScanOverSsh, LossyScan!Created, LossyScan!None
  <2>2. DOMAIN x = {"source", "status"} /\ x.source = "ssh" /\ x.status = "scanning"
    OBVIOUS
  <2>3. r \notin s8 /\ (r \in s6 => ~s3) /\ (r \in s12 => s3)
    BY <1>a, <1>r, <2>1 DEF SeenRun
  <2> HIDE DEF x
  <2> QED
    BY <1>1, <1>n, <2>1, <2>2, <2>3 DEF SeenInv, Good
<1>6. ASSUME NEW r \in Runs, LossyScan!AgentScript(r) PROVE SeenInv'
  <2> DEFINE x == [source |-> "agent", status |-> "scanning"]
  <2>1. /\ s1[r] = LossyScan!Absent /\ s1' = [s1 EXCEPT ![r] = x] /\ s8' = s8 \cup {r}
        /\ UNCHANGED <<s2, s3, s5, s6, s9, s10, s12>>
    BY <1>6 DEF LossyScan!AgentScript, LossyScan!Created
  <2>2. DOMAIN x = {"source", "status"} /\ x.source = "agent" /\ x.status = "scanning"
    OBVIOUS
  <2>3. r \notin s2 /\ (r \in s6 => ~s3) /\ (r \in s12 => s3)
    BY <1>a, <1>r, <2>1 DEF SeenRun
  <2>4. s9 # r /\ s10 # r
    BY <1>a, <1>n, <2>1 DEF SeenInv, Good
  <2> HIDE DEF x
  <2> QED
    BY <1>1, <2>1, <2>2, <2>3, <2>4 DEF SeenInv, Good
<1>7. ASSUME NEW r \in Runs, LossyScan!ScanExport(r) PROVE SeenInv'
  <2> DEFINE x == [source |-> "export", status |-> "scanned"]
  <2>1. /\ s1[r] = LossyScan!Absent /\ s1' = [s1 EXCEPT ![r] = x] /\ LossyScan!Persist(r, LossyScan!All)
        /\ s9' = r /\ UNCHANGED <<s2, s3, s8, s10, s12>> /\ s10 = "none"
    BY <1>7 DEF LossyScan!ScanExport, LossyScan!None
  <2>2. DOMAIN x = {"source", "status"} /\ x.source = "export" /\ x.status = "scanned"
    OBVIOUS
  <2>3. r \notin s2 /\ r \notin s8 /\ (r \in s12 => s3)
    BY <1>a, <1>r, <2>1 DEF SeenRun
  <2> HIDE DEF x
  <2> QED
    BY <1>1, <1>3, <1>n, <2>1, <2>2, <2>3 DEF SeenInv, Good, Direct
<1>8. ASSUME NEW r \in Runs, LossyScan!ThreadFails(r) PROVE SeenInv'
  <2> DEFINE x == [s1[r] EXCEPT !.status = "failed"]
  <2>1. /\ r \in s2 /\ s2' = s2 \ {r} /\ s1' = [s1 EXCEPT ![r].status = "failed"]
        /\ UNCHANGED <<s3, s5, s6, s8, s9, s10, s12>>
    BY <1>8 DEF LossyScan!ThreadFails
  <2>2. /\ s1[r].source = "ssh" /\ s1[r].status = "scanning" /\ DOMAIN s1[r] = {"source", "status"}
        /\ r \notin s8 /\ (r \in s6 => ~s3) /\ (r \in s12 => s3)
    BY <1>a, <1>r, <2>1 DEF SeenRun
  <2>3. s9 # r
    BY <1>n, <2>2 DEF SeenInv, Good
  <2>4. /\ s1' = [s1 EXCEPT ![r] = x]
        /\ DOMAIN x = {"source", "status"} /\ x.source = "ssh" /\ x.status = "failed"
    BY <1>4, <2>1, <2>2
  <2> HIDE DEF x
  <2> QED
    BY <1>1, <2>1, <2>2, <2>3, <2>4 DEF SeenInv, Good
<1>9. ASSUME NEW r \in Runs, LossyScan!ThreadEnds(r) PROVE SeenInv'
  <2> DEFINE x == [s1[r] EXCEPT !.status = "scanned"]
  <2>1. /\ r \in s2 /\ s2' = s2 \ {r} /\ s1' = [s1 EXCEPT ![r].status = "scanned"]
        /\ LossyScan!Persist(r, LossyScan!All) /\ UNCHANGED <<s3, s8, s9, s10, s12>>
    BY <1>9 DEF LossyScan!ThreadEnds
  <2>2. /\ s1[r].source = "ssh" /\ s1[r].status = "scanning" /\ DOMAIN s1[r] = {"source", "status"}
        /\ r \notin s8 /\ (r \in s12 => s3)
    BY <1>a, <1>r, <2>1 DEF SeenRun
  <2>4. /\ s1' = [s1 EXCEPT ![r] = x]
        /\ DOMAIN x = {"source", "status"} /\ x.source = "ssh" /\ x.status = "scanned"
    BY <1>4, <2>1, <2>2
  <2> HIDE DEF x
  <2> QED
    BY <1>1, <1>3, <2>1, <2>2, <2>4 DEF SeenInv, Good, Direct
<1>10. ASSUME NEW r \in Runs, LossyScan!Done(r) PROVE SeenInv'
  <2> DEFINE x == [s1[r] EXCEPT !.status = "scanned"]
  <2>1. /\ r \in s8 /\ s8' = s8 \ {r} /\ s1' = [s1 EXCEPT ![r].status = "scanned"]
        /\ LossyScan!Persist(r, s4[r]) /\ UNCHANGED <<s2, s3, s9, s10, s12>>
    BY <1>10 DEF LossyScan!Done
  <2>2. /\ s1[r].source = "agent" /\ DOMAIN s1[r] = {"source", "status"} /\ r \notin s2 /\ (r \in s12 => s3)
    BY <1>a, <1>r, <2>1 DEF SeenRun
  <2>3. s9 # r /\ s10 # r
    BY <1>n, <2>2 DEF SeenInv, Direct
  <2>4. /\ s1' = [s1 EXCEPT ![r] = x]
        /\ DOMAIN x = {"source", "status"} /\ x.source = "agent" /\ x.status = "scanned"
    BY <1>4, <2>1, <2>2
  <2> HIDE DEF x
  <2> QED
    BY <1>1, <1>3, <2>1, <2>2, <2>3, <2>4 DEF SeenInv, Direct
\* The page imports what it shows and does not block: a run whose passwords were read.
<1>11. ASSUME NEW r \in Runs, LossyScan!Import(r) PROVE SeenInv'
  <2> DEFINE x == [s1[r] EXCEPT !.status = "completed"]
  <2>1. /\ s9 = r /\ r \notin s6 /\ s1' = [s1 EXCEPT ![r].status = "completed"] /\ s12' = s12 \cup {r}
        /\ UNCHANGED <<s2, s3, s5, s6, s8, s9, s10>>
    BY <1>11 DEF LossyScan!Import, LossyScan!Opened, LossyScan!Leads
  <2>2. s1[r].status \in Good /\ s1[r].source \in Direct
    BY <1>n, <2>1 DEF SeenInv
  <2>3. /\ DOMAIN s1[r] = {"source", "status"} /\ r \notin s2 /\ r \notin s8 /\ s3
        /\ s5[r] = LossyScan!All
    BY <1>a, <1>r, <2>1, <2>2 DEF SeenRun, Good, Direct
  <2>4. /\ s1' = [s1 EXCEPT ![r] = x]
        /\ DOMAIN x = {"source", "status"} /\ x.source = s1[r].source /\ x.status = "completed"
    BY <1>4, <2>1, <2>3
  <2>5. s10 = r => s1[r].source = "ssh"
    BY <1>n DEF SeenInv
  <2> HIDE DEF x
  <2> QED
    BY <1>1, <2>1, <2>2, <2>3, <2>4, <2>5 DEF SeenInv, Good
<1>12. CASE LossyScan!Settled
  <2>1. /\ s10 # "none" /\ LossyScan!Good(s1[s10].status) /\ s9' = s10 /\ s10' = "none"
        /\ UNCHANGED <<s1, s2, s3, s5, s6, s8, s12>>
    BY <1>12 DEF LossyScan!Settled, LossyScan!None
  <2>2. s1[s10].status \in Good
    BY <2>1 DEF LossyScan!Good, SeenInv, Good
  <2> QED
    BY <1>2, <2>1, <2>2
<1>13. ASSUME NEW r \in Runs, LossyScan!Paste(r) \/ LossyScan!Upload(r) \/ LossyScan!UploadLost(r)
                              \/ LossyScan!TokenExpires(r)
       PROVE  SeenInv'
  BY <1>2, <1>13 DEF LossyScan!Paste, LossyScan!Upload, LossyScan!UploadLost, LossyScan!TokenExpires
<1>14. CASE \/ LossyScan!PollAgain \/ LossyScan!PollEnds \/ LossyScan!LostContact \/ LossyScan!Restart
            \/ UNCHANGED LossyScan!vars
  <2>1. UNCHANGED <<s1, s3, s5, s6, s8, s9, s12>> /\ s2' \subseteq s2 /\ s10' \in {s10, "none"}
    BY <1>14 DEF LossyScan!PollAgain, LossyScan!PollEnds, LossyScan!LostContact, LossyScan!Restart,
       LossyScan!None, LossyScan!vars
  <2> QED
    BY <1>2, <2>1
<1> QED
  BY <1>5, <1>6, <1>7, <1>8, <1>9, <1>10, <1>11, <1>12, <1>13, <1>14 DEF LossyScan!Next

LEMMA SeenSafe == SeenInv => LossyScan!ShownIsFound /\ LossyScan!BlockedStays
BY DEF SeenInv, SeenRun, LossyScan!ShownIsFound, LossyScan!BlockedStays, LossyScan!None

-----------------------------------------------------------------------------
(*                        The list of CPEs                                 *)

\* s1 are the rows, s2 the list shown and s5 the requests out, of which there is one at most.
\* The list shows no device as waiting that is not, but for an action done whose reload is to
\* come; and so does what a reload has read.
Waits(from, to) == \A k \in Fleet!Keys : from[k] = "pending" => to[k] = "pending"

Moved(r) == r.op = "load" \/ (r.op \in {"approve", "reject"} /\ r.done)

Actions == {"load", "approve", "reject", "refresh", "enroll"}
Asked(r) == DOMAIN r = {"op", "key", "read", "done"} /\ r.op \in Actions

FleetInv ==
    /\ DOMAIN s1 = Fleet!Keys
    /\ s5 = {} \/ \E r : Asked(r) /\ s5 = {r}
    /\ (\A r \in s5 : ~Moved(r)) => Waits(s2, s1)
    /\ \A r \in s5 : r.op = "load" /\ r.done => Waits(r.read, s1)

LEMMA FleetCount ==
    /\ \A S : Fleet!Cardinality(S) = Cardinality(S)
    /\ Fleet!Cardinality({}) = 0 /\ \A x : Fleet!Cardinality({x}) = 1
<1>1. \A S : Fleet!Cardinality(S) = Cardinality(S)
  BY DEF Fleet!Cardinality, Cardinality
<1> QED
  BY <1>1, FS_EmptySet, FS_Singleton

LEMMA NewRequest ==
    ASSUME NEW op \in Actions, NEW k
    PROVE  Asked(Fleet!Request(op, k)) /\ Fleet!Request(op, k).op = op /\ ~Fleet!Request(op, k).done
BY DEF Fleet!Request, Asked

LEMMA FleetBegin == Fleet!Init => FleetInv
BY NewRequest DEF Fleet!Init, FleetInv, Moved, Fleet!NoRows, Actions

LEMMA FleetStep == FleetInv /\ [Fleet!Next]_(Fleet!vars) => FleetInv'
<1> SUFFICES ASSUME FleetInv, [Fleet!Next]_(Fleet!vars) PROVE FleetInv'
  OBVIOUS
<1>m. Fleet!MayAct => s5 = {}
  <2>1. ASSUME NEW r, s5 = {r}, Fleet!MayAct PROVE FALSE
    <3>1. Fleet!Cardinality(s5) = 1
      BY <2>1, FleetCount
    <3>2. Fleet!Cardinality(s5) < 1
      BY <2>1 DEF Fleet!MayAct
    <3> QED
      BY <3>1, <3>2
  <2> QED
    BY <2>1 DEF FleetInv
\* A request is sent while none is out.
<1>1. ASSUME NEW r, Asked(r), s5' = {r}, ~r.done, UNCHANGED <<s1, s2>>,
             r.op = "load" \/ Waits(s2, s1)
      PROVE  FleetInv'
  BY <1>1 DEF FleetInv, Moved, Waits
\* No request is out any more.
<1>2. ASSUME s5' = {}, s1' = s1, Waits(s2, s1)' PROVE FleetInv'
  BY <1>2 DEF FleetInv
<1>3. ASSUME UNCHANGED <<s1, s2, s5>> PROVE FleetInv'
  BY <1>3 DEF FleetInv, Moved, Waits
<1>4. CASE Fleet!Reload
  <2>1. s5' = {Fleet!Request("load", "none")} /\ UNCHANGED <<s1, s2>>
    BY <1>4, <1>m DEF Fleet!Reload, Fleet!Load
  <2> QED
    BY <1>1, <2>1, NewRequest DEF Actions
<1>5. ASSUME NEW k \in Fleet!Keys, NEW op \in {"approve", "reject", "refresh"}, Fleet!Act(op, k) PROVE FleetInv'
  <2>1. s5 = {} /\ s5' = {Fleet!Request(op, k)} /\ UNCHANGED <<s1, s2>>
    BY <1>5, <1>m DEF Fleet!Act
  <2>2. Waits(s2, s1)
    BY <2>1 DEF FleetInv
  <2> QED
    BY <1>1, <2>1, <2>2, NewRequest DEF Actions
<1>6. ASSUME NEW k \in Typed, Fleet!Submit(k) PROVE FleetInv'
  <2>1. s5 = {} /\ s5' = {Fleet!Request("enroll", k)} /\ UNCHANGED <<s1, s2>>
    BY <1>6, <1>m DEF Fleet!Submit
  <2>2. Waits(s2, s1)
    BY <2>1 DEF FleetInv
  <2> QED
    BY <1>1, <2>1, <2>2, NewRequest DEF Actions
<1>7. CASE Fleet!OpenDialog \/ Fleet!CloseDialog \/ UNCHANGED Fleet!vars
  BY <1>3, <1>7 DEF Fleet!OpenDialog, Fleet!CloseDialog, Fleet!vars
\* What waits goes on waiting when a unit comes.
<1>8. CASE Fleet!Inform
  <2>1. s1["full"] = "none" /\ s1' = [s1 EXCEPT !["full"] = "pending"] /\ UNCHANGED <<s2, s5>>
    BY <1>8 DEF Fleet!Inform
  <2>2. DOMAIN s1' = Fleet!Keys /\ Waits(s1, s1')
    BY <2>1 DEF FleetInv, Waits, Fleet!Keys
  <2> QED
    BY <2>1, <2>2 DEF FleetInv, Waits, Moved
\* Only an approval or a rejection ends a wait, and it brings a reload.
<1>9. ASSUME NEW r \in s5, Fleet!Serve(r) PROVE FleetInv'
  <2> DEFINE x == [r EXCEPT !.done = TRUE]
             y == [x EXCEPT !.read = s1]
  <2>1. /\ ~r.done /\ ~Fleet!Refused(r) /\ s1' = Fleet!Stored(r) /\ s2' = s2 /\ s5 = {r}
        /\ Asked(r) /\ s5' = {y} /\ (r.op = "enroll" => s1[r.key] = "none")
    BY <1>9 DEF Fleet!Serve, Fleet!Refused, FleetInv
  <2>2. Asked(y) /\ y.op = r.op /\ y.done /\ y.read = s1
    <3>1. Asked(x) /\ x.op = r.op /\ x.done
      BY <2>1 DEF Asked
    <3> HIDE DEF x
    <3> QED
      BY <3>1 DEF Asked
  <2> HIDE DEF y
  <2>3. DOMAIN s1' = Fleet!Keys
    BY <2>1 DEF Fleet!Stored, FleetInv, Asked, Actions
  <2>4. ~Moved(y) => Waits(s2, s1) /\ Waits(s1, s1')
    BY <2>1, <2>2 DEF Fleet!Stored, FleetInv, Moved, Waits, Asked, Actions
  <2>5. ~Moved(y) => Waits(s2, s1')
    BY <2>4 DEF Waits
  <2>6. r.op = "load" => Waits(y.read, s1')
    BY <2>1, <2>2 DEF Fleet!Stored, Waits
  <2>7. Waits(s2, s1)' = Waits(s2, s1')
    BY <2>1 DEF Waits
  <2> QED
    BY <2>1, <2>2, <2>3, <2>5, <2>6, <2>7 DEF FleetInv
<1>10. ASSUME NEW r \in s5, Fleet!LoadAnswered(r) PROVE FleetInv'
  <2>1. r.op = "load" /\ r.done /\ s5' = {} /\ s1' = s1 /\ s2' = r.read
    BY <1>10 DEF Fleet!LoadAnswered, FleetInv
  <2>2. Waits(r.read, s1)
    BY <2>1 DEF FleetInv
  <2>3. Waits(s2, s1)'
    BY <2>1, <2>2 DEF Waits
  <2> QED
    BY <1>2, <2>1, <2>3
<1>11. ASSUME NEW r \in s5, Fleet!ActAnswered(r) PROVE FleetInv'
  <2>1. r.op \in {"approve", "reject", "refresh"} /\ s5 \ {r} = {} /\ UNCHANGED <<s1, s2>>
    BY <1>11 DEF Fleet!ActAnswered, FleetInv
  <2>2. CASE r.op = "refresh"
    <3>1. s5' = {} /\ ~Moved(r) /\ s5 = {r}
      BY <1>11, <2>1, <2>2 DEF Fleet!ActAnswered, Moved
    <3>2. Waits(s2, s1)
      BY <3>1 DEF FleetInv
    <3> QED
      BY <1>2, <2>1, <3>1, <3>2 DEF Waits
  <2>3. CASE r.op # "refresh"
    <3>1. s5' = {Fleet!Request("load", "none")}
      BY <1>11, <2>1, <2>3 DEF Fleet!ActAnswered, Fleet!Load
    <3> QED
      BY <1>1, <2>1, <3>1, NewRequest DEF Actions
  <2> QED
    BY <2>2, <2>3
<1>12. ASSUME NEW r \in s5, Fleet!Enrolled(r) PROVE FleetInv'
  <2>1. s5' = {Fleet!Request("load", "none")} /\ UNCHANGED <<s1, s2>>
    BY <1>12 DEF Fleet!Enrolled, Fleet!Load, FleetInv
  <2> QED
    BY <1>1, <2>1, NewRequest DEF Actions
\* Only an action is refused, and then nothing was done.
<1>13. ASSUME NEW r \in s5, Fleet!Fails(r) PROVE FleetInv'
  <2>1. ~r.done /\ r.op # "load" /\ s5' = {} /\ UNCHANGED <<s1, s2>> /\ s5 = {r}
    BY <1>13 DEF Fleet!Fails, Fleet!Refused, FleetInv
  <2>2. Waits(s2, s1)
    BY <2>1 DEF FleetInv, Moved
  <2> QED
    BY <1>2, <2>1, <2>2 DEF Waits
<1> QED
  BY <1>4, <1>5, <1>6, <1>7, <1>8, <1>9, <1>10, <1>11, <1>12, <1>13 DEF Fleet!Next, Fleet!Answer

LEMMA FleetSafe == FleetInv => Fleet!RestShowsRows
BY DEF FleetInv, Waits, Fleet!RestShowsRows

-----------------------------------------------------------------------------
(*                            The copilot                                  *)

\* s1 is the order of the threads, s2 their messages, s3 how many there were, s6 the questions
\* under way; s7 is the panel, s8 its reading of the list, s10 its thread, s11 its messages, s12
\* that it waits and s13 its reads of threads.  One who waits for every answer has one thread, which
\* the panel shows but for the question or the answer that is on its way.
Alone == <<1>>
Transcript == IF s1 = Alone THEN s2[1] ELSE <<>>

\* The server has no thread or the first.
ThreadsSound ==
    /\ DOMAIN s2 = Threads
    /\ \/ s1 = <<>> /\ s3 = 0 /\ (1 \in Threads => s2[1] = <<>>)
       \/ s1 = Alone /\ s3 = 1 /\ 1 \in Threads
    /\ s10 = 0 \/ (s10 = 1 /\ s1 = Alone)

AskSound(a) ==
    /\ DOMAIN a = {"q", "at", "thread", "first", "seen", "shown", "heard"}
    /\ a.heard /\ a.at \in {"sent", "asking", "answered", "failed"} /\ (a.first <=> s10 = 0)
    /\ a.at = "sent" => /\ a.thread = s10 /\ (s10 = 0 => s1 = <<>>)
                        /\ s11 = Append(Transcript, Chat!Question(a.q))
    /\ a.at # "sent" => a.thread = 1 /\ s1 = Alone
    /\ a.at = "asking" => s11 = s2[1]
    /\ a.at = "answered" => s2[1] = Append(s11, Chat!Reply(a.q, FALSE))
    /\ a.at = "failed" => s2[1] = Append(s11, Chat!Reply(a.q, TRUE))

ChatInv ==
    /\ ThreadsSound /\ s5 = 0 /\ s13 = {}
    /\ s6 = {} \/ (s12 /\ \E a : s6 = {a} /\ AskSound(a))
    /\ s6 = {} => (s10 = 0 => s1 = <<>>) /\ s11 = Transcript
    /\ ~s7 \/ s8 # <<>> => s6 = {} /\ s1 = <<>>

LEMMA OneThread == MaxThreads \in Nat \ {0}
BY WaitingAssumption DEF Chat!CopilotAssumption

LEMMA ChatBegin == Chat!Init => ChatInv
BY DEF Chat!Init, ChatInv, ThreadsSound, Transcript, Alone

\* The thread that is touched is the only one, before and after.
LEMMA Touched ==
    ASSUME s1 = <<>> \/ s1 = Alone
    PROVE  /\ Chat!Touch(1) = Alone /\ Chat!ToSet(Alone) = {1} /\ Chat!ToSet(<<>>) = {}
           /\ Alone # <<>> /\ Alone[1] = 1
<1> USE DEF Alone
<1>1. Chat!RemoveFirst(<<>>, 1) = <<>>
  BY DEF Chat!RemoveFirst
<1>2. Chat!RemoveFirst(<<1>>, 1) = <<>>
  <2>1. {i \in 1 .. Len(<<1>>) : <<1>>[i] = 1} = {1}
    OBVIOUS
  <2>2. Chat!Min({1}) = 1
    BY DEF Chat!Min
  <2>3. Chat!SelectInSeq(<<1>>, LAMBDA v : v = 1) = 1
    BY <2>1, <2>2 DEF Chat!SelectInSeq
  <2>4. Chat!RemoveAt(<<1>>, 1) = <<>>
    BY DEF Chat!RemoveAt
  <2> QED
    BY <2>3, <2>4 DEF Chat!RemoveFirst
<1>3. Chat!RemoveFirst(s1, 1) = <<>>
  BY <1>1, <1>2, Zenon
<1>4. <<1>> \o <<>> = <<1>> /\ Len(<<1>>) = 1
  OBVIOUS
<1>5. (IF 1 > MaxThreads THEN MaxThreads ELSE 1) = 1
  BY OneThread
<1>6. SubSeq(<<1>>, 1, 1) = <<1>>
  <2>1. <<1>> \in Seq({1}) /\ Len(<<1>>) = 1 /\ <<1>>[1] = 1
    OBVIOUS
  <2>2. 1 \in Int /\ \A i \in 1 .. 1 : <<1>>[i] \in {1}
    BY <2>1
  <2>3. /\ SubSeq(<<1>>, 1, 1) \in Seq({1}) /\ Len(SubSeq(<<1>>, 1, 1)) = 1
        /\ \A i \in 1 .. 1 : SubSeq(<<1>>, 1, 1)[i] = 1
    BY <2>1, <2>2, SubSeqProperties
  <2>4. PICK a, b : a = SubSeq(<<1>>, 1, 1) /\ b = <<1>>
    OBVIOUS
  <2>5. a \in Seq({1}) /\ b \in Seq({1}) /\ Len(a) = Len(b) /\ \A i \in 1 .. Len(a) : a[i] = b[i]
    BY <2>1, <2>3, <2>4
  <2>6. a = b
    BY <2>5, SeqEqual, Zenon
  <2> QED
    BY <2>4, <2>6
<1>7. Chat!Touch(1) = <<1>>
  BY <1>3, <1>4, <1>5, <1>6, Zenon DEF Chat!Touch
<1>8. Chat!ToSet(<<1>>) = {1} /\ Chat!ToSet(<<>>) = {} /\ <<1>> # <<>> /\ <<1>>[1] = 1
  BY DEF Chat!ToSet
<1> QED
  BY <1>7, <1>8

LEMMA ChatStep == ChatInv /\ [Chat!Next]_(Chat!vars) => ChatInv'
<1> SUFFICES ASSUME ChatInv, [Chat!Next]_(Chat!vars) PROVE ChatInv'
  OBVIOUS
<1> USE DEF Chat!server, Chat!panel
<1>t. /\ Chat!Touch(1) = Alone /\ Chat!ToSet(Alone) = {1} /\ Chat!ToSet(<<>>) = {}
      /\ Alone # <<>> /\ Alone[1] = 1
  BY Touched DEF ChatInv, ThreadsSound
<1>0. ASSUME NEW a \in s6
      PROVE  /\ s6 = {a} /\ AskSound(a) /\ s12 /\ s7 /\ s8 = <<>>
             /\ DOMAIN a = {"q", "at", "thread", "first", "seen", "shown", "heard"}
  BY DEF ChatInv, AskSound
<1>1. CASE Chat!Open \/ Chat!Boot
  <2>1. s6 = {} /\ s1 = <<>>
    BY <1>1 DEF Chat!Open, Chat!Boot, ChatInv
  <2>2. UNCHANGED <<s1, s2, s3, s5, s6, s10, s11, s12, s13>>
    BY <1>1, <2>1 DEF Chat!Open, Chat!Boot
  <2> QED
    BY <2>1, <2>2 DEF ChatInv, ThreadsSound, Transcript
\* A question goes on screen after the transcript.
<1>2. CASE Chat!Send
  <2>0. PICK a, n : n = s4 + 1 /\ a = [q |-> n, at |-> "sent", thread |-> s10, first |-> s10 = 0,
                                       seen |-> <<>>, shown |-> s11, heard |-> TRUE]
    OBVIOUS
  <2>1. /\ s7 /\ s8 = <<>> /\ ~s12 /\ s12' = TRUE /\ s11' = Append(s11, Chat!Question(n)) /\ s6' = s6 \cup {a}
        /\ UNCHANGED <<s1, s2, s3, s5, s7, s8, s10, s13>>
    BY <1>2, <2>0 DEF Chat!Send
  <2>2. s6 = {} /\ s6' = {a}
    BY <2>1 DEF ChatInv
  <2>3. /\ DOMAIN a = {"q", "at", "thread", "first", "seen", "shown", "heard"} /\ a.heard /\ a.at = "sent"
        /\ (a.first <=> s10 = 0) /\ a.thread = s10 /\ a.q = n
    BY <2>0
  <2>4. (s10 = 0 => s1 = <<>>) /\ s11 = Transcript
    BY <2>2 DEF ChatInv
  <2>5. AskSound(a)'
    BY <2>1, <2>3, <2>4 DEF AskSound, Transcript
  <2> QED
    BY <2>1, <2>2, <2>5 DEF ChatInv, ThreadsSound
\* It is saved in the one thread there is, or comes to be.
<1>3. ASSUME NEW a \in s6, Chat!Save(a) PROVE ChatInv'
  <2>0. PICK b, m : /\ b = [a EXCEPT !.at = "asking", !.thread = 1, !.seen = Chat!HistoryForModel(s2[1])]
                    /\ m = Append(Transcript, Chat!Question(a.q))
    OBVIOUS
  <2>1. a.at = "sent" /\ UNCHANGED <<s5, s7, s8, s10, s11, s12, s13>>
    BY <1>3 DEF Chat!Save
  <2>2. s6 = {a} /\ AskSound(a) /\ s12 /\ s7 /\ s8 = <<>>
    BY <1>0
  <2>3. a.thread = s10 /\ (s10 = 0 => s1 = <<>>) /\ s11 = m /\ (s10 = 1 => s1 = Alone)
    BY <2>0, <2>1, <2>2 DEF AskSound, ChatInv, ThreadsSound
  <2>4. Chat!Home(a.thread) = 1
    BY <1>t, <2>3 DEF Chat!Home, ChatInv, ThreadsSound
  <2>5. 1 \in Threads /\ s1' = Alone /\ s3' = 1 /\ s6' = {b}
        /\ s2' = Chat!Kept([s2 EXCEPT ![1] = Append(@, Chat!Question(a.q))], {1})
    <3>1. /\ 1 \in Threads /\ s1' = Chat!Touch(1) /\ s3' = (IF 1 > s3 THEN 1 ELSE s3)
          /\ s2' = Chat!Kept([s2 EXCEPT ![1] = Append(@, Chat!Question(a.q))], Chat!ToSet(Chat!Touch(1)))
          /\ s6' = (s6 \ {a}) \cup {b}
      BY <1>3, <2>0, <2>4 DEF Chat!Save
    <3>2. s3 = 0 \/ s3 = 1
      BY DEF ChatInv, ThreadsSound
    <3>3. s3' = 1
      BY <3>1, <3>2
    <3>4. s6' = {b}
      BY <2>2, <3>1
    <3> QED
      BY <1>t, <3>1, <3>3, <3>4, Zenon
  <2>6. s2[1] = Transcript
    BY <1>t, <2>5 DEF ChatInv, ThreadsSound, Transcript
  <2>7. DOMAIN s2' = Threads /\ s2'[1] = m
    BY <2>0, <2>5, <2>6 DEF Chat!Kept, ChatInv, ThreadsSound
  <2>8. /\ DOMAIN b = {"q", "at", "thread", "first", "seen", "shown", "heard"} /\ b.at = "asking"
        /\ b.thread = 1 /\ b.heard = a.heard /\ b.first = a.first
    BY <1>0, <2>0
  <2>9. AskSound(b)'
    BY <2>1, <2>2, <2>3, <2>5, <2>7, <2>8 DEF AskSound
  <2>10. ThreadsSound'
    BY <2>1, <2>5, <2>7 DEF ChatInv, ThreadsSound
  <2> QED
    BY <2>1, <2>2, <2>5, <2>9, <2>10 DEF ChatInv
<1>4. ASSUME NEW a \in s6, NEW failed \in BOOLEAN, Chat!Answer(a, failed) PROVE ChatInv'
  <2>0. PICK b : b = [a EXCEPT !.at = IF failed THEN "failed" ELSE "answered"]
    OBVIOUS
  <2>1. a.at = "asking" /\ UNCHANGED <<s1, s3, s5, s7, s8, s10, s11, s12, s13>>
    BY <1>4 DEF Chat!Answer
  <2>2. s6 = {a} /\ AskSound(a) /\ s12 /\ s7 /\ s8 = <<>>
    BY <1>0
  <2>3. a.thread = 1 /\ s1 = Alone /\ s11 = s2[1] /\ 1 \in Threads /\ s3 = 1
    BY <1>t, <2>1, <2>2 DEF AskSound, ChatInv, ThreadsSound
  <2>4. s2' = [s2 EXCEPT ![1] = Append(@, Chat!Reply(a.q, failed))] /\ s6' = {b}
    BY <1>4, <1>t, <2>0, <2>2, <2>3 DEF Chat!Answer
  <2>5. DOMAIN s2' = Threads /\ s2'[1] = Append(s11, Chat!Reply(a.q, failed))
    BY <2>3, <2>4 DEF ChatInv, ThreadsSound
  <2>6. /\ DOMAIN b = {"q", "at", "thread", "first", "seen", "shown", "heard"}
        /\ b.at = (IF failed THEN "failed" ELSE "answered")
        /\ b.thread = 1 /\ b.heard = a.heard /\ b.first = a.first /\ b.q = a.q
    BY <1>0, <2>0, <2>3
  <2>7. b.at = "failed" => failed = TRUE
    BY <2>6
  <2>8. b.at = "answered" => failed = FALSE
    BY <2>6
  <2>9. AskSound(b)'
    BY <2>1, <2>2, <2>3, <2>5, <2>6, <2>7, <2>8 DEF AskSound
  <2> QED
    BY <2>1, <2>2, <2>3, <2>4, <2>5, <2>9 DEF ChatInv, ThreadsSound
<1>5. ASSUME NEW a \in s6, Chat!AnswerArrives(a) PROVE ChatInv'
  <2>1. /\ a.at = "answered" /\ s6' = {} /\ s10' = a.thread /\ s11' = Append(s11, Chat!Reply(a.q, FALSE))
        /\ UNCHANGED <<s1, s2, s3, s5, s7, s8, s13>>
    BY <1>0, <1>5 DEF Chat!AnswerArrives
  <2>2. AskSound(a) /\ s7 /\ s8 = <<>>
    BY <1>0
  <2>3. a.thread = 1 /\ s1 = Alone /\ s11' = s2[1]
    BY <2>1, <2>2 DEF AskSound
  <2>4. ThreadsSound'
    BY <2>1, <2>3 DEF ChatInv, ThreadsSound
  <2>5. s11' = Transcript'
    BY <2>1, <2>3 DEF Transcript
  <2>6. s10' # 0
    BY <2>1, <2>3
  <2> QED
    BY <1>t, <2>1, <2>2, <2>4, <2>5, <2>6 DEF ChatInv
\* An answer that fails is on both sides, and the latest thread is the question's.
<1>6. ASSUME NEW a \in s6, Chat!AnswerFails(a) PROVE ChatInv'
  <2>1. /\ a.at = "failed" /\ s6' = {} /\ s11' = Append(s11, Chat!Reply(a.q, TRUE))
        /\ s10' = (IF a.first /\ s1 # <<>> THEN s1[1] ELSE s10)
        /\ UNCHANGED <<s1, s2, s3, s5, s7, s8, s13>>
    BY <1>0, <1>6 DEF Chat!AnswerFails
  <2>2. AskSound(a) /\ s7 /\ s8 = <<>>
    BY <1>0
  <2>3. a.thread = 1 /\ s1 = Alone /\ s11' = s2[1] /\ (a.first <=> s10 = 0)
    BY <2>1, <2>2 DEF AskSound
  <2>4. s10' = 1
    BY <1>t, <2>1, <2>3 DEF ChatInv, ThreadsSound
  <2>5. ThreadsSound'
    BY <2>1, <2>3, <2>4 DEF ChatInv, ThreadsSound
  <2>6. s11' = Transcript'
    BY <2>1, <2>3 DEF Transcript
  <2>7. s10' # 0
    BY <2>4
  <2> QED
    BY <1>t, <2>1, <2>2, <2>5, <2>6, <2>7 DEF ChatInv
<1>7. CASE UNCHANGED Chat!vars
  BY <1>7 DEF Chat!vars, ChatInv, ThreadsSound, AskSound, Transcript
\* One who waits does nothing else.
<1>8. ASSUME NEW a \in s6 PROVE ~Chat!Refuse(a) /\ ~Chat!Forget(a)
  BY <1>0 DEF Chat!Refuse, Chat!Forget, AskSound
<1>9. ~Chat!Close /\ ~Chat!BootFails /\ ~Chat!StartNew
  BY DEF Chat!Close, Chat!BootFails, Chat!StartNew
<1>10. ASSUME NEW t PROVE ~Chat!OpenThread(t) /\ ~Chat!RemoveThread(t) /\ ~Chat!AskElsewhere(t)
  BY DEF Chat!OpenThread, Chat!RemoveThread, Chat!AskElsewhere, ChatInv
<1>11. s13 = {}
  BY DEF ChatInv
<1> QED
  BY <1>1, <1>2, <1>3, <1>4, <1>5, <1>6, <1>7, <1>8, <1>9, <1>10, <1>11 DEF Chat!Next

LEMMA ChatSafe == ChatInv => Chat!PanelIsStored
<1> SUFFICES ASSUME ChatInv, s6 = {}, s10 # 0
             PROVE  SelectSeq(s11, LAMBDA m : ~m.error)
                      = SelectSeq(IF s10 \in Threads THEN s2[s10] ELSE <<>>, LAMBDA m : ~m.error)
  BY DEF Chat!PanelIsStored, Chat!Idle
<1>0. s11 = Transcript /\ s10 = 1 /\ s1 = Alone
  BY DEF ChatInv, ThreadsSound
<1>2. 1 \in Threads
  BY <1>0 DEF ChatInv, ThreadsSound, Alone
<1>1. s11 = IF s10 \in Threads THEN s2[s10] ELSE <<>>
  BY <1>0, <1>2 DEF Transcript
<1> QED
  BY <1>1

-----------------------------------------------------------------------------
(*                          A subscriber's page                            *)

\* s1 is what is stored of the clients, s2 the address, s3 the record shown, s4 that it is being
\* read, s5 the reads and s6 the other requests.  The page reads one record at a time, after the
\* only request that changes what it shows; but for such a request, what it has read is stored.
Changing(c) == c.kind \in {"access", "delete"} /\ c.at = "done"

CallSound(c) ==
    /\ DOMAIN c = {"kind", "what", "of", "at", "pw", "named"}
    /\ c.kind \in Client!Kinds /\ c.at \in {"sent", "done", "refused"}
    /\ c.kind \in {"access", "delete"} => c.what \in Client!Statuses
    /\ s2 # "list" => c.of = s2 /\ (c.kind = "access" => ~s4)

LoadSound(l) ==
    /\ DOMAIN l = {"of", "at", "status"} /\ l.of = s2 /\ l.at \in {"sent", "read"} /\ s4

\* What the page has read is what is stored.
ReadIsStored ==
    /\ ~s4 /\ s3 # Client!Nobody => s3 = [of |-> s2, status |-> s1[s2].status]
    /\ \A l \in s5 : l.at = "read" => l.status = s1[s2].status

RecordInv ==
    /\ DOMAIN s1 = Subscribers
    /\ s2 \in Subscribers \/ (s2 = "list" /\ s5 = {})
    /\ \A c \in s6 : CallSound(c)
    /\ \A c, d \in s6 : c.kind = d.kind => c = d
    /\ \A l \in s5 : LoadSound(l) /\ s5 = {l}
    /\ s2 # "list" /\ s4 => s5 # {}
    /\ s2 # "list" /\ (\A c \in s6 : ~Changing(c)) => ReadIsStored

LEMMA RecordBegin == Client!Init => RecordInv
<1> SUFFICES ASSUME Client!Init PROVE RecordInv
  OBVIOUS
<1>1. /\ DOMAIN s1 = Subscribers /\ s2 \in Subscribers /\ s3 = Client!Nobody /\ s4 = TRUE /\ s6 = {}
      /\ s5 = {[of |-> s2, at |-> "sent", status |-> "gone"]}
  BY DEF Client!Init
<1>2. ASSUME NEW l \in s5 PROVE LoadSound(l) /\ s5 = {l} /\ l.at = "sent"
  BY <1>1 DEF LoadSound
<1> QED
  BY <1>1, <1>2 DEF RecordInv, ReadIsStored

\* The page that is left, and the one that is entered.
LEMMA RecordLeft ==
    ASSUME RecordInv, Client!Left, UNCHANGED s1, s6' \subseteq s6 PROVE RecordInv'
<1>1. s2' = "list" /\ s5' = {}
  BY DEF Client!Left
<1>2. ASSUME NEW c \in s6' PROVE CallSound(c)'
  BY <1>1 DEF RecordInv, CallSound
<1> QED
  BY <1>1, <1>2 DEF RecordInv

LEMMA RecordStep == RecordInv /\ [Client!Next]_(Client!vars) => RecordInv'
<1> SUFFICES ASSUME RecordInv, [Client!Next]_(Client!vars) PROVE RecordInv'
  OBVIOUS
<1>1. ASSUME NEW u \in Subscribers, Client!Enter(u) PROVE RecordInv'
  <2>1. /\ s2' = u /\ s4' = TRUE /\ s5' = {[of |-> u, at |-> "sent", status |-> "gone"]} /\ s6 = {}
        /\ UNCHANGED <<s1, s3, s6>>
    BY <1>1 DEF Client!Enter
  <2>2. ASSUME NEW l \in s5' PROVE LoadSound(l)' /\ s5' = {l} /\ l.at = "sent"
    BY <2>1 DEF LoadSound
  <2> QED
    BY <2>1, <2>2 DEF RecordInv, ReadIsStored
<1>2. ASSUME NEW l \in s5, Client!ServeLoad(l) PROVE RecordInv'
  <2>0. PICK k : k = [l EXCEPT !.at = "read", !.status = s1[l.of].status]
    OBVIOUS
  <2>1. l.at = "sent" /\ s5' = (s5 \ {l}) \cup {k} /\ UNCHANGED <<s1, s2, s3, s4, s6>>
    BY <1>2, <2>0 DEF Client!ServeLoad
  <2>2. LoadSound(l) /\ s5 = {l}
    BY DEF RecordInv
  <2>3. s5' = {k} /\ DOMAIN k = {"of", "at", "status"} /\ k.at = "read" /\ k.of = s2 /\ k.status = s1[s2].status
    BY <2>0, <2>1, <2>2 DEF LoadSound
  <2>4. LoadSound(k)'
    BY <2>1, <2>2, <2>3 DEF LoadSound
  <2>5. ASSUME NEW c \in s6' PROVE CallSound(c)'
    BY <2>1 DEF RecordInv, CallSound
  <2>6. ASSUME ReadIsStored PROVE ReadIsStored'
    BY <2>1, <2>3, <2>6 DEF ReadIsStored
  <2>7. (\A c \in s6' : ~Changing(c)) => \A c \in s6 : ~Changing(c)
    BY <2>1
  <2> QED
    BY <2>1, <2>3, <2>4, <2>5, <2>6, <2>7 DEF RecordInv
<1>3. ASSUME NEW l \in s5, Client!LoadArrives(l) PROVE RecordInv'
  <2>1. CASE l.status = "gone"
    <3>1. Client!Left /\ UNCHANGED <<s1, s6>>
      BY <1>3, <2>1 DEF Client!LoadArrives
    <3> QED
      BY <3>1, RecordLeft
  <2>2. CASE l.status # "gone"
    <3>1. /\ l.at = "read" /\ s5' = s5 \ {l} /\ s4' = FALSE /\ s3' = [of |-> l.of, status |-> l.status]
          /\ UNCHANGED <<s1, s2, s6>>
      BY <1>3, <2>2 DEF Client!LoadArrives
    <3>2. LoadSound(l) /\ s5' = {}
      BY <3>1 DEF RecordInv
    <3>3. ASSUME NEW c \in s6' PROVE CallSound(c)'
      BY <3>1 DEF RecordInv, CallSound
    <3>4. ASSUME ReadIsStored PROVE ReadIsStored'
      BY <3>1, <3>2, <3>4 DEF ReadIsStored, LoadSound
    <3>5. (\A c \in s6' : ~Changing(c)) => \A c \in s6 : ~Changing(c)
      BY <3>1
    <3> QED
      BY <3>1, <3>2, <3>3, <3>4, <3>5 DEF RecordInv
  <2> QED
    BY <2>1, <2>2
\* A request is made, one of its kind, of the page that reads nothing.
<1>4. ASSUME NEW k \in Client!Kinds, NEW w, s6' = Client!Call(k, w), ~Client!Busy(k), Client!Ready,
             k \in {"access", "delete"} => w \in Client!Statuses, UNCHANGED <<s1, s2, s3, s4, s5>>
      PROVE RecordInv'
  <2>0. PICK a : a = [kind |-> k, what |-> w, of |-> s2, at |-> "sent", pw |-> 0, named |-> s3.of]
    OBVIOUS
  <2>1. s6' = s6 \cup {a}
    BY <1>4, <2>0 DEF Client!Call
  <2>2. /\ DOMAIN a = {"kind", "what", "of", "at", "pw", "named"} /\ a.kind = k /\ a.what = w
        /\ a.of = s2 /\ a.at = "sent" /\ \A c \in s6 : c.kind # k
    BY <1>4, <2>0 DEF Client!Busy
  <2>3. CallSound(a)'
    BY <1>4, <2>2 DEF CallSound, Client!Ready
  <2>4. ASSUME NEW c \in s6 PROVE CallSound(c)'
    BY <1>4 DEF RecordInv, CallSound
  <2>5. ASSUME NEW l \in s5' PROVE LoadSound(l)' /\ s5' = {l}
    BY <1>4 DEF RecordInv, LoadSound
  <2>6. ASSUME ReadIsStored PROVE ReadIsStored'
    BY <1>4, <2>6 DEF ReadIsStored
  <2>7. (\A c \in s6' : ~Changing(c)) => \A c \in s6 : ~Changing(c)
    BY <2>1
  <2>8. \A c, d \in s6' : c.kind = d.kind => c = d
    BY <2>1, <2>2 DEF RecordInv
  <2> QED
    BY <1>4, <2>1, <2>3, <2>4, <2>5, <2>6, <2>7, <2>8 DEF RecordInv
<1>5. CASE Client!ToggleAccess
  BY <1>4, <1>5 DEF Client!ToggleAccess, Client!Kinds, Client!Statuses
<1>6. CASE Client!Reset
  BY <1>4, <1>6 DEF Client!Reset, Client!Kinds
<1>7. CASE Client!ConfirmDelete
  BY <1>4, <1>7 DEF Client!ConfirmDelete, Client!Kinds, Client!Statuses
\* What concerns neither the record nor a request.
<1>8. ASSUME UNCHANGED <<s1, s2, s3, s4, s5, s6>> PROVE RecordInv'
  BY <1>8 DEF RecordInv, CallSound, LoadSound, ReadIsStored, Changing
<1>9. CASE Client!Reveal
  <2>1. CASE s7 # Client!Hidden
    BY <1>8, <1>9, <2>1 DEF Client!Reveal
  <2>2. CASE s7 = Client!Hidden
    BY <1>4, <1>9, <2>2 DEF Client!Reveal, Client!Kinds
  <2> QED
    BY <2>1, <2>2
<1>10. CASE Client!AskDelete \/ Client!Cancel \/ UNCHANGED Client!vars
  BY <1>8, <1>10 DEF Client!AskDelete, Client!Cancel, Client!vars, Client!pageVars
\* The server refuses a request, or does it: what the page has read is the former status then,
\* but only until the answer.
<1>11. ASSUME NEW c \in s6, Client!ServeCall(c) PROVE RecordInv'
  <2>0. CallSound(c) /\ c.at = "sent" /\ UNCHANGED <<s2, s3, s4, s5>>
    BY <1>11 DEF RecordInv, Client!ServeCall
  <2>1. PICK d : /\ s6' = (s6 \ {c}) \cup {d} /\ DOMAIN d = DOMAIN c
                 /\ d.kind = c.kind /\ d.what = c.what /\ d.of = c.of
                 /\ \/ d.at = "refused" /\ UNCHANGED s1
                    \/ /\ d.at = "done"
                       /\ s1' = [s1 EXCEPT ![c.of] =
                                  [status |-> IF c.kind \in {"access", "delete"} THEN c.what ELSE @.status,
                                   pw |-> IF c.kind = "reset" THEN @.pw + 1 ELSE @.pw]]
    <3>1. CASE s1[c.of].status = "gone"
      <4>1. PICK d : d = [c EXCEPT !.at = "refused"]
        OBVIOUS
      <4>2. DOMAIN d = DOMAIN c /\ d.kind = c.kind /\ d.what = c.what /\ d.of = c.of /\ d.at = "refused"
        BY <2>0, <4>1 DEF CallSound
      <4>3. s6' = (s6 \ {c}) \cup {d} /\ UNCHANGED s1
        BY <1>11, <3>1, <4>1 DEF Client!ServeCall
      <4> QED
        BY <4>2, <4>3
    <3>2. CASE s1[c.of].status # "gone"
      <4>1. PICK d : d = [c EXCEPT !.at = "done", !.pw = s1'[c.of].pw]
        OBVIOUS
      <4>2. DOMAIN d = DOMAIN c /\ d.kind = c.kind /\ d.what = c.what /\ d.of = c.of /\ d.at = "done"
        BY <2>0, <4>1 DEF CallSound
      <4>3. /\ s6' = (s6 \ {c}) \cup {d}
            /\ s1' = [s1 EXCEPT ![c.of] =
                       [status |-> IF c.kind \in {"access", "delete"} THEN c.what ELSE @.status,
                        pw |-> IF c.kind = "reset" THEN @.pw + 1 ELSE @.pw]]
        BY <1>11, <3>2, <4>1 DEF Client!ServeCall
      <4> QED
        BY <4>2, <4>3
    <3> QED
      BY <3>1, <3>2
  <2>2. DOMAIN s1' = Subscribers
    BY <2>1 DEF RecordInv
  <2>3. CallSound(d)' /\ \A e \in s6 : CallSound(e)'
    BY <2>0, <2>1 DEF RecordInv, CallSound
  <2>4. ASSUME NEW l \in s5' PROVE LoadSound(l)' /\ s5' = {l}
    BY <2>0 DEF RecordInv, LoadSound
  <2>5. \A e, f \in s6' : e.kind = f.kind => e = f
    BY <2>1 DEF RecordInv
  <2>6. ASSUME s2 # "list", \A e \in s6' : ~Changing(e) PROVE ReadIsStored'
    <3>1. (\A e \in s6 : ~Changing(e)) /\ c.of = s2 /\ ~Changing(d)
      BY <2>0, <2>1, <2>6 DEF Changing, CallSound
    <3>2. ReadIsStored /\ s2 \in Subscribers
      BY <2>6, <3>1 DEF RecordInv
    <3>3. s1'[s2].status = s1[s2].status
      BY <2>1, <3>1, <3>2 DEF Changing, RecordInv
    <3> QED
      BY <2>0, <3>2, <3>3 DEF ReadIsStored
  <2> QED
    BY <2>0, <2>1, <2>2, <2>3, <2>4, <2>5, <2>6 DEF RecordInv
\* An answer that changes nothing on the page.
<1>12. ASSUME NEW c \in s6, s6' = s6 \ {c}, s2 # "list" => ~Changing(c), UNCHANGED <<s1, s2, s3, s4, s5>>
       PROVE RecordInv'
  <2>1. ASSUME NEW e \in s6' PROVE CallSound(e)'
    BY <1>12 DEF RecordInv, CallSound
  <2>2. ASSUME NEW l \in s5' PROVE LoadSound(l)' /\ s5' = {l}
    BY <1>12 DEF RecordInv, LoadSound
  <2>3. ASSUME ReadIsStored PROVE ReadIsStored'
    BY <1>12, <2>3 DEF ReadIsStored
  <2>4. s2 # "list" /\ (\A e \in s6' : ~Changing(e)) => \A e \in s6 : ~Changing(e)
    BY <1>12
  <2> QED
    BY <1>12, <2>1, <2>2, <2>3, <2>4 DEF RecordInv
\* After a change the record is read again.
<1>13. ASSUME NEW c \in s6, Client!AccessAnswered(c) PROVE RecordInv'
  <2>1. CASE c.at = "done" /\ s2 # "list"
    <3>0. PICK l : l = [of |-> c.of, at |-> "sent", status |-> "gone"]
      OBVIOUS
    <3>1. /\ c.kind = "access" /\ s6' = s6 \ {c} /\ s5' = s5 \cup {l} /\ s4' = TRUE
          /\ UNCHANGED <<s1, s2, s3>>
      BY <1>13, <2>1, <3>0 DEF Client!AccessAnswered, Client!Read
    <3>2. c.of = s2 /\ ~s4
      BY <2>1, <3>1 DEF RecordInv, CallSound
    <3>3. s5' = {l}
      BY <3>1, <3>2 DEF RecordInv, LoadSound
    <3>4. LoadSound(l)' /\ l.at = "sent"
      BY <3>0, <3>1, <3>2 DEF LoadSound
    <3>5. ASSUME NEW e \in s6' PROVE CallSound(e)'
      BY <3>1 DEF RecordInv, CallSound
    <3>6. ReadIsStored'
      BY <3>1, <3>3, <3>4 DEF ReadIsStored
    <3> QED
      BY <2>1, <3>1, <3>3, <3>4, <3>5, <3>6 DEF RecordInv
  <2>2. CASE ~(c.at = "done" /\ s2 # "list")
    BY <1>12, <1>13, <2>2 DEF Client!AccessAnswered, Changing
  <2> QED
    BY <2>1, <2>2
<1>14. ASSUME NEW c \in s6, Client!PasswordAnswered(c) PROVE RecordInv'
  BY <1>12, <1>14 DEF Client!PasswordAnswered, Changing
<1>15. ASSUME NEW c \in s6, Client!DeleteAnswered(c) PROVE RecordInv'
  <2>1. CASE c.at = "done"
    BY <1>15, <2>1, RecordLeft DEF Client!DeleteAnswered
  <2>2. CASE c.at # "done"
    BY <1>12, <1>15, <2>2 DEF Client!DeleteAnswered, Changing
  <2> QED
    BY <2>1, <2>2
\* Nobody jumps and nothing is lost.
<1>16. /\ \A u \in Subscribers : ~Client!Jump(u)
       /\ \A l \in s5 : ~Client!LoadFails(l)
       /\ \A c \in s6 : ~Client!CallLost(c)
  BY DEF Client!Jump, Client!LoadFails, Client!CallLost
<1> QED
  BY <1>1, <1>2, <1>3, <1>5, <1>6, <1>7, <1>9, <1>10, <1>11, <1>13, <1>14, <1>15, <1>16 DEF Client!Next

LEMMA RecordSafe == RecordInv => Client!StatusShownIsStored
BY DEF RecordInv, ReadIsStored, Client!StatusShownIsStored, Client!Ready

-----------------------------------------------------------------------------
(*                     What is said of an invoice                          *)

\* s7 is the push and s10 the payment the operator was told of: what the dialog polls, and what a
\* push answers, is a payment that was made, and what was told is completed.
ToldInv ==
    /\ s6.payment \in 0 .. Len(s2)
    /\ DOMAIN s7 = {"at", "payment"} /\ s7.payment \in 0 .. Len(s2)
    /\ s10 \in 0 .. Len(s2) /\ (s10 # 0 => s2[s10].status = "completed")

LEMMA ToldBegin == Invoice!Init => ToldInv
BY DEF Invoice!Init, Invoice!Closed, ToldInv

LEMMA ToldStep ==
    BillsInv /\ ToldInv /\ ([Invoice!Next]_(Invoice!vars) \/ Deletes \/ Reads) => ToldInv'
<1> SUFFICES ASSUME BillsInv, ToldInv, [Invoice!Next]_(Invoice!vars) \/ Deletes \/ Reads PROVE ToldInv'
  OBVIOUS
<1>t. s2 \in Seq(Payment) /\ DOMAIN s6 = {"step", "of", "payment"} /\ Len(s2) \in Nat
  BY DEF BillsInv
<1>s. \A k \in 1 .. Len(s2) : s2[k].status = "completed" => s2'[k].status = "completed"
  BY InvoiceStep DEF Invoice!PaymentsStay
\* The payments go on, and no dialog.
<1>1. ASSUME Len(s2') \in Nat, Len(s2') >= Len(s2), UNCHANGED <<s6, s10>>,
             DOMAIN s7' = {"at", "payment"}, s7'.payment \in 0 .. Len(s2')
      PROVE  ToldInv'
  BY <1>1, <1>t, <1>s DEF ToldInv
\* The dialog goes on, and no payment.
<1>2. ASSUME UNCHANGED <<s2, s7, s10>>, s6'.payment \in 0 .. Len(s2) PROVE ToldInv'
  BY <1>2 DEF ToldInv
<1>3. CASE Deletes
  <2>1. UNCHANGED <<s6, s7, s10>>
    BY <1>3 DEF Deletes
  <2>2. \E i \in Bills : s2' = [k \in 1 .. Len(s2) |-> IF s2[k].of = i THEN [s2[k] EXCEPT !.of = "none"] ELSE s2[k]]
    BY <1>3 DEF Deletes, Invoice!ServeDelete
  <2>3. Len(s2') = Len(s2)
    BY <1>t, <2>2
  <2> QED
    BY <1>1, <1>t, <2>1, <2>3 DEF ToldInv
<1>4. CASE Invoice!ServePush
  <2>1. /\ s2' = Append(s2, [of |-> s6.of, status |-> "pending"]) /\ UNCHANGED <<s6, s10>>
        /\ s7' \in {[at |-> "done", payment |-> Len(s2) + 1], [at |-> "lost", payment |-> 0]}
    BY <1>4 DEF Invoice!ServePush
  <2>2. Len(s2') = Len(s2) + 1
    BY <1>t, <2>1
  <2>3. DOMAIN s7' = {"at", "payment"} /\ s7'.payment \in 0 .. Len(s2')
    BY <1>t, <2>1, <2>2
  <2> QED
    BY <1>1, <1>t, <2>1, <2>2, <2>3
<1>5. CASE Invoice!Callback
  <2>1. UNCHANGED <<s6, s7, s10>>
    BY <1>5 DEF Invoice!Callback, Invoice!dialog
  <2>2. PICK k \in 1 .. Len(s2) : \E v : s2' = [s2 EXCEPT ![k].status = v]
    BY <1>5 DEF Invoice!Callback
  <2>3. Len(s2') = Len(s2)
    BY <1>t, <2>2
  <2> QED
    BY <1>1, <1>t, <2>1, <2>3 DEF ToldInv
\* What does not concern the dialog.
<1>6. CASE \/ Invoice!Edit \/ Invoice!Create \/ Invoice!ChangeItems \/ Invoice!SaveNew \/ Invoice!Save
           \/ Invoice!Leave \/ (\E i \in Bills : Invoice!NameStatus(i)) \/ Reads
  <2>1. UNCHANGED <<s2, s6, s7, s10>>
    BY <1>6 DEF Invoice!Edit, Invoice!Create, Invoice!ChangeItems, Invoice!SaveNew, Invoice!Save,
       Invoice!Leave, Invoice!NameStatus, Reads, Invoice!server, Invoice!dialog
  <2> QED
    BY <2>1 DEF ToldInv
<1>7. CASE Invoice!OpenPay \/ Invoice!Close \/ Invoice!TryAgain \/ Invoice!PollFails
  <2>1. UNCHANGED <<s2, s7, s10>>
    BY <1>7 DEF Invoice!OpenPay, Invoice!Close, Invoice!TryAgain, Invoice!PollFails, Invoice!server
  <2>2. s6'.payment \in {0, s6.payment}
    BY <1>7, <1>t DEF Invoice!OpenPay, Invoice!Close, Invoice!TryAgain, Invoice!PollFails, Invoice!GiveUp,
       Invoice!Closed
  <2> QED
    BY <1>2, <1>t, <2>1, <2>2 DEF ToldInv
<1>8. CASE Invoice!Submit \/ Invoice!RefusePush
  <2>1. /\ UNCHANGED <<s2, s10>> /\ DOMAIN s7' = {"at", "payment"} /\ s7'.payment = 0
        /\ s6'.payment = s6.payment
    BY <1>8, <1>t DEF Invoice!Submit, Invoice!RefusePush, Invoice!server
  <2> QED
    BY <1>t, <2>1 DEF ToldInv
<1>9. CASE Invoice!PushAnswered
  <2>1. /\ UNCHANGED <<s2, s10>> /\ DOMAIN s7' = {"at", "payment"} /\ s7'.payment = 0
        /\ s6'.payment \in {s6.payment, s7.payment}
    BY <1>9, <1>t DEF Invoice!PushAnswered, Invoice!server
  <2> QED
    BY <1>t, <2>1 DEF ToldInv
\* The poll finds it completed.
<1>10. CASE Invoice!Poll
  <2>1. UNCHANGED <<s2, s7>>
    BY <1>10 DEF Invoice!Poll, Invoice!server
  <2>2. s6'.payment \in {0, s6.payment}
    <3>1. s6' = s6 \/ s6' = Invoice!Closed \/ \E st : s6' = [s6 EXCEPT !.step = st, !.payment = 0]
      BY <1>10 DEF Invoice!Poll, Invoice!GiveUp
    <3>2. Invoice!Closed.payment = 0
      BY DEF Invoice!Closed
    <3> QED
      BY <1>t, <3>1, <3>2
  <2>3. s10' = s10 \/ (s10' = s6.payment /\ s2[s6.payment].status = "completed")
    BY <1>10 DEF Invoice!Poll
  <2> QED
    BY <1>t, <2>1, <2>2, <2>3 DEF ToldInv
<1>11. Invoice!Delete => Deletes
  BY DEF Invoice!Delete, Deletes, Invoice!dialog, Invoice!editor
<1>12. Invoice!SetFilter \/ Invoice!Refresh \/ Invoice!ServeReading \/ Invoice!ReadEnds \/ Invoice!SaveRefused
          \/ UNCHANGED Invoice!vars => Reads
  BY DEF Invoice!SetFilter, Invoice!Refresh, Invoice!ServeReading, Invoice!ReadEnds, Invoice!SaveRefused,
     Invoice!vars, Invoice!server, Invoice!dialog, Invoice!editor, Reads
<1> QED
  BY <1>3, <1>4, <1>5, <1>6, <1>7, <1>8, <1>9, <1>10, <1>11, <1>12 DEF Invoice!Next

LEMMA ToldPageStep ==
    BillsInv /\ ToldInv /\ [InvoicePage!Next]_(InvoicePage!vars) => ToldInv'
<1> SUFFICES ASSUME BillsInv, ToldInv, InvoicePage!Poll PROVE ToldInv'
  BY InvoicePageGoes, ToldStep
<1>1. UNCHANGED <<s2, s7>>
  BY DEF InvoicePage!Poll, InvoicePage!server
<1>2. DOMAIN s6 = {"step", "of", "payment"}
  BY DEF BillsInv
<1>3. s6'.payment \in {0, s6.payment}
  <2>1. s6' = s6 \/ s6' = InvoicePage!Closed \/ \E st : s6' = [s6 EXCEPT !.step = st, !.payment = 0]
    BY DEF InvoicePage!Poll, InvoicePage!GiveUp
  <2>2. InvoicePage!Closed.payment = 0
    BY DEF InvoicePage!Closed
  <2> QED
    BY <1>2, <2>1, <2>2
<1>4. s10' = s10 \/ (s10' = s6.payment /\ s2[s6.payment].status = "completed")
  BY DEF InvoicePage!Poll
<1> QED
  BY <1>1, <1>3, <1>4 DEF ToldInv

-----------------------------------------------------------------------------
\* What holds of the part the behaviour is about.
SaidInv ==
    /\ part = "bill" => DuesInv
    /\ part = "shop" => SaleInv
    /\ part = "signup" => SignupInv
    /\ part \in {"import", "importDown"} => ImportInv
    /\ part = "scan" => WholeInv
    /\ part = "scanLossy" => SeenInv
    /\ part = "fleet" => FleetInv
    /\ part = "chat" => ChatInv
    /\ part = "client" => RecordInv
    /\ part \in {"invoice", "invoicePage"} => BillsInv /\ ToldInv

LEMMA DownImportBegin == DownImport!Init => Import!Init
BY SameBanner DEF DownImport!Init, Import!Init, DownImport!Off, Import!Off

LEMMA SaidBegin == Init => SaidInv
<1> SUFFICES ASSUME Init PROVE SaidInv
  OBVIOUS
<1>1. /\ part = "bill" => Bill!Init
      /\ part = "shop" => Shop!Init
      /\ part = "signup" => Signup!Init
      /\ part = "import" => Import!Init
      /\ part = "importDown" => DownImport!Init
      /\ part = "scan" => Scan!Init
      /\ part = "scanLossy" => LossyScan!Init
      /\ part = "fleet" => Fleet!Init
      /\ part = "chat" => Chat!Init
      /\ part = "client" => Client!Init
      /\ part = "invoice" => Invoice!Init
      /\ part = "invoicePage" => InvoicePage!Init
  BY DEF Init
<1> QED
  BY <1>1, DuesBegin, SaleBegin, SignupBegin, ImportBegin, DownImportBegin, WholeBegin, SeenBegin, FleetBegin,
     ChatBegin, RecordBegin, BillsBegin, ToldBegin, InvoicePageBegin DEF SaidInv

LEMMA SaidStep == OneDesk /\ SaidInv /\ [Next]_vars => SaidInv'
<1> SUFFICES ASSUME OneDesk, SaidInv, [Next]_vars PROVE SaidInv'
  OBVIOUS
<1>0. part' = part
  BY PartStays
<1>1. part = "bill" => DuesInv'
  BY BillSteps, DuesStep DEF SaidInv
<1>2. part = "shop" => SaleInv'
  BY ShopSteps, SaleStep DEF SaidInv
<1>3. part = "signup" => SignupInv'
  BY SignupSteps, SignupStep DEF SaidInv
<1>4. part = "import" => ImportInv'
  BY ImportSteps, ImportedStep DEF SaidInv
<1>5. part = "importDown" => ImportInv'
  BY DownImportSteps, DownImportedStep DEF SaidInv
<1>6. part = "scan" => WholeInv'
  BY ScanSteps, WholeStep DEF SaidInv
<1>7. part = "scanLossy" => SeenInv'
  BY LossyScanSteps, SeenStep DEF SaidInv
<1>8. part = "fleet" => FleetInv'
  BY FleetSteps, FleetStep DEF SaidInv
<1>9. part = "chat" => ChatInv'
  BY ChatSteps, ChatStep DEF SaidInv
<1>10. part = "client" => RecordInv'
  BY ClientSteps, RecordStep DEF SaidInv
<1>11. part = "invoice" => BillsInv' /\ ToldInv'
  BY InvoiceSteps, InvoiceStep, ToldStep DEF SaidInv
<1>12. part = "invoicePage" => BillsInv' /\ ToldInv'
  BY InvoicePageSteps, InvoicePageStep, ToldPageStep DEF SaidInv
<1> QED
  BY <1>0, <1>1, <1>2, <1>3, <1>4, <1>5, <1>6, <1>7, <1>8, <1>9, <1>10, <1>11, <1>12 DEF SaidInv

LEMMA SaidSafe == SaidInv => WhatIsSaidIsTrue
<1> SUFFICES ASSUME SaidInv PROVE WhatIsSaidIsTrue
  OBVIOUS
<1>1. part = "bill" => Bill!AwaitingIsPolled
  BY DEF SaidInv, DuesInv
<1>2. part = "shop" => Shop!ReceiptIsOwn
  BY DEF SaidInv, SaleInv, Shop!ReceiptIsOwn
<1>3. part \in {"invoice", "invoicePage"} => Invoice!ToldIsPaid /\ InvoicePage!ToldIsPaid
  BY DEF SaidInv, ToldInv, Invoice!ToldIsPaid, InvoicePage!ToldIsPaid
<1> QED
  BY <1>1, <1>2, <1>3, SignupSafe, ImportSafe, WholeSafe, SeenSafe, FleetSafe, ChatSafe, RecordSafe
  DEF SaidInv, WhatIsSaidIsTrue

\* Whatever the number of persons, clients, invoices, chunks and rows, what the pages say is so: the
\* payment page polls for every invoice it calls awaited, a receipt is of the sale on screen, a
\* sign-up that is finished can be signed in to, an import's counts and marks are of clients that
\* exist, a scan called whole is whole and one called blocked stays it, the CPE page shows what is
\* stored, so do the copilot's panel and the page of a client at rest, and whoever is told that an
\* invoice is paid has it paid.  The run that is imported is open on one page: commit_run_route and
\* revert_run refuse nothing to a second one that read the run before the first one's commit.
THEOREM WhatIsSaidHolds ==
    ASSUME OneDesk PROVE Spec => []WhatIsSaidIsTrue
<1>1. Init => SaidInv
  BY SaidBegin
<1>2. SaidInv /\ [Next]_vars => SaidInv'
  BY SaidStep, OneDesk
<1>3. SaidInv => WhatIsSaidIsTrue
  BY SaidSafe
<1> QED
  BY <1>1, <1>2, <1>3, PTL DEF Spec

=============================================================================
