----------------------------- MODULE MCNetwork ------------------------------
(***************************************************************************)
(* The pages about a tenant's network, each with the routers, units and    *)
(* rows it works on.  The console is a single-page application and shows   *)
(* one of them at a time, so a behaviour is about one part: `part` says    *)
(* which, and s1, s2, ... are that part's variables.                       *)
(***************************************************************************)
EXTENDS Naturals, FiniteSets, TLC

CONSTANTS WizardPorts, MaxDevices, MaxReads,   \* of the routers that are linked
          RouterPorts, First,      \* of the router that is given services
          MaxTasks, MaxAttempts,   \* of the tasks of a CPE
          Ssids, MaxOrders,        \* of the page of a CPE
          MaxOut,                  \* of the list of CPEs
          Poles, Spots,            \* of the plant
          MaxLoads, MaxMoves, MaxDrags, MaxTraces, MaxEdits, MaxPins,
          SheetPorts, Cables, MaxSheets, MaxSplices,
          Tariffs, Found, TariffOf, Queues, Dated,   \* of the import of a router
          Existing, Fee, MaxFee, MaxBacks,
          Papers, PeopleOf, Strangers, Raising,      \* of the import of a file
          MaxPicks, MaxJobs,
          Imports, Movers, ImportOf, Declined, Offline, MaxScripts   \* of the cutover

Profile == "c1" :> "10M" @@ "c2" :> "20M" @@ "q" :> "20M"
Subscribers == "a" :> {"ann", "bob"} @@ "b" :> {"bob", "cyn"}
Import == <<"r1", "r1", "r2">>

VARIABLES part,   \* what the behaviour is about, from the first state on
          s1, s2, s3, s4, s5, s6, s7, s8, s9, s10, s11, s12, s13   \* the variables of that part

vars == <<part, s1, s2, s3, s4, s5, s6, s7, s8, s9, s10, s11, s12, s13>>

\* Routers are linked, one after the other.
Wizard == INSTANCE AddDeviceWizard
    WITH ui <- s1, reads <- s2, nreads <- s3, routers <- s4, Ports <- WizardPorts,
         MaxDevices <- MaxDevices, MaxReads <- MaxReads

\* Services are applied to a router that names its uplink,
Services == INSTANCE RouterServices
    WITH wan <- s1, up <- s2, bridged <- s3, stored <- s4, ok <- s5, hidden <- s6,
         roles <- s7, call <- s8, applies <- s9, Ports <- RouterPorts,
         First <- First, Detected <- TRUE, MaxApplies <- 2

\* or that does not.
Blind == INSTANCE RouterServices
    WITH wan <- s1, up <- s2, bridged <- s3, stored <- s4, ok <- s5, hidden <- s6,
         roles <- s7, call <- s8, applies <- s9, Ports <- RouterPorts,
         First <- First, Detected <- FALSE, MaxApplies <- 1

\* The plant is drawn: an operator who waits for answers,
Map == INSTANCE FiberMap
    WITH place <- s1, accepted <- s2, data <- s3, loads <- s4, moves <- s5, selected <- s6,
         trace <- s7, tracing <- s8, mode <- s9, draft <- s10, path <- s11, write <- s12,
         used <- s13, Nodes <- Poles, Places <- Spots, Patient <- TRUE,
         Lossy <- TRUE, MaxLoads <- MaxLoads, MaxMoves <- MaxMoves, MaxTraces <- MaxTraces

\* and one who does not.
Hasty == INSTANCE FiberMap
    WITH place <- s1, accepted <- s2, data <- s3, loads <- s4, moves <- s5, selected <- s6,
         trace <- s7, tracing <- s8, mode <- s9, draft <- s10, path <- s11, write <- s12,
         used <- s13, Nodes <- Poles, Places <- Spots, Patient <- FALSE, Lossy <- TRUE,
         MaxLoads <- MaxLoads, MaxMoves <- MaxDrags, MaxTraces <- 0

\* Nodes are edited and pinned by one operator.
PinNodes == INSTANCE PlantNodes
    WITH row <- s1, rows <- s2, dialog <- s3, standing <- s4, fix <- s5, unplaced <- s6,
         pin <- s7, undone <- s8, count <- s9, Nodes <- Poles, Spots <- Spots,
         Alone <- TRUE, Signal <- TRUE, MaxEdits <- MaxEdits, MaxPins <- MaxPins

\* Ports are assigned by two operators.
Sheet == INSTANCE PortSheet
    WITH cables <- s1, splice <- s2, made <- s3, selected <- s4, sheet <- s5, reads <- s6,
         assigning <- s7, listed <- s8, saving <- s9, clearing <- s10, wrong <- s11,
         lost <- s12, asked <- s13, Nodes <- Poles, Ports <- SheetPorts, Cables <- Cables,
         Patient <- TRUE, MaxReads <- MaxSheets, MaxSplices <- MaxSplices

\* The page of a CPE, when every answer arrives,
Unit == INSTANCE CpePage
    WITH queue <- s1, air <- s2, known <- s3, active <- s4, dev <- s5, shown <- s6,
         form <- s7, dialog <- s8, req <- s9, retyped <- s10, nothing <- s11,
         Names <- Ssids, MaxOrders <- MaxOrders, Lossy <- FALSE

\* and when answers are lost.
UnitLossy == INSTANCE CpePage
    WITH queue <- s1, air <- s2, known <- s3, active <- s4, dev <- s5, shown <- s6,
         form <- s7, dialog <- s8, req <- s9, retyped <- s10, nothing <- s11,
         Names <- Ssids, MaxOrders <- MaxOrders, Lossy <- TRUE

\* The tasks of a CPE.
Tasks == INSTANCE CpeTasks
    WITH status <- s1, tasks <- s2, session <- s3, rpc <- s4, approved <- s5,
         MaxTasks <- MaxTasks, MaxAttempts <- MaxAttempts

\* The list of CPEs, with two requests at a time that may fail.
HastyFleet == INSTANCE CpeFleet
    WITH rows <- s1, list <- s2, loading <- s3, actionId <- s4, reqs <- s5, dialog <- s6,
         seen <- s7, Typed <- {"full", "bare"}, AllowUnknown <- FALSE, MaxOut <- MaxOut,
         Lossy <- TRUE

\* An import is planned and made once,
Plan == INSTANCE ImportPlan
    WITH drafts <- s1, anchor <- s2, preview <- s3, banner <- s4, request <- s5,
         options <- s6, plans <- s7, bought <- s8, ends <- s9, state <- s10, agreed <- s11,
         reverts <- s12, Profiles <- Tariffs, Clients <- Found, ProfileOf <- TariffOf,
         Static <- Queues, Past <- Dated, Other <- Existing, Price <- Fee, MaxPrice <- MaxFee,
         Reloads <- FALSE, Skips <- TRUE, MaxReverts <- 0

\* and one that is reverted and made again.
PlanBack == INSTANCE ImportPlan
    WITH drafts <- s1, anchor <- s2, preview <- s3, banner <- s4, request <- s5,
         options <- s6, plans <- s7, bought <- s8, ends <- s9, state <- s10, agreed <- s11,
         reverts <- s12, Profiles <- Tariffs, Clients <- Found, ProfileOf <- TariffOf,
         Static <- Queues, Past <- Dated, Other <- Existing, Price <- Fee, MaxPrice <- MaxFee,
         Reloads <- FALSE, Skips <- FALSE, MaxReverts <- MaxBacks

\* A file is imported that has a row whose creation raises,
File == INSTANCE FileImport
    WITH name <- s1, csv <- s2, readers <- s3, choice <- s4, preview <- s5, result <- s6,
         busy <- s7, job <- s8, clients <- s9, mapped <- s10, placeholder <- s11,
         picks <- s12, jobs <- s13, Files <- Papers, LoginsOf <- PeopleOf, Foreign <- Strangers,
         Bad <- Raising, Overlap <- FALSE, Edits <- FALSE,
         MaxPicks <- MaxPicks, MaxJobs <- MaxJobs

\* and one that has none.
GoodFile == INSTANCE FileImport
    WITH name <- s1, csv <- s2, readers <- s3, choice <- s4, preview <- s5, result <- s6,
         busy <- s7, job <- s8, clients <- s9, mapped <- s10, placeholder <- s11,
         picks <- s12, jobs <- s13, Files <- Papers, LoginsOf <- PeopleOf, Foreign <- Strangers,
         Bad <- {}, Overlap <- FALSE, Edits <- FALSE,
         MaxPicks <- MaxPicks, MaxJobs <- MaxJobs

\* Subscribers of two imports are moved to RADIUS, and back,
Moves == INSTANCE Cutover
    WITH enabled <- s1, adopted <- s2, clients <- s3, completed <- s4, listed <- s5,
         chosen <- s6, limit <- s7, request <- s8, script <- s9, copies <- s10,
         scripts <- s11, Runs <- Imports, Subscribers <- Movers, RunOf <- ImportOf,
         Refused <- Declined, Suspended <- Offline, NoPassword <- {}, Adopts <- TRUE,
         Reverts <- TRUE, MaxScripts <- MaxScripts

\* and those of one import that stands.
OneImport == INSTANCE Cutover
    WITH enabled <- s1, adopted <- s2, clients <- s3, completed <- s4, listed <- s5,
         chosen <- s6, limit <- s7, request <- s8, script <- s9, copies <- s10,
         scripts <- s11, Runs <- {"run"}, Subscribers <- Movers,
         RunOf <- [s \in Movers |-> "run"], Refused <- Declined, Suspended <- Offline,
         NoPassword <- {}, Adopts <- TRUE, Reverts <- FALSE, MaxScripts <- MaxScripts

ASSUME NetworkAssumption ==
    /\ Wizard!WizardAssumption /\ Services!ServicesAssumption /\ Blind!ServicesAssumption
    /\ Map!MapAssumption /\ Hasty!MapAssumption /\ PinNodes!NodesAssumption
    /\ Sheet!SheetAssumption /\ Unit!CpePageAssumption /\ UnitLossy!CpePageAssumption
    /\ Tasks!CpeTasksAssumption /\ HastyFleet!CpeFleetAssumption /\ Plan!PlanAssumption
    /\ PlanBack!PlanAssumption /\ File!FileAssumption /\ GoodFile!FileAssumption
    /\ Moves!CutoverAssumption /\ OneImport!CutoverAssumption

-----------------------------------------------------------------------------
Init ==
    \/ /\ part = "wizard" /\ Wizard!Init
       /\ s5 = "idle" /\ s6 = "idle" /\ s7 = "idle" /\ s8 = "idle" /\ s9 = "idle"
       /\ s10 = "idle" /\ s11 = "idle" /\ s12 = "idle" /\ s13 = "idle"
    \/ /\ part = "services" /\ Services!Init
       /\ s10 = "idle" /\ s11 = "idle" /\ s12 = "idle" /\ s13 = "idle"
    \/ /\ part = "blind" /\ Blind!Init
       /\ s10 = "idle" /\ s11 = "idle" /\ s12 = "idle" /\ s13 = "idle"
    \/ /\ part = "map" /\ Map!Init
    \/ /\ part = "hasty" /\ Hasty!Init
    \/ /\ part = "nodes" /\ PinNodes!Init
       /\ s10 = "idle" /\ s11 = "idle" /\ s12 = "idle" /\ s13 = "idle"
    \/ /\ part = "ports" /\ Sheet!Init
    \/ /\ part = "unit" /\ Unit!Init
       /\ s12 = "idle" /\ s13 = "idle"
    \/ /\ part = "unitLossy" /\ UnitLossy!Init
       /\ s12 = "idle" /\ s13 = "idle"
    \/ /\ part = "tasks" /\ Tasks!Init
       /\ s6 = "idle" /\ s7 = "idle" /\ s8 = "idle" /\ s9 = "idle" /\ s10 = "idle"
       /\ s11 = "idle" /\ s12 = "idle" /\ s13 = "idle"
    \/ /\ part = "fleetHasty" /\ HastyFleet!Init
       /\ s8 = "idle" /\ s9 = "idle" /\ s10 = "idle" /\ s11 = "idle" /\ s12 = "idle"
       /\ s13 = "idle"
    \/ /\ part = "plan" /\ Plan!Init
       /\ s13 = "idle"
    \/ /\ part = "planBack" /\ PlanBack!Init
       /\ s13 = "idle"
    \/ /\ part = "file" /\ File!Init
    \/ /\ part = "fileGood" /\ GoodFile!Init
    \/ /\ part = "cutover" /\ Moves!Init
       /\ s12 = "idle" /\ s13 = "idle"
    \/ /\ part = "cutoverOne" /\ OneImport!Init
       /\ s12 = "idle" /\ s13 = "idle"

Next ==
    \/ part = "wizard" /\ Wizard!Next /\ UNCHANGED <<part, s5, s6, s7, s8, s9, s10, s11, s12, s13>>
    \/ part = "services" /\ Services!Next /\ UNCHANGED <<part, s10, s11, s12, s13>>
    \/ part = "blind" /\ Blind!Next /\ UNCHANGED <<part, s10, s11, s12, s13>>
    \/ part = "map" /\ Map!Next /\ UNCHANGED <<part>>
    \/ part = "hasty" /\ Hasty!Next /\ UNCHANGED <<part>>
    \/ part = "nodes" /\ PinNodes!Next /\ UNCHANGED <<part, s10, s11, s12, s13>>
    \/ part = "ports" /\ Sheet!Next /\ UNCHANGED <<part>>
    \/ part = "unit" /\ Unit!Next /\ UNCHANGED <<part, s12, s13>>
    \/ part = "unitLossy" /\ UnitLossy!Next /\ UNCHANGED <<part, s12, s13>>
    \/ part = "tasks" /\ Tasks!Next /\ UNCHANGED <<part, s6, s7, s8, s9, s10, s11, s12, s13>>
    \/ part = "fleetHasty" /\ HastyFleet!Next /\ UNCHANGED <<part, s8, s9, s10, s11, s12, s13>>
    \/ part = "plan" /\ Plan!Next /\ UNCHANGED <<part, s13>>
    \/ part = "planBack" /\ PlanBack!Next /\ UNCHANGED <<part, s13>>
    \/ part = "file" /\ File!Next /\ UNCHANGED <<part>>
    \/ part = "fileGood" /\ GoodFile!Next /\ UNCHANGED <<part>>
    \/ part = "cutover" /\ Moves!Next /\ UNCHANGED <<part, s12, s13>>
    \/ part = "cutoverOne" /\ OneImport!Next /\ UNCHANGED <<part, s12, s13>>

Spec == Init /\ [][Next]_vars

-----------------------------------------------------------------------------
\* The variables of each part have their types, with the bounds the code
\* keeps: the retries of a task, the pages of a wizard, the rows of a file.
TypeOK ==
    /\ part = "wizard" => Wizard!TypeOK
    /\ part = "services" => Services!TypeOK
    /\ part = "blind" => Blind!TypeOK
    /\ part = "map" => Map!TypeOK
    /\ part = "hasty" => Hasty!TypeOK
    /\ part = "nodes" => PinNodes!TypeOK
    /\ part = "ports" => Sheet!TypeOK
    /\ part = "unit" => Unit!TypeOK
    /\ part = "unitLossy" => UnitLossy!TypeOK
    /\ part = "tasks" => Tasks!TypeOK
    /\ part = "fleetHasty" => HastyFleet!TypeOK
    /\ part = "plan" => Plan!TypeOK
    /\ part = "planBack" => PlanBack!TypeOK
    /\ part = "file" => File!TypeOK
    /\ part = "fileGood" => GoodFile!TypeOK
    /\ part = "cutover" => Moves!TypeOK
    /\ part = "cutoverOne" => OneImport!TypeOK

\* The port that feeds a router is not put in the bridge of its subscribers,
\* and what a page says was applied is of this router and was applied.
FeedIsSpared ==
    /\ part = "wizard" => Wizard!UplinkIsSpared /\ Wizard!SummaryIsOfRouter
    /\ part = "services" => Services!FeedStaysOffBridge /\ Services!AppliedIsShown
    /\ part = "blind" => Blind!AppliedIsShown

\* The drawing of the plant is the plant: a node is drawn where the server
\* took it, a trace and a sheet are of the node that is selected, a pin
\* survives an edit, and an assignment of a port leaves those of others.
PlantIsAsSeen ==
    /\ part = "map" => Map!DrawnWasAccepted /\ Map!TraceOfSelected
    /\ part = "hasty" => Hasty!DrawnWasAccepted
    /\ part = "nodes" => PinNodes!PinSurvivesEdit /\ PinNodes!PinnedWhereStanding
    /\ part = "ports" => Sheet!OthersStay /\ Sheet!SheetOfSelected /\ Sheet!AssignedWhereOpened

\* A CPE gets what was ordered: an answer finds the task it is of, a task that an
\* answer calls done ran, nothing runs before approval or after a cancelled
\* order, and the page shows what waits.
UnitsAreHandled ==
    /\ part = "unit" => Unit!WaitingIsShown
    /\ part = "tasks" => /\ Tasks!AnswerFindsItsTask /\ Tasks!AnsweredWasRun
                         /\ Tasks!ApprovedFirst /\ Tasks!CancelledUnsentStays
    /\ part = "fleetHasty" => HastyFleet!LoadingEnds

\* An import does what its preview said: nobody arrives expired or at another
\* price, one client for a row, what is imported was previewed, and a
\* subscriber whose move the router refused still has the old service.
ImportIsAsAgreed ==
    /\ part = "plan" => Plan!NobodyArrivesExpired /\ Plan!PriceIsAsSet
    /\ part = "planBack" => PlanBack!NobodyArrivesExpired
    /\ part = "file" => File!OneClientEach /\ File!ImportedIsPreviewed /\ File!PreviewIsOfText
    /\ part = "fileGood" => GoodFile!ReportedIsStored
    /\ part = "cutover" => Moves!RefusedStay
    /\ part = "cutoverOne" => OneImport!ServiceIsKept

\* No step does what was not asked for: rough places are asked about, a cable
\* keeps its ports, a password is sent once, orders keep their order, a price
\* outlives a reverted import, a dry run writes nothing and what is taken back
\* is taken back whole.
NothingUnasked ==
    [][/\ part = "nodes" => PinNodes!RoughIsAsked /\ PinNodes!GoneIsPlaced
       /\ part = "ports" => Sheet!CableKeepsPorts
       /\ part = "unit" => Unit!PasswordGoesOnce
       /\ part = "unitLossy" => UnitLossy!PasswordGoesOnce
       /\ part = "tasks" => Tasks!InOrder
       /\ part = "planBack" => PlanBack!PackagesKeepPrice
       /\ part = "file" => File!DryRunsWriteNothing
       /\ part = "cutover" => Moves!TakenBackIsWhole]_vars
=============================================================================
