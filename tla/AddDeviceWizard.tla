-------------------------- MODULE AddDeviceWizard --------------------------
(***************************************************************************)
(* Linking a MikroTik router: register it, let it provision itself, choose *)
(* the ports to monitor, give the others a service.  The wizard's buttons  *)
(* stay live while answers are on their way, and every reading of the      *)
(* router's ports replaces what the last one showed.                       *)
(*                                                                         *)
(* The server reads the router when the call arrives; what takes its time  *)
(* is the answer.  Step 2's progress display changes nothing and is left   *)
(* out, and so are the options that are sent with the roles as they are.   *)
(***************************************************************************)
EXTENDS Naturals, FiniteSets

CONSTANTS Ports,       \* ethernet ports of a router
          MaxDevices,  \* bound: routers registered
          MaxReads     \* bound: readings of the ports

WizardAssumption == MaxDevices \in Nat /\ MaxReads \in Nat

VARIABLES
    ui,        \* state of the wizard
    reads,     \* readings whose answer has not come
    nreads,    \* readings asked for
    routers    \* the routers registered, and what the server knows of them

vars == <<ui, reads, nreads, routers>>

Nothing == {}
None == 0
Devices == 1..MaxDevices
Roles == [Ports -> {"unset", "skip", "both"}]
Uplinks == {u \in SUBSET Ports : Cardinality(u) <= 1}

\* GET /devices/<id>/interfaces: the uplink is the port of the default route.
Reading == [n : 1..MaxReads, device : Devices, uplink : Uplinks, off : SUBSET Ports,
            monitored : SUBSET Ports]

Router == [uplink |-> Nothing, off |-> Nothing, monitored |-> Nothing, serving |-> Nothing]

Opened == [step |-> 1, created |-> None, submitting |-> "no", shown |-> Nothing,
           loading |-> FALSE, error |-> FALSE, monitored |-> Nothing,
           roles |-> [p \in Ports |-> "unset"], toggling |-> Nothing, busy |-> Nothing,
           saving |-> Nothing, applying |-> Nothing, result |-> Nothing]

TypeOK ==
    /\ ui.step \in 1..5 /\ ui.created \in Devices \cup {None}
    /\ ui.submitting \in {"no", "create", "token"}
    /\ ui.shown \subseteq Reading /\ Cardinality(ui.shown) <= 1
    /\ ui.loading \in BOOLEAN /\ ui.error \in BOOLEAN
    /\ ui.monitored \subseteq Ports /\ ui.roles \in Roles
    /\ ui.result \subseteq SUBSET Ports
    /\ ui.busy \subseteq Ports /\ ui.toggling \subseteq Ports
    /\ (ui.step > 1 => ui.created # None) /\ (ui.step = 5 => ui.result # Nothing)
    /\ reads \subseteq Reading
    /\ nreads \in 0..MaxReads
    /\ DOMAIN routers \subseteq Devices
    /\ \A d \in DOMAIN routers :
           routers[d] \in [uplink : Uplinks, off : SUBSET Ports, monitored : SUBSET Ports,
                           serving : SUBSET Ports]

Init ==
    /\ ui = Opened
    /\ reads = Nothing /\ nreads = 0
    /\ routers = [d \in {} |-> Router]

\* The buttons below the step that are on screen and enabled.
Footer ==
    CASE ui.step = 1 -> IF ui.submitting = "no" THEN {"register"} ELSE {}
      [] ui.step = 2 -> {"continue"}
      [] ui.step = 3 -> {"continue"} \cup
                        (IF ui.saving = Nothing /\ ~ui.loading THEN {"save"} ELSE {})
      [] ui.step = 4 -> IF ui.applying = Nothing THEN {"apply"} ELSE {}
      [] ui.step = 5 -> {}

\* The port map of step 3, the role table of step 4, the summary of step 5.
PortMap == IF ui.step = 3 THEN ui.shown ELSE Nothing
RoleTable == {p \in Ports : ui.step = 4 /\ ~ui.error /\ \E r \in ui.shown : p \notin r.uplink}
Summary == IF ui.step = 5 THEN ui.result ELSE Nothing

-----------------------------------------------------------------------------
\* loadDiscovery, once the wizard has become w.
Load(w) ==
    LET d == w.created IN
    /\ nreads < MaxReads
    /\ nreads' = nreads + 1
    /\ reads' = reads \cup
           {[n |-> nreads + 1, device |-> d, uplink |-> routers[d].uplink,
             off |-> routers[d].off, monitored |-> routers[d].monitored]}
    /\ ui' = [w EXCEPT !.loading = TRUE, !.error = FALSE]

\* The effect of arriving at step s: step 3 reads once, step 4 always.
Arrive(w, s) ==
    IF s # w.step /\ (s = 4 \/ (s = 3 /\ w.shown = Nothing))
    THEN Load([w EXCEPT !.step = s])
    ELSE ui' = [w EXCEPT !.step = s] /\ UNCHANGED <<reads, nreads>>

Retry == ui.step = 3 /\ ui.error /\ ~ui.loading /\ Load(ui) /\ UNCHANGED routers

Discovered(r) ==
    /\ reads' = reads \ {r}
    /\ ui' = [ui EXCEPT !.shown = {r}, !.loading = FALSE,
           !.monitored = IF r.monitored # Nothing THEN r.monitored ELSE Ports \ r.off,
           !.roles = [p \in Ports |-> IF p \in r.uplink THEN "unset"
                                      ELSE IF @[p] = "unset" THEN "both" ELSE @[p]]]
    /\ UNCHANGED <<nreads, routers>>

DiscoveryFailed(r) ==
    /\ reads' = reads \ {r}
    /\ ui' = [ui EXCEPT !.error = TRUE, !.loading = FALSE]
    /\ UNCHANGED <<nreads, routers>>

-----------------------------------------------------------------------------
\* handleRegisterAndProvision: two calls, and the button is free again after
\* either of them failed.
Register ==
    /\ "register" \in Footer
    /\ ui' = [ui EXCEPT !.submitting = "create"]
    /\ UNCHANGED <<reads, nreads, routers>>

DeviceCreated ==
    LET d == Cardinality(DOMAIN routers) + 1 IN
    /\ ui.submitting = "create" /\ d \in Devices
    /\ \E uplink \in Uplinks : routers' =
           [e \in DOMAIN routers \cup {d} |->
               IF e = d THEN [Router EXCEPT !.uplink = uplink] ELSE routers[e]]
    /\ ui' = [ui EXCEPT !.created = d, !.submitting = "token"]
    /\ UNCHANGED <<reads, nreads>>

TokenGenerated ==
    /\ ui.submitting = "token"
    /\ ui' = [ui EXCEPT !.step = 2, !.submitting = "no"]
    /\ UNCHANGED <<reads, nreads, routers>>

RegisterFailed ==
    /\ ui.submitting # "no"
    /\ ui' = [ui EXCEPT !.submitting = "no"]
    /\ UNCHANGED <<reads, nreads, routers>>

\* "Pick ports", "Continue anyway"; "Skip".
Continue == "continue" \in Footer /\ Arrive(ui, ui.step + 1) /\ UNCHANGED routers

\* The arrow of the header is live even where the footer's Back is not.
Back == ui.step \in 2..4 /\ Arrive(ui, ui.step - 1) /\ UNCHANGED routers

\* Closing, finishing and opening the wizard again: its state is gone, the
\* routers stay.
Reopen ==
    /\ ui' = Opened /\ reads' = Nothing
    /\ UNCHANGED <<nreads, routers>>

-----------------------------------------------------------------------------
ToggleMonitored(p) ==
    /\ PortMap # Nothing
    /\ ui' = [ui EXCEPT !.monitored = IF p \in @ THEN @ \ {p} ELSE @ \cup {p}]
    /\ UNCHANGED <<reads, nreads, routers>>

\* handleTogglePort refuses the uplink it shows; set_interface_disabled
\* refuses the uplink the router has.
TogglePort(p) ==
    /\ p \notin ui.busy
    /\ \E r \in PortMap :
           /\ p \notin r.uplink
           /\ IF p \notin r.off /\ p \in routers[ui.created].uplink
              THEN UNCHANGED routers
              ELSE routers' = [routers EXCEPT ![ui.created].off =
                                  IF p \in r.off THEN @ \ {p} ELSE @ \cup {p}]
    /\ ui' = [ui EXCEPT !.toggling = @ \cup {p}, !.busy = {p}]
    /\ UNCHANGED <<reads, nreads>>

\* The first answer frees the switch of whichever port was switched last.
PortToggled(p) ==
    /\ p \in ui.toggling
    /\ ui' = [ui EXCEPT !.toggling = @ \ {p}, !.busy = Nothing,
                       !.shown = {[r EXCEPT !.off = IF p \in routers[ui.created].off
                                                    THEN @ \cup {p} ELSE @ \ {p}] : r \in @}]
    /\ UNCHANGED <<reads, nreads, routers>>

PortNotToggled(p) ==
    /\ p \in ui.toggling
    /\ ui' = [ui EXCEPT !.toggling = @ \ {p}, !.busy = Nothing]
    /\ UNCHANGED <<reads, nreads, routers>>

SavePorts ==
    /\ "save" \in Footer
    /\ routers' = [routers EXCEPT ![ui.created].monitored = ui.monitored]
    /\ ui' = [ui EXCEPT !.saving = {ui.created}]
    /\ UNCHANGED <<reads, nreads>>

\* Wherever the user has gone meanwhile.
PortsSaved ==
    /\ ui.saving # Nothing
    /\ Arrive([ui EXCEPT !.saving = Nothing], 4)
    /\ UNCHANGED routers

PortsNotSaved ==
    /\ ui.saving # Nothing
    /\ ui' = [ui EXCEPT !.saving = Nothing]
    /\ UNCHANGED <<reads, nreads, routers>>

-----------------------------------------------------------------------------
SetPortRole(p, role) ==
    /\ p \in RoleTable
    /\ ui' = [ui EXCEPT !.roles[p] = role]
    /\ UNCHANGED <<reads, nreads, routers>>

Assigned == {p \in Ports : ui.roles[p] = "both"}

\* Faulty variant: the router takes every role it is sent.
AcceptedAsSent(ports, router) == ports

\* apply_services on the router: the uplink it has now is skipped.
Accepted(ports, router) == ports \ router.uplink

\* Not disabled while a reading is under way.
ApplyServices ==
    /\ "apply" \in Footer /\ Assigned # Nothing
    /\ LET d == ui.created
           ports == Accepted(Assigned, routers[d])
       IN /\ routers' = [routers EXCEPT ![d].serving = ports]
          /\ ui' = [ui EXCEPT !.applying = {ports}]
    /\ UNCHANGED <<reads, nreads>>

ServicesConfigured ==
    /\ ui.applying # Nothing
    /\ ui' = [ui EXCEPT !.applying = Nothing, !.result = ui.applying, !.step = 5]
    /\ UNCHANGED <<reads, nreads, routers>>

ConfigureFailed ==
    /\ ui.applying # Nothing
    /\ ui' = [ui EXCEPT !.applying = Nothing]
    /\ UNCHANGED <<reads, nreads, routers>>

\* The internet feed moves to another port, or is recognised there.
UplinkMoves(d) ==
    /\ \E u \in Uplinks :
           /\ u # routers[d].uplink /\ u \cap (routers[d].off \cup routers[d].serving) = {}
           /\ routers' = [routers EXCEPT ![d].uplink = u]
    /\ UNCHANGED <<ui, reads, nreads>>

Next ==
    \/ Register \/ DeviceCreated \/ TokenGenerated \/ RegisterFailed
    \/ Continue \/ Back \/ Retry \/ Reopen
    \/ \E r \in reads : Discovered(r) \/ DiscoveryFailed(r)
    \/ \E p \in Ports :
           \/ ToggleMonitored(p) \/ TogglePort(p) \/ PortToggled(p) \/ PortNotToggled(p)
           \/ \E role \in {"skip", "both"} : SetPortRole(p, role)
    \/ SavePorts \/ PortsSaved \/ PortsNotSaved
    \/ ApplyServices \/ ServicesConfigured \/ ConfigureFailed
    \/ \E d \in DOMAIN routers : UplinkMoves(d)

Spec == Init /\ [][Next]_vars

-----------------------------------------------------------------------------
\* Whatever stale reading the wizard works from, the port that carries the
\* internet feed is neither switched off nor given to subscribers.
UplinkIsSpared ==
    \A d \in DOMAIN routers :
        routers[d].uplink \cap (routers[d].off \cup routers[d].serving) = {}

\* The summary of the last step is what a router was configured with, however the
\* user moved between the steps while the call ran: the one of the wizard, unless
\* another was registered meanwhile.
SummaryIsOfRouter ==
    ui.step = 5 => \E d \in DOMAIN routers : Summary = {routers[d].serving}

-----------------------------------------------------------------------------
\* Said in the sources and not so in the code: no run checks what follows, and
\* the README tells how each of them is broken.

\* The effect on step 4: "Role assignment must reflect the router as it is
\* now": the roles sent come from the latest reading, unless the page says that
\* it is still reading or could not.
RolesReflectRouter ==
    ApplyServices /\ ~ui.loading /\ ~ui.error
        => \E r \in ui.shown : r.n = nreads

\* Step 3: "We read the router through the private tunnel ... and map the live
\* interfaces": the ports on screen are those of the router being linked.
PortsAreOfThisRouter ==
    ui.step \in {3, 4} => \A r \in ui.shown : r.device = ui.created

\* Step 5, "Router is live": the services listed are those of the router named above them.
SummaryIsOfThisRouter ==
    ui.step = 5 => Summary = {routers[ui.created].serving}
=============================================================================
