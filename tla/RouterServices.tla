---------------------------- MODULE RouterServices ----------------------------
(***************************************************************************)
(* ConfigureServicesPanel: each port of a router is given a service, and   *)
(* configure_services puts the ports on the service bridge.  The port that *)
(* carries the internet feed must stay off it.                             *)
(***************************************************************************)
EXTENDS FiniteSets, Naturals

CONSTANTS Ports,        \* ethernet ports
          First,        \* the port taken for the uplink when none is detected
          Detected,     \* whether the router always names its uplink: a DHCP
                        \* client, or an active default route
          MaxApplies    \* bound: presses of Apply

ServicesAssumption == First \in Ports /\ Detected \in BOOLEAN /\ MaxApplies \in Nat

Roles == {"both", "management"}

VARIABLES
    wan, up,      \* router: the port of the feed; whether it is detected now
    bridged,      \* router: the service of each port it bridges, or "none"
    stored, ok,   \* device.service_config: port_roles, applied_ok
    hidden,       \* panel: the ports taken for the uplink by its last reading
    roles,        \* panel: portRoles, "skip" or "unset" where there is none
    call,         \* the apply under way: none, or sent with its roles
    applies

vars == <<wan, up, bridged, stored, ok, hidden, roles, call, applies>>

NoRoles == [p \in Ports |-> "none"]
NoCall == [at |-> "none", roles |-> NoRoles]

TypeOK ==
    /\ wan \in Ports /\ up \in BOOLEAN /\ ok \in BOOLEAN
    /\ bridged \in [Ports -> Roles \cup {"none"}] /\ stored \in [Ports -> Roles \cup {"none"}]
    /\ hidden \subseteq Ports /\ Cardinality(hidden) <= 1
    /\ roles \in [Ports -> Roles \cup {"skip", "unset"}]
    /\ call.at \in {"none", "sent", "done", "failed"} /\ call.roles \in [Ports -> Roles \cup {"none"}]
    /\ applies \in 0 .. MaxApplies
    /\ call.at # "none" => \E p \in Ports : call.roles[p] # "none"

\* seedRoles
Seed(s) == [p \in Ports |-> IF s[p] = "none" THEN "unset" ELSE s[p]]

\* detect_uplink_interfaces: what the router routes through, when it does.
Uplinks == IF up THEN {wan} ELSE {}

Init ==
    /\ wan \in Ports /\ up = TRUE
    /\ stored \in [Ports -> Roles \cup {"none"}] /\ stored[wan] = "none" /\ bridged = stored
    /\ ok = TRUE /\ hidden = {} /\ roles = Seed(stored) /\ call = NoCall /\ applies = 0

\* The feed is moved to a port that serves nobody.
Rewire ==
    /\ \E p \in Ports : bridged[p] = "none" /\ p # wan /\ wan' = p
    /\ UNCHANGED <<up, bridged, stored, ok, hidden, roles, call, applies>>

\* A fixed address whose line is down has neither lease nor active route.
LineDown ==
    /\ ~Detected /\ up' = ~up
    /\ UNCHANGED <<wan, bridged, stored, ok, hidden, roles, call, applies>>

\* list_interfaces: ether1 stands for an uplink that is not detected.
UplinkHint == IF Uplinks # {} THEN Uplinks ELSE {First}

\* load(): a port without a role is offered as "both".
Load ==
    /\ hidden' = UplinkHint
    /\ roles' = [p \in Ports |-> IF roles[p] = "unset" /\ p \notin UplinkHint THEN "both" ELSE roles[p]]
    /\ UNCHANGED <<wan, up, bridged, stored, ok, call, applies>>

SetRole ==
    /\ hidden # {}
    /\ \E p \in Ports \ hidden, r \in Roles \cup {"skip"} : roles' = [roles EXCEPT ![p] = r]
    /\ UNCHANGED <<wan, up, bridged, stored, ok, hidden, call, applies>>

\* The roles sent are those of all ports, also of one hidden meanwhile.
Chosen == [p \in Ports |-> IF roles[p] \in Roles THEN roles[p] ELSE "none"]

Apply ==
    /\ call.at = "none" /\ applies < MaxApplies /\ Chosen # NoRoles
    /\ call' = [at |-> "sent", roles |-> Chosen] /\ applies' = applies + 1
    /\ UNCHANGED <<wan, up, bridged, stored, ok, hidden, roles>>

\* The uplink guard of configure_services, on the router's own routing table.
Guarded(r) == [p \in Ports |-> IF p \in Uplinks THEN "none" ELSE r[p]]

\* An empty summary falls back to the roles of the request.
Store(applied) == IF applied = NoRoles THEN call.roles ELSE applied

\* Every command runs by itself: some may fail, and the read-back tells.
Steps(plan) == {b \in [Ports -> Roles \cup {"none"}] : \A p \in Ports : b[p] \in {plan[p], bridged[p]}}

ServeApply ==
    /\ call.at = "sent" /\ call' = [call EXCEPT !.at = "done"]
    /\ bridged' \in Steps(Guarded(call.roles))
    /\ stored' = Store(Guarded(call.roles)) /\ ok' = (bridged' = Guarded(call.roles))
    /\ UNCHANGED <<wan, up, hidden, roles, applies>>

\* The router is not reached: nothing is stored.
Unreachable ==
    /\ call.at = "sent" /\ call' = [call EXCEPT !.at = "failed"]
    /\ UNCHANGED <<wan, up, bridged, stored, ok, hidden, roles, applies>>

Answered ==
    /\ call.at \in {"done", "failed"} /\ call' = NoCall
    /\ UNCHANGED <<wan, up, bridged, stored, ok, hidden, roles, applies>>

\* The page of the device is opened again.
Reopen ==
    /\ call.at = "none" /\ hidden' = {} /\ roles' = Seed(stored)
    /\ UNCHANGED <<wan, up, bridged, stored, ok, call, applies>>

Next ==
    \/ Rewire \/ LineDown \/ Load \/ SetRole \/ Apply \/ ServeApply \/ Unreachable
    \/ Answered \/ Reopen

Spec == Init /\ [][Next]_vars

-----------------------------------------------------------------------------
\* configure_services: "Never bridge the internet feed into a service bridge,
\* whatever the caller asked for."
FeedStaysOffBridge == bridged[wan] = "none"

\* A port that serves subscribers is shown with its service, once the apply
\* was reported complete.
AppliedIsShown == ok => \A p \in Ports : bridged[p] # "none" => stored[p] = bridged[p]

-----------------------------------------------------------------------------
\* Said in the sources and not so in the code: no run checks what follows, and
\* the README tells how each of them is broken.

\* device_configure_services stores "the real applied services/ports/roles".
ShownIsApplied == ok => \A p \in Ports : stored[p] # "none" => bridged[p] = stored[p]
=============================================================================
