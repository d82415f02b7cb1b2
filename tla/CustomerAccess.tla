--------------------------- MODULE CustomerAccess ---------------------------
(***************************************************************************)
(* The life of a subscriber account and of the credentials that let its    *)
(* router or phone online: rows in the FreeRADIUS tables, keyed by login   *)
(* name, and WireGuard peers.  Every API operation, and the nightly jobs,  *)
(* that change either one is an action.  Each is one database transaction  *)
(* here; PaymentSettlement takes the concurrent ones apart.                *)
(*                                                                         *)
(* One tenant: a radius_login is looked up within the tenant's isp_id, and *)
(* emails, unique across tenants, are those of its accounts.               *)
(***************************************************************************)
EXTENDS Naturals, TLC

CONSTANTS
    Customers,    \* customer ids
    Names,        \* values an email or a radius_login may have
    Plans,        \* service plans
    PlanType,     \* [Plans -> {"hotspot", "pppoe", "wireguard"}]
    Period,       \* what plan_subscription_end adds for a plan
    Retention,    \* isps.data_retention_days
    MaxTime,      \* bound: the last instant of the clock
    MaxEnd,       \* bound: activations that would stack further are not explored
    NoName,       \* email or radius_login is NULL
    NoPlan,       \* service_plan_id is NULL
    NoRows        \* a login name has no rows in the RADIUS tables

ASSUME CustomerAssumption ==
    /\ PlanType \in [Plans -> {"hotspot", "pppoe", "wireguard"}]
    /\ Period \in Nat \ {0} /\ Retention \in Nat
    /\ MaxTime \in Nat /\ MaxEnd \in Nat
    /\ NoName \notin Names /\ NoPlan \notin Plans
    /\ NoRows \notin [owner : Customers, plan : Plans, expires : Nat]

\* PlanType in the runs: each plan is named by its type.
TypeIsName == [p \in Plans |-> p]

\* Accounts and names are interchangeable.
Symmetry == Permutations(Customers) \cup Permutations(Names)

VARIABLES
    now,       \* datetime.utcnow()
    account,   \* the customers table
    radius,    \* radcheck, radreply and radusergroup rows, by login name
    peers,     \* customers with a row in wireguard_peers
    receipts   \* customers with a row in transactions, for a payment of theirs

vars == <<now, account, radius, peers, receipts>>

\* subscription_end IS NULL; as an Expiration: no such row, no cut-off.
NoEnd == 0

Status == {"ACTIVE", "SUSPENDED", "PENDING"}
Type == {"hotspot", "pppoe", "wireguard"}

\* Bound: an account without a plan has the type of one of the plans.
OfferedTypes == {PlanType[p] : p \in Plans}

Account ==
    [exists : BOOLEAN, status : Status, email : Names \cup {NoName},
     login : Names \cup {NoName}, plan : Plans \cup {NoPlan}, type : Type, end : Nat]

Rows == [owner : Customers, plan : Plans, expires : Nat]

Deleted == [exists |-> FALSE, status |-> "PENDING", email |-> NoName, login |-> NoName,
            plan |-> NoPlan, type |-> "pppoe", end |-> NoEnd]

\* The columns of customers, the RADIUS tables and wireguard_peers hold what the
\* code puts there.
TypeOK ==
    /\ now \in Nat
    /\ account \in [Customers -> Account]
    /\ radius \in [Names \cup {NoName} -> Rows \cup {NoRows}]
    /\ peers \subseteq Customers /\ receipts \subseteq Customers

Init ==
    /\ now = 1
    /\ account = [c \in Customers |-> Deleted]
    /\ radius = [n \in Names \cup {NoName} |-> NoRows]
    /\ peers = {} /\ receipts = {}

-----------------------------------------------------------------------------
(*                    Logins and credentials                               *)

\* radius_username: the operator-set login, else the email.
Username(a) == IF a.login # NoName THEN a.login ELSE a.email

EmailTaken(c, e) ==
    \E d \in Customers \ {c} : account[d].exists /\ account[d].email = e

\* find_customer_by_login: an email counts only where there is no radius_login.
LoginMatches(n) ==
    {d \in Customers : account[d].exists /\ n = Username(account[d])}

\* The lookup returns the first match, and a match with the caller itself
\* is no clash.  The edited email has been flushed by then.
LoginFree(c, e, n) ==
    \/ LoginMatches(n) \ {c} = {}
    \/ n = Username([account[c] EXCEPT !.email = e])

\* plan_subscription_end, stacked on what is left.
SubscriptionEnd(end) == (IF end > now THEN end ELSE now) + Period

\* provision_customer_radius: replace whatever rows the login name has.
ProvisionRadius(c, a, p) ==
    [radius EXCEPT ![Username(a)] = [owner |-> c, plan |-> p, expires |-> a.end]]

\* Faulty variant: rows written under the email are not found.
DeprovisionByLogin(a) ==
    IF a.login # NoName THEN [radius EXCEPT ![a.login] = NoRows] ELSE radius

DeprovisionRadius(a) == [radius EXCEPT ![Username(a)] = NoRows]

\* Credentials of the kind the plan calls for; those of the other kind stay.
GrantAccess(c, a, p) ==
    IF PlanType[p] = "wireguard"
    THEN radius' = radius /\ peers' = peers \cup {c}
    ELSE radius' = ProvisionRadius(c, a, p) /\ peers' = peers

\* Faulty variant: a WireGuard subscriber keeps the peer.
RevokeRadiusOnly(c, a) ==
    /\ radius' = DeprovisionRadius(a)
    /\ peers' = peers

RevokeAccess(c, a) ==
    /\ radius' = DeprovisionRadius(a)
    /\ peers' = peers \ {c}

\* activate_customer_after_payment; without a plan only the status changes.
Activated(a) ==
    IF a.plan = NoPlan THEN [a EXCEPT !.status = "ACTIVE"]
    ELSE [a EXCEPT !.status = "ACTIVE", !.end = SubscriptionEnd(a.end), !.type = PlanType[a.plan]]

\* The account as the caller has left it is activated.
ActivateAs(c, before) ==
    LET a == Activated(before) IN
    /\ a.end <= MaxEnd
    /\ account' = [account EXCEPT ![c] = a]
    /\ IF a.plan = NoPlan THEN UNCHANGED <<radius, peers>> ELSE GrantAccess(c, a, a.plan)

Activate(c) == ActivateAs(c, account[c])

\* suspend_customer_access.
Suspend(c) ==
    /\ account' = [account EXCEPT ![c].status = "SUSPENDED"]
    /\ RevokeAccess(c, account[c])

-----------------------------------------------------------------------------
(*                         Creating an account                             *)

\* POST /api/billing/customers: the email is the login, active at once.
BillingCreate(c, e, p) ==
    LET a == [exists |-> TRUE, status |-> "ACTIVE", email |-> e, login |-> NoName,
              plan |-> p, type |-> PlanType[p], end |-> now + Period]
    IN
    /\ ~account[c].exists /\ ~EmailTaken(c, e)
    /\ account' = [account EXCEPT ![c] = a]
    /\ GrantAccess(c, a, p)
    /\ UNCHANGED <<now, receipts>>

\* POST /api/customers: with an email, a connection username, or both.  An
\* active client with a plan is provisioned; anyone else only gets a row.
CreateClient(c, e, l, st, p, type) ==
    LET starts == st = "ACTIVE" /\ p # NoPlan
        a == [exists |-> TRUE, status |-> st, email |-> e, login |-> l, plan |-> p,
              type |-> type, end |-> IF starts THEN now + Period ELSE NoEnd]
    IN
    /\ ~account[c].exists
    /\ e # NoName \/ l # NoName
    /\ e # NoName => ~EmailTaken(c, e)
    /\ l # NoName => LoginMatches(l) = {}
    /\ p # NoPlan => type = PlanType[p]
    /\ p = NoPlan /\ type = "hotspot" => st # "ACTIVE"
    /\ account' = [account EXCEPT ![c] = a]
    /\ IF starts THEN GrantAccess(c, a, p) ELSE UNCHANGED <<radius, peers>>
    /\ UNCHANGED <<now, receipts>>

\* find_or_create_hotspot_customer: a known guest has the plan changed under it,
\* a new one waits for the payment.
IsGuest(c, e) == IF account[c].exists THEN account[c].email = e ELSE ~EmailTaken(c, e)

Guest(c, e, p) ==
    LET known == IF account[c].exists THEN account[c]
                 ELSE [Deleted EXCEPT !.exists = TRUE, !.email = e]
    IN  [known EXCEPT !.plan = p, !.type = "hotspot"]

\* purchase_hotspot_package, on the captive portal.
PortalPurchase(c, e, p) ==
    /\ PlanType[p] = "hotspot" /\ IsGuest(c, e)
    /\ account' = [account EXCEPT ![c] = Guest(c, e, p)]
    /\ UNCHANGED <<now, radius, peers, receipts>>

\* redeem_hotspot_voucher activates the guest at once.
RedeemVoucher(c, e, p) ==
    /\ IsGuest(c, e)
    /\ ActivateAs(c, Guest(c, e, p))
    /\ UNCHANGED <<now, receipts>>

\* renew_pppoe_package: the account is looked up by its details or by its RADIUS
\* rows, and the plan is changed before the payment is asked for.
PortalRenew(c, p) ==
    /\ account[c].exists
    /\ \/ account[c].type = "pppoe"
       \/ \E n \in Names : radius[n] # NoRows /\ radius[n].owner = c
    /\ p = account[c].plan \/ PlanType[p] = "pppoe"
    /\ account' = [account EXCEPT ![c].plan = p, ![c].type = "pppoe"]
    /\ UNCHANGED <<now, radius, peers, receipts>>

\* complete_successful_payment, when the prompt is confirmed.
ConfirmPayment(c) ==
    /\ account[c].exists
    /\ Activate(c)
    /\ receipts' = receipts \cup {c}
    /\ UNCHANGED now

-----------------------------------------------------------------------------
(*                         Editing an account                              *)

\* sync_customer_radius_status, on the account as edited and the rows left.
SyncRadius(c, a, rows) ==
    \/ /\ a.status \in {"SUSPENDED", "PENDING"}
       /\ radius' = [rows EXCEPT ![Username(a)] = NoRows]
       /\ peers' = peers \ {c}
    \/ /\ a.status = "ACTIVE" /\ a.plan # NoPlan
       /\ IF PlanType[a.plan] = "wireguard"
          THEN radius' = rows /\ peers' = peers \cup {c}
          ELSE /\ radius' = [rows EXCEPT ![Username(a)] =
                                [owner |-> c, plan |-> a.plan, expires |-> a.end]]
               /\ peers' = peers
    \/ /\ a.status = "ACTIVE" /\ a.plan = NoPlan
       /\ radius' = rows /\ peers' = peers

\* Provisioning a peer makes the account a WireGuard one.
Synced(a) ==
    IF a.status = "ACTIVE" /\ a.plan # NoPlan /\ PlanType[a.plan] = "wireguard"
    THEN [a EXCEPT !.type = "wireguard"] ELSE a

\* Faulty variant: the rows are removed after the login has changed.
RenamedRowsTooLate(old, a) ==
    IF Username(a) # Username(old) THEN DeprovisionRadius(a) ELSE radius

\* The rows left when the login of an account changes.
RenamedRows(old, a) ==
    IF Username(a) # Username(old) THEN DeprovisionRadius(old) ELSE radius

\* PUT /api/customers/<id>.  Renaming the login removes the rows of the old
\* name first; a new status, plan or login brings the credentials in line.
EditClient(c, e, l, st, p, planGiven) ==
    LET old == account[c]
        a == [old EXCEPT !.email = e, !.login = l, !.status = st, !.plan = p]
        renamed == Username(a) # Username(old)
        rows == RenamedRows(old, a)
        synced == st # old.status \/ planGiven \/ renamed
    IN
    /\ old.exists
    /\ planGiven \/ p = old.plan
    /\ e # NoName => ~EmailTaken(c, e)
    /\ l # NoName /\ l # old.login => LoginFree(c, e, l)
    /\ e # NoName \/ l # NoName
    /\ account' = [account EXCEPT ![c] = IF synced THEN Synced(a) ELSE a]
    /\ IF synced THEN SyncRadius(c, a, rows) ELSE UNCHANGED <<radius, peers>>
    /\ UNCHANGED <<now, receipts>>

\* PUT /api/customers/<id>/status.
SetStatus(c, st) ==
    LET a == [account[c] EXCEPT !.status = st] IN
    /\ account[c].exists /\ st # account[c].status
    /\ account' = [account EXCEPT ![c] = Synced(a)]
    /\ SyncRadius(c, a, radius)
    /\ UNCHANGED <<now, receipts>>

\* PUT /api/billing/customers/<id> with a new plan: RADIUS rows are written
\* whatever the status of the account and the type of the plan.
BillingChangePlan(c, p) ==
    /\ account[c].exists
    /\ account' = [account EXCEPT ![c].plan = p]
    /\ radius' = ProvisionRadius(c, account[c], p)
    /\ UNCHANGED <<now, peers, receipts>>

-----------------------------------------------------------------------------
(*                     Cutting off and letting on                          *)

\* POST /api/customers/<id>/connect and POST /api/billing/customers/<id>/activate:
\* both run the activation of a payment, so the subscription is extended too.
Connect(c) ==
    /\ account[c].exists /\ account[c].type \in {"pppoe", "hotspot"}
    /\ account[c].status # "ACTIVE" /\ account[c].plan # NoPlan
    /\ Activate(c)
    /\ UNCHANGED <<now, receipts>>

BillingActivate(c) ==
    /\ account[c].exists /\ account[c].status # "ACTIVE"
    /\ Activate(c)
    /\ UNCHANGED <<now, receipts>>

\* POST /api/customers/<id>/disconnect and POST /api/billing/customers/<id>/suspend.
Disconnect(c) ==
    /\ account[c].exists /\ account[c].type \in {"pppoe", "hotspot"}
    /\ account[c].status # "SUSPENDED"
    /\ Suspend(c)
    /\ UNCHANGED <<now, receipts>>

BillingSuspend(c) ==
    /\ account[c].exists /\ account[c].status # "SUSPENDED"
    /\ Suspend(c)
    /\ UNCHANGED <<now, receipts>>

\* enforce_expired_subscriptions, one transaction for all of them.
Expired == {c \in Customers : /\ account[c].exists /\ account[c].status = "ACTIVE"
                              /\ account[c].end # NoEnd /\ account[c].end < now}

EnforceExpiry ==
    /\ Expired # {}
    /\ account' = [c \in Customers |->
          IF c \in Expired THEN [account[c] EXCEPT !.status = "SUSPENDED"] ELSE account[c]]
    /\ radius' = [n \in Names \cup {NoName} |->
          IF \E c \in Expired : Username(account[c]) = n THEN NoRows ELSE radius[n]]
    /\ peers' = peers \ Expired
    /\ UNCHANGED <<now, receipts>>

-----------------------------------------------------------------------------
(*             Rewriting credentials, deleting accounts                    *)

\* Faulty variant: an account without a plan is provisioned too.
ResetWithoutPlan(c) ==
    /\ account[c].exists /\ account[c].type \in {"pppoe", "hotspot"}
    /\ account[c].status = "ACTIVE"
    /\ radius' = ProvisionRadius(c, account[c], account[c].plan)
    /\ UNCHANGED <<now, account, peers, receipts>>

\* POST /api/customers/<id>/radius-credentials/reset.
ResetCredentials(c) ==
    /\ account[c].exists /\ account[c].type \in {"pppoe", "hotspot"}
    /\ account[c].status = "ACTIVE" /\ account[c].plan # NoPlan
    /\ radius' = ProvisionRadius(c, account[c], account[c].plan)
    /\ UNCHANGED <<now, account, peers, receipts>>

\* PUT /api/plans/<id>, RADIUS branch.  The customers are gone through one by
\* one, so where two share a login name the later one has the rows.
OnPlan(p) == {c \in Customers : /\ account[c].exists /\ account[c].plan = p
                                /\ account[c].status = "ACTIVE"}

ReprovisionPlan(p) ==
    LET onPlan == OnPlan(p)
        names == {Username(account[c]) : c \in onPlan}
    IN
    /\ PlanType[p] # "wireguard" /\ onPlan # {}
    /\ \E last \in [names -> onPlan] :
          /\ \A n \in names : Username(account[last[n]]) = n
          /\ radius' = [n \in Names \cup {NoName} |->
                IF n \in names
                THEN [owner |-> last[n], plan |-> p, expires |-> account[last[n]].end]
                ELSE radius[n]]
    /\ UNCHANGED <<now, account, peers, receipts>>

\* POST /api/wireguard/customers/<id>/provision and DELETE /api/wireguard/peers/<id>.
ProvisionPeer(c) ==
    /\ account[c].exists /\ account[c].plan # NoPlan
    /\ PlanType[account[c].plan] = "wireguard"
    /\ account' = [account EXCEPT ![c].type = "wireguard"]
    /\ peers' = peers \cup {c}
    /\ UNCHANGED <<now, radius, receipts>>

DeletePeer(c) ==
    /\ c \in peers
    /\ peers' = peers \ {c}
    /\ UNCHANGED <<now, account, radius, receipts>>

\* Rows of the login name go first; the rows and the peer that carry the
\* customer's id go with the account (delete-orphan).
Remove(gone) ==
    /\ account' = [c \in Customers |-> IF c \in gone THEN Deleted ELSE account[c]]
    /\ radius' = [n \in Names \cup {NoName} |->
          IF \/ \E c \in gone : Username(account[c]) = n
             \/ radius[n] # NoRows /\ radius[n].owner \in gone
          THEN NoRows ELSE radius[n]]
    /\ peers' = peers \ gone
    /\ receipts' = receipts \ gone

\* DELETE /api/customers/<id>, DELETE /api/billing/customers/<id>, bulk delete.
DeleteClients(gone) ==
    /\ gone # {} /\ \A c \in gone : account[c].exists
    /\ Remove(gone)
    /\ UNCHANGED now

\* purge_expired_data: hotspot accounts that ran out before the retention window, in
\* one transaction.  Their payments are deleted in bulk, without the cascade, so a
\* single one that a transactions row refers to fails the whole run.
PurgeHotspot ==
    LET old == {c \in Customers : /\ account[c].exists /\ account[c].type = "hotspot"
                                  /\ account[c].end # NoEnd /\ account[c].end + Retention < now}
    IN
    /\ old # {} /\ old \cap receipts = {}
    /\ Remove(old)
    /\ UNCHANGED now

Tick ==
    /\ now < MaxTime
    /\ now' = now + 1
    /\ UNCHANGED <<account, radius, peers, receipts>>

-----------------------------------------------------------------------------
Create ==
    \E c \in Customers, p \in Plans :
        \/ \E e \in Names : \/ BillingCreate(c, e, p)
                          \/ PortalPurchase(c, e, p) \/ RedeemVoucher(c, e, p)
        \/ PortalRenew(c, p) \/ BillingChangePlan(c, p)

Edit ==
    \E c \in Customers, st \in Status, e \in Names \cup {NoName}, l \in Names \cup {NoName},
       p \in Plans \cup {NoPlan} :
        \/ \E type \in OfferedTypes : CreateClient(c, e, l, st, p, type)
        \/ \E planGiven \in BOOLEAN : EditClient(c, e, l, st, p, planGiven)

Switch ==
    \E c \in Customers :
        \/ \E st \in Status : SetStatus(c, st)
        \/ ConfirmPayment(c) \/ Connect(c) \/ BillingActivate(c)
        \/ Disconnect(c) \/ BillingSuspend(c)
        \/ ResetCredentials(c) \/ ProvisionPeer(c) \/ DeletePeer(c)

Next ==
    \/ Create \/ Edit \/ Switch
    \/ \E p \in Plans : ReprovisionPlan(p)
    \/ \E gone \in SUBSET Customers : DeleteClients(gone)
    \/ EnforceExpiry \/ PurgeHotspot \/ Tick

Spec == Init /\ [][Next]_vars

-----------------------------------------------------------------------------
\* No credential outlives its account or the name it was issued for: the rows
\* under a login name belong to an account that exists and has that login.
\* Renames, deletions, imports of a name already in use and plan-wide
\* reprovisioning all move rows, and each must leave this true.
CredentialsBelongToLogin ==
    \A n \in Names \cup {NoName} :
        radius[n] # NoRows =>
            LET a == account[radius[n].owner] IN a.exists /\ Username(a) = n

\* Whichever of the operations suspends or deletes an account, nothing that
\* lets it online is left: no rows under its login name, none issued to it,
\* no peer.
RevocationIsComplete ==
    [][\A c \in Customers :
          \/ account[c].status = "ACTIVE" /\ account'[c].status = "SUSPENDED"
          \/ account[c].exists /\ ~account'[c].exists
          => /\ c \notin peers'
             /\ \A n \in Names \cup {NoName} : radius'[n] # NoRows => radius'[n].owner # c]_vars

\* "Non-active subscribers have no RADIUS rows" (fup_enforcement).
NonActiveHasNoRows ==
    \A n \in Names \cup {NoName} :
        radius[n] # NoRows => account[radius[n].owner].status = "ACTIVE"

\* "so an email can't shadow someone else's login" (find_customer_by_login).
UsernamesAreUnique ==
    \A c, d \in Customers :
        account[c].exists /\ account[d].exists /\ c # d
            => Username(account[c]) # Username(account[d])
=============================================================================
