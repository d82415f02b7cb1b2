----------------------- MODULE CustomerAccess_proofs -----------------------
(***************************************************************************)
(* For any number of accounts, names and plans: the types of               *)
(* CustomerAccess hold, every RADIUS row belongs to an account that exists *)
(* and has the login the row is for, and an operation that cuts an account *)
(* off leaves it no credentials.                                           *)
(***************************************************************************)
EXTENDS CustomerAccess, TLAPS

Logins == Names \cup {NoName}

\* What NoName, NoPlan and NoRows are told apart by is not needed below, only
\* that Period is a number and PlanType a kind of connection.
LEMMA ConstantTypes ==
    /\ Period \in Nat
    /\ \A p \in Plans : PlanType[p] \in Type
    /\ NoRows \notin Rows
BY CustomerAssumption DEF Type, Rows

\* A login is an email, a radius_login or neither.
LEMMA UsernameIsLogin ==
    ASSUME NEW a \in Account
    PROVE  Username(a) \in Logins
BY DEF Username, Account, Logins

\* Activation keeps the type of an account, its existence and its login.
LEMMA ActivatedKeepsLogin ==
    ASSUME now \in Nat, NEW a \in Account
    PROVE  /\ Activated(a) \in Account
           /\ Activated(a).exists = a.exists
           /\ Username(Activated(a)) = Username(a)
<1>1. CASE a.plan = NoPlan
  BY <1>1 DEF Activated, Account, Username, Status
<1>2. CASE a.plan # NoPlan
  <2>1. a.plan \in Plans /\ PlanType[a.plan] \in Type
    BY <1>2, ConstantTypes DEF Account
  <2>2. SubscriptionEnd(a.end) \in Nat
    BY ConstantTypes DEF SubscriptionEnd, Account
  <2> QED
    BY <1>2, <2>1, <2>2 DEF Activated, Account, Username, Status
<1> QED
  BY <1>1, <1>2

\* What granting credentials does to the tables.
LEMMA GrantWrites ==
    ASSUME TypeOK, NEW c \in Customers, NEW a \in Account, NEW p \in Plans,
           GrantAccess(c, a, p)
    PROVE  /\ radius' \in [Logins -> Rows \cup {NoRows}]
           /\ peers' \subseteq Customers
           /\ \A n \in Logins :
                 \/ radius'[n] = radius[n]
                 \/ n = Username(a) /\ radius'[n].owner = c
<1>1. CASE PlanType[p] = "wireguard"
  BY <1>1 DEF GrantAccess, TypeOK, Logins
<1>2. CASE PlanType[p] # "wireguard"
  <2>1. [owner |-> c, plan |-> p, expires |-> a.end] \in Rows
    BY DEF Rows, Account
  <2> QED
    BY <1>2, <2>1, UsernameIsLogin DEF GrantAccess, ProvisionRadius, TypeOK, Logins
<1> QED
  BY <1>1, <1>2

\* What taking them away does.
LEMMA RevokeWrites ==
    ASSUME TypeOK, NEW c \in Customers, NEW a \in Account, RevokeAccess(c, a)
    PROVE  /\ radius' \in [Logins -> Rows \cup {NoRows}]
           /\ peers' \subseteq Customers
           /\ \A n \in Logins : radius'[n] \in {radius[n], NoRows}
BY DEF RevokeAccess, DeprovisionRadius, TypeOK, Logins

-----------------------------------------------------------------------------
(* Most operations keep the login of every account there is, and write     *)
(* rows, if any, under the login of the account they are for.              *)

NamesKept ==
    \A d \in Customers :
        account[d].exists => account'[d].exists /\ Username(account'[d]) = Username(account[d])

RowsOwned ==
    \A n \in Logins :
        \/ radius'[n] \in {radius[n], NoRows}
        \/ /\ radius'[n].owner \in Customers
           /\ account'[radius'[n].owner].exists
           /\ Username(account'[radius'[n].owner]) = n

\* Operations of this kind leave every row with its owner.
LEMMA KeptAndOwned ==
    ASSUME TypeOK, CredentialsBelongToLogin, NamesKept, RowsOwned
    PROVE  CredentialsBelongToLogin'
<1> SUFFICES ASSUME NEW n \in Logins, radius'[n] # NoRows
             PROVE  /\ account'[radius'[n].owner].exists
                    /\ Username(account'[radius'[n].owner]) = n
  BY DEF CredentialsBelongToLogin, Logins, Username
<1>1. CASE radius'[n] = radius[n]
  <2>1. /\ radius[n].owner \in Customers
        /\ account[radius[n].owner].exists
        /\ Username(account[radius[n].owner]) = n
    BY <1>1 DEF TypeOK, CredentialsBelongToLogin, Logins, Rows
  <2> QED
    BY <1>1, <2>1 DEF NamesKept
<1> QED
  BY <1>1 DEF RowsOwned

\* An operation that rewrites one account and grants it access under its login.
LEMMA GrantedStep ==
    ASSUME TypeOK, NEW c \in Customers, NEW a \in Account, NEW p \in Plans,
           a.exists,
           account[c].exists => Username(a) = Username(account[c]),
           account' = [account EXCEPT ![c] = a],
           GrantAccess(c, a, p)
    PROVE  NamesKept /\ RowsOwned
<1>1. account'[c] = a /\ \A d \in Customers \ {c} : account'[d] = account[d]
  BY DEF TypeOK
<1>2. NamesKept
  BY <1>1 DEF NamesKept
<1>3. RowsOwned
  BY <1>1, GrantWrites DEF RowsOwned
<1> QED
  BY <1>2, <1>3

\* One that rewrites an account and at most takes rows away.
LEMMA RewrittenStep ==
    ASSUME TypeOK, NEW c \in Customers, NEW a \in Account,
           account[c].exists => a.exists /\ Username(a) = Username(account[c]),
           account' = [account EXCEPT ![c] = a],
           \A n \in Logins : radius'[n] \in {radius[n], NoRows}
    PROVE  NamesKept /\ RowsOwned
BY DEF TypeOK, NamesKept, RowsOwned

\* The part an operation that runs an activation has in common with the others.
LEMMA ActivateStep ==
    ASSUME TypeOK, NEW c \in Customers, NEW b \in Account, b.exists,
           account[c].exists => Username(b) = Username(account[c]),
           ActivateAs(c, b)
    PROVE  /\ account' \in [Customers -> Account]
           /\ radius' \in [Logins -> Rows \cup {NoRows}]
           /\ peers' \subseteq Customers
           /\ NamesKept /\ RowsOwned
<1> DEFINE a == Activated(b)
<1>1. a \in Account /\ a.exists /\ Username(a) = Username(b)
  BY ActivatedKeepsLogin DEF TypeOK
<1>2. account' = [account EXCEPT ![c] = a]
  BY DEF ActivateAs
<1>3. account' \in [Customers -> Account]
  BY <1>1, <1>2 DEF TypeOK
<1>4. CASE b.plan = NoPlan
  <2>1. a.plan = NoPlan
    BY <1>4 DEF Activated, Account
  <2>2. radius' = radius /\ peers' = peers
    BY <2>1 DEF ActivateAs
  <2> HIDE DEF a
  <2>3. NamesKept /\ RowsOwned
    BY <1>1, <1>2, <2>2, RewrittenStep
  <2> QED
    BY <1>3, <2>2, <2>3 DEF TypeOK, Logins
<1>5. CASE b.plan # NoPlan
  <2>1. a.plan = b.plan /\ b.plan \in Plans
    BY <1>5 DEF Activated, Account
  <2>2. GrantAccess(c, a, a.plan)
    BY <1>5, <2>1 DEF ActivateAs
  <2> HIDE DEF a
  <2>3. NamesKept /\ RowsOwned
    BY <1>1, <1>2, <2>1, <2>2, GrantedStep
  <2> QED
    BY <1>1, <1>3, <2>1, <2>2, <2>3, GrantWrites
<1> QED
  BY <1>4, <1>5

\* Bringing the credentials of an account in line with its status.
LEMMA SyncWrites ==
    ASSUME TypeOK, NEW c \in Customers, NEW a \in Account,
           NEW rows \in [Logins -> Rows \cup {NoRows}],
           SyncRadius(c, a, rows)
    PROVE  /\ radius' \in [Logins -> Rows \cup {NoRows}]
           /\ peers' \subseteq Customers
           /\ \A n \in Logins :
                 \/ radius'[n] \in {rows[n], NoRows}
                 \/ n = Username(a) /\ radius'[n].owner = c
<1>1. Username(a) \in Logins
  BY UsernameIsLogin
<1>2. a.plan # NoPlan => [owner |-> c, plan |-> a.plan, expires |-> a.end] \in Rows
  BY DEF Rows, Account
<1> QED
  BY <1>1, <1>2 DEF SyncRadius, TypeOK

\* Turning an account into a WireGuard one keeps its login.
LEMMA SyncedKeepsLogin ==
    ASSUME NEW a \in Account
    PROVE  Synced(a) \in Account /\ Synced(a).exists = a.exists /\ Username(Synced(a)) = Username(a)
BY DEF Synced, Account, Type, Username

-----------------------------------------------------------------------------
(*                         Creating an account                             *)

\* A guest, known or new, is an account.
LEMMA GuestIsAccount ==
    ASSUME TypeOK, NEW c \in Customers, NEW e \in Names, NEW p \in Plans
    PROVE  Guest(c, e, p) \in Account /\ Guest(c, e, p).exists
<1> DEFINE new == [Deleted EXCEPT !.exists = TRUE, !.email = e]
<1>1. new \in Account /\ new.exists
  BY DEF Deleted, Account, Status, Type, NoEnd
<1>2. account[c] \in Account
  BY DEF TypeOK
<1>3. ASSUME NEW a \in Account, a.exists
      PROVE  [a EXCEPT !.plan = p, !.type = "hotspot"] \in
                {b \in Account : b.exists}
  BY <1>3 DEF Account, Type
<1> QED
  BY <1>1, <1>2, <1>3 DEF Guest

\* Billing, the portals and vouchers.
LEMMA CreateStep ==
    ASSUME TypeOK, NEW c \in Customers, NEW p \in Plans, NEW e \in Names,
           BillingCreate(c, e, p) \/ PortalPurchase(c, e, p) \/ RedeemVoucher(c, e, p)
    PROVE  TypeOK' /\ NamesKept /\ RowsOwned
<1>1. now' = now /\ receipts' = receipts
  BY DEF BillingCreate, PortalPurchase, RedeemVoucher
<1>2. IsGuest(c, e) => /\ Guest(c, e, p) \in Account /\ Guest(c, e, p).exists
                       /\ account[c].exists => Username(Guest(c, e, p)) = Username(account[c])
  <2>1. IsGuest(c, e) /\ account[c].exists => Username(Guest(c, e, p)) = Username(account[c])
    BY DEF Guest, TypeOK, Account, Username
  <2> QED
    BY <2>1, GuestIsAccount
<1>3. CASE BillingCreate(c, e, p)
  <2> DEFINE a == [exists |-> TRUE, status |-> "ACTIVE", email |-> e, login |-> NoName,
                   plan |-> p, type |-> PlanType[p], end |-> now + Period]
  <2>1. a \in Account /\ a.exists
    BY ConstantTypes DEF TypeOK, Account, Status
  <2>2. ~account[c].exists /\ account' = [account EXCEPT ![c] = a] /\ GrantAccess(c, a, p)
    BY <1>3 DEF BillingCreate
  <2> HIDE DEF a
  <2>3. NamesKept /\ RowsOwned
    BY <2>1, <2>2, GrantedStep
  <2> QED
    BY <1>1, <2>1, <2>2, <2>3, GrantWrites DEF TypeOK, Logins
<1>4. CASE PortalPurchase(c, e, p)
  <2>1. /\ IsGuest(c, e) /\ account' = [account EXCEPT ![c] = Guest(c, e, p)]
        /\ radius' = radius /\ peers' = peers
    BY <1>4 DEF PortalPurchase
  <2>2. NamesKept /\ RowsOwned
    BY <1>2, <2>1, RewrittenStep
  <2> QED
    BY <1>1, <1>2, <2>1, <2>2 DEF TypeOK
<1>5. CASE RedeemVoucher(c, e, p)
  <2>1. IsGuest(c, e) /\ ActivateAs(c, Guest(c, e, p))
    BY <1>5 DEF RedeemVoucher
  <2>2. /\ account' \in [Customers -> Account]
        /\ radius' \in [Logins -> Rows \cup {NoRows}]
        /\ peers' \subseteq Customers
        /\ NamesKept /\ RowsOwned
    BY <1>2, <2>1, ActivateStep
  <2> QED
    BY <1>1, <2>2 DEF TypeOK, Logins
<1> QED
  BY <1>3, <1>4, <1>5

\* The console form, with or without access.
LEMMA CreateClientStep ==
    ASSUME TypeOK, NEW c \in Customers, NEW e \in Logins, NEW l \in Logins, NEW st \in Status,
           NEW p \in Plans \cup {NoPlan}, NEW type \in Type,
           CreateClient(c, e, l, st, p, type)
    PROVE  TypeOK' /\ NamesKept /\ RowsOwned
<1> DEFINE starts == st = "ACTIVE" /\ p # NoPlan
           a == [exists |-> TRUE, status |-> st, email |-> e, login |-> l, plan |-> p,
                 type |-> type, end |-> IF starts THEN now + Period ELSE NoEnd]
<1>1. a \in Account /\ a.exists
  BY ConstantTypes DEF TypeOK, Account, Status, NoEnd, Logins
<1>2. /\ ~account[c].exists /\ account' = [account EXCEPT ![c] = a]
      /\ now' = now /\ receipts' = receipts
  BY DEF CreateClient
<1>3. CASE starts
  <2>1. p \in Plans /\ GrantAccess(c, a, p)
    BY <1>3 DEF CreateClient
  <2> HIDE DEF a
  <2>2. NamesKept /\ RowsOwned
    BY <1>1, <1>2, <2>1, GrantedStep
  <2> QED
    BY <1>1, <1>2, <2>1, <2>2, GrantWrites DEF TypeOK, Logins
<1>4. CASE ~starts
  <2>1. radius' = radius /\ peers' = peers
    BY <1>4 DEF CreateClient
  <2> HIDE DEF a
  <2>2. NamesKept /\ RowsOwned
    BY <1>1, <1>2, <2>1, RewrittenStep
  <2> QED
    BY <1>1, <1>2, <2>1, <2>2 DEF TypeOK
<1> QED
  BY <1>3, <1>4

\* A change of plan, which keeps the login.
LEMMA PlanStep ==
    ASSUME TypeOK, NEW c \in Customers, NEW p \in Plans,
           PortalRenew(c, p) \/ BillingChangePlan(c, p)
    PROVE  TypeOK' /\ NamesKept /\ RowsOwned
<1>1. CASE PortalRenew(c, p)
  <2>1. /\ account[c].exists
        /\ account' = [account EXCEPT ![c] = [account[c] EXCEPT !.plan = p, !.type = "pppoe"]]
        /\ UNCHANGED <<now, radius, peers, receipts>>
    BY <1>1 DEF PortalRenew, TypeOK
  <2>2. account' \in [Customers -> Account]
    <3>1. account \in [Customers -> Account] /\ account[c] \in Account
      BY DEF TypeOK
    <3>2. [account[c] EXCEPT !.plan = p, !.type = "pppoe"] \in Account
      BY <3>1 DEF Account, Type
    <3> QED
      BY <2>1, <3>1, <3>2
  <2>3. NamesKept
    BY <2>1 DEF TypeOK, Account, NamesKept, Username
  <2> QED
    BY <2>1, <2>2, <2>3 DEF TypeOK, RowsOwned
<1>2. CASE BillingChangePlan(c, p)
  <2>1. /\ account[c].exists /\ account' = [account EXCEPT ![c].plan = p]
        /\ radius' = ProvisionRadius(c, account[c], p)
        /\ UNCHANGED <<now, peers, receipts>>
    BY <1>2 DEF BillingChangePlan
  <2>2. account' \in [Customers -> Account] /\ NamesKept
    BY <2>1 DEF TypeOK, Account, NamesKept, Username
  <2>3. [owner |-> c, plan |-> p, expires |-> account[c].end] \in Rows
    BY DEF Rows, TypeOK, Account
  <2>4. radius' \in [Logins -> Rows \cup {NoRows}]
    BY <2>1, <2>3, UsernameIsLogin DEF ProvisionRadius, TypeOK, Logins
  <2>5. RowsOwned
    BY <2>1, <2>2, UsernameIsLogin DEF ProvisionRadius, TypeOK, Logins, RowsOwned, NamesKept
  <2> QED
    BY <2>1, <2>2, <2>4, <2>5 DEF TypeOK, Logins
<1> QED
  BY <1>1, <1>2

-----------------------------------------------------------------------------
(*           Editing, cutting off and letting on, reprovisioning           *)

\* A change of status.
LEMMA StatusStep ==
    ASSUME TypeOK, NEW c \in Customers, NEW st \in Status, SetStatus(c, st)
    PROVE  TypeOK' /\ NamesKept /\ RowsOwned
<1> DEFINE a == [account[c] EXCEPT !.status = st]
<1>1. a \in Account /\ a.exists /\ Username(a) = Username(account[c])
  BY DEF SetStatus, TypeOK, Account, Username
<1>2. /\ account' = [account EXCEPT ![c] = Synced(a)]
      /\ SyncRadius(c, a, radius)
      /\ now' = now /\ receipts' = receipts
  BY DEF SetStatus
<1> HIDE DEF a
<1>3. Synced(a) \in Account /\ Synced(a).exists /\ Username(Synced(a)) = Username(a)
  BY <1>1, SyncedKeepsLogin
<1>4. radius \in [Logins -> Rows \cup {NoRows}]
  BY DEF TypeOK, Logins
<1>5. /\ radius' \in [Logins -> Rows \cup {NoRows}]
      /\ peers' \subseteq Customers
      /\ \A n \in Logins :
            \/ radius'[n] \in {radius[n], NoRows}
            \/ n = Username(a) /\ radius'[n].owner = c
  BY <1>2, <1>1, <1>4, SyncWrites
<1>6. NamesKept /\ RowsOwned
  BY <1>1, <1>2, <1>3, <1>5 DEF TypeOK, NamesKept, RowsOwned
<1> QED
  BY <1>2, <1>3, <1>5, <1>6 DEF TypeOK, Logins

\* A renamed account keeps no rows under its old login.
LEMMA EditStep ==
    ASSUME TypeOK, CredentialsBelongToLogin,
           NEW c \in Customers, NEW e \in Logins, NEW l \in Logins, NEW st \in Status,
           NEW p \in Plans \cup {NoPlan}, NEW planGiven \in BOOLEAN,
           EditClient(c, e, l, st, p, planGiven)
    PROVE  TypeOK' /\ CredentialsBelongToLogin'
<1> DEFINE old == account[c]
           a == [old EXCEPT !.email = e, !.login = l, !.status = st, !.plan = p]
           renamed == Username(a) # Username(old)
           rows == RenamedRows(old, a)
           synced == st # old.status \/ planGiven \/ renamed
<1>1. old \in Account /\ old.exists /\ a \in Account /\ a.exists
  <2>1. old \in Account /\ old.exists
    BY DEF EditClient, TypeOK
  <2> QED
    BY <2>1 DEF Account, Logins
<1>2. /\ account' = [account EXCEPT ![c] = IF synced THEN Synced(a) ELSE a]
      /\ IF synced THEN SyncRadius(c, a, rows) ELSE UNCHANGED <<radius, peers>>
      /\ now' = now /\ receipts' = receipts
  BY DEF EditClient
<1>3. Username(old) \in Logins
  BY <1>1, UsernameIsLogin
<1>4. /\ rows \in [Logins -> Rows \cup {NoRows}]
      /\ \A n \in Logins : rows[n] = IF renamed /\ n = Username(old) THEN NoRows ELSE radius[n]
  BY <1>3 DEF RenamedRows, DeprovisionRadius, TypeOK, Logins
<1> HIDE DEF old, a, rows
<1>5. Synced(a) \in Account /\ Synced(a).exists /\ Username(Synced(a)) = Username(a)
  BY <1>1, SyncedKeepsLogin
<1>6. /\ account' \in [Customers -> Account]
      /\ account'[c].exists /\ Username(account'[c]) = Username(a)
      /\ \A d \in Customers \ {c} : account'[d] = account[d]
  BY <1>1, <1>2, <1>5 DEF TypeOK
<1>7. /\ radius' \in [Logins -> Rows \cup {NoRows}]
      /\ peers' \subseteq Customers
      /\ \A n \in Logins :
            \/ radius'[n] \in {rows[n], NoRows}
            \/ n = Username(a) /\ radius'[n].owner = c
  <2>1. CASE synced
    BY <2>1, <1>1, <1>2, <1>4, SyncWrites
  <2>2. CASE ~synced
    BY <2>2, <1>2, <1>4 DEF TypeOK, Logins
  <2> QED
    BY <2>1, <2>2
<1>8. ASSUME NEW n \in Logins, radius'[n] # NoRows
      PROVE  account'[radius'[n].owner].exists /\ Username(account'[radius'[n].owner]) = n
  <2>1. CASE n = Username(a) /\ radius'[n].owner = c
    BY <2>1, <1>6
  <2>2. CASE radius'[n] = rows[n]
    <3>1. radius'[n] = radius[n] /\ ~(renamed /\ n = Username(old))
      BY <1>8, <2>2, <1>4
    <3>2. /\ radius[n].owner \in Customers
          /\ account[radius[n].owner].exists /\ Username(account[radius[n].owner]) = n
      BY <1>8, <3>1 DEF CredentialsBelongToLogin, TypeOK, Rows, Logins
    <3> QED
      BY <3>1, <3>2, <1>6 DEF old
  <2> QED
    BY <1>7, <1>8, <2>1, <2>2
<1> QED
  BY <1>2, <1>6, <1>7, <1>8 DEF TypeOK, CredentialsBelongToLogin, Logins, Username

\* Activation and suspension.
LEMMA SwitchStep ==
    ASSUME TypeOK, NEW c \in Customers,
           \/ ConfirmPayment(c) \/ Connect(c) \/ BillingActivate(c)
           \/ Disconnect(c) \/ BillingSuspend(c)
    PROVE  TypeOK' /\ NamesKept /\ RowsOwned
<1>1. /\ account[c].exists /\ account[c] \in Account
      /\ now' = now /\ receipts' \subseteq Customers
  BY DEF ConfirmPayment, Connect, BillingActivate, Disconnect, BillingSuspend, TypeOK
<1>2. CASE ConfirmPayment(c) \/ Connect(c) \/ BillingActivate(c)
  <2>1. ActivateAs(c, account[c])
    BY <1>2 DEF ConfirmPayment, Connect, BillingActivate, Activate
  <2>2. /\ account' \in [Customers -> Account]
        /\ radius' \in [Logins -> Rows \cup {NoRows}]
        /\ peers' \subseteq Customers
        /\ NamesKept /\ RowsOwned
    BY <1>1, <2>1, ActivateStep
  <2> QED
    BY <1>1, <2>2 DEF TypeOK, Logins
<1>3. CASE Disconnect(c) \/ BillingSuspend(c)
  <2>1. account' = [account EXCEPT ![c].status = "SUSPENDED"] /\ RevokeAccess(c, account[c])
    BY <1>3 DEF Disconnect, BillingSuspend, Suspend
  <2>2. account' \in [Customers -> Account] /\ NamesKept
    BY <2>1 DEF TypeOK, Account, Status, NamesKept, Username
  <2>3. /\ radius' \in [Logins -> Rows \cup {NoRows}]
        /\ peers' \subseteq Customers
        /\ \A n \in Logins : radius'[n] \in {radius[n], NoRows}
    BY <1>1, <2>1, RevokeWrites
  <2> QED
    BY <1>1, <2>2, <2>3 DEF TypeOK, Logins, RowsOwned
<1> QED
  BY <1>2, <1>3

\* The expiry job writes no rows.
LEMMA EnforceStep ==
    ASSUME TypeOK, EnforceExpiry
    PROVE  TypeOK' /\ NamesKept /\ RowsOwned
<1>1. /\ account' \in [Customers -> Account]
      /\ \A d \in Customers : /\ account'[d].exists = account[d].exists
                              /\ account'[d].email = account[d].email
                              /\ account'[d].login = account[d].login
  BY DEF EnforceExpiry, TypeOK, Account, Status
<1>2. /\ radius' \in [Logins -> Rows \cup {NoRows}]
      /\ \A n \in Logins : radius'[n] \in {radius[n], NoRows}
  BY DEF EnforceExpiry, TypeOK, Logins
<1>3. peers' \subseteq Customers /\ UNCHANGED <<now, receipts>>
  BY DEF EnforceExpiry, TypeOK
<1> QED
  BY <1>1, <1>2, <1>3 DEF TypeOK, Logins, NamesKept, RowsOwned, Username

\* Rewriting the credentials of one account.
LEMMA CredentialStep ==
    ASSUME TypeOK, NEW c \in Customers,
           ResetCredentials(c) \/ ProvisionPeer(c) \/ DeletePeer(c)
    PROVE  TypeOK' /\ NamesKept /\ RowsOwned
<1>1. CASE ResetCredentials(c)
  <2>1. /\ account[c].exists /\ account[c].plan \in Plans
        /\ radius' = ProvisionRadius(c, account[c], account[c].plan)
        /\ UNCHANGED <<now, account, peers, receipts>>
    BY <1>1 DEF ResetCredentials, TypeOK, Account
  <2>2. [owner |-> c, plan |-> account[c].plan, expires |-> account[c].end] \in Rows
    BY <2>1 DEF Rows, TypeOK, Account
  <2>3. account[c] \in Account
    BY DEF TypeOK
  <2>4. radius' \in [Logins -> Rows \cup {NoRows}]
    BY <2>1, <2>2, <2>3, UsernameIsLogin DEF ProvisionRadius, TypeOK, Logins
  <2>5. NamesKept /\ RowsOwned
    BY <2>1, <2>3, UsernameIsLogin DEF ProvisionRadius, TypeOK, Logins, RowsOwned, NamesKept
  <2> QED
    BY <2>1, <2>4, <2>5 DEF TypeOK, Logins
<1>2. CASE ProvisionPeer(c)
  BY <1>2 DEF ProvisionPeer, TypeOK, Account, Type, NamesKept, RowsOwned, Username
<1>3. CASE DeletePeer(c)
  BY <1>3 DEF DeletePeer, TypeOK, NamesKept, RowsOwned
<1> QED
  BY <1>1, <1>2, <1>3

\* Accounts on a plan are gone through in any order.
LEMMA ReprovisionStep ==
    ASSUME TypeOK, NEW p \in Plans, ReprovisionPlan(p)
    PROVE  TypeOK' /\ NamesKept /\ RowsOwned
<1> DEFINE names == {Username(account[c]) : c \in OnPlan(p)}
<1>1. PICK last \in [names -> OnPlan(p)] :
          /\ \A n \in names : Username(account[last[n]]) = n
          /\ radius' = [n \in Names \cup {NoName} |->
                IF n \in names
                THEN [owner |-> last[n], plan |-> p, expires |-> account[last[n]].end]
                ELSE radius[n]]
  BY DEF ReprovisionPlan
<1>2. UNCHANGED <<now, account, peers, receipts>>
  BY DEF ReprovisionPlan
<1>3. ASSUME NEW n \in Logins
      PROVE  /\ radius'[n] \in Rows \cup {NoRows}
             /\ \/ radius'[n] = radius[n]
                \/ /\ radius'[n].owner \in Customers
                   /\ account[radius'[n].owner].exists
                   /\ Username(account[radius'[n].owner]) = n
  <2>1. CASE n \in names
    <3>1. last[n] \in Customers /\ account[last[n]].exists /\ account[last[n]].end \in Nat
      BY <1>1, <2>1 DEF OnPlan, TypeOK, Account
    <3>2. radius'[n] = [owner |-> last[n], plan |-> p, expires |-> account[last[n]].end]
      BY <1>1, <2>1 DEF Logins
    <3>3. radius'[n] \in Rows /\ radius'[n].owner = last[n]
      BY <3>1, <3>2 DEF Rows
    <3> QED
      BY <1>1, <2>1, <3>1, <3>3
  <2>2. CASE n \notin names
    BY <1>1, <2>2 DEF TypeOK, Logins
  <2> QED
    BY <2>1, <2>2
<1>4. radius' \in [Logins -> Rows \cup {NoRows}]
  BY <1>1, <1>3 DEF Logins
<1> QED
  BY <1>2, <1>3, <1>4 DEF TypeOK, Logins, NamesKept, RowsOwned

\* Whoever is deleted, the rows that stay are those of accounts that stay.
LEMMA RemoveStep ==
    ASSUME TypeOK, CredentialsBelongToLogin, NEW gone \in SUBSET Customers,
           Remove(gone), now' = now
    PROVE  TypeOK' /\ CredentialsBelongToLogin'
<1>1. Deleted \in Account
  BY DEF Deleted, Account, Status, Type, NoEnd
<1>2. /\ account' \in [Customers -> Account]
      /\ \A d \in Customers \ gone : account'[d] = account[d]
  BY <1>1 DEF Remove, TypeOK
<1>3. /\ radius' \in [Logins -> Rows \cup {NoRows}]
      /\ \A n \in Logins : radius'[n] # NoRows => radius'[n] = radius[n] /\ radius[n].owner \notin gone
  BY DEF Remove, TypeOK, Logins
<1>4. peers' \subseteq Customers /\ receipts' \subseteq Customers
  BY DEF Remove, TypeOK
<1>5. ASSUME NEW n \in Logins, radius'[n] # NoRows
      PROVE  account'[radius'[n].owner].exists /\ Username(account'[radius'[n].owner]) = n
  <2>1. radius'[n] = radius[n] /\ radius[n].owner \in Customers \ gone
    BY <1>3, <1>5 DEF TypeOK, Rows, Logins
  <2> QED
    BY <1>2, <1>5, <2>1 DEF CredentialsBelongToLogin, Logins
<1> QED
  BY <1>2, <1>3, <1>4, <1>5 DEF TypeOK, CredentialsBelongToLogin, Logins, Username

-----------------------------------------------------------------------------
(*                              Theorems                                   *)

AccessInv == TypeOK /\ CredentialsBelongToLogin

\* There is nobody at first.
LEMMA AccessInvInit == Init => AccessInv
BY ConstantTypes
   DEF Init, AccessInv, TypeOK, CredentialsBelongToLogin, Deleted, Account, Status, Type, NoEnd

\* Every operation keeps the invariant.
LEMMA AccessInvStep == AccessInv /\ [Next]_vars => AccessInv'
<1> SUFFICES ASSUME AccessInv, [Next]_vars
             PROVE  AccessInv'
  OBVIOUS
<1> USE DEF AccessInv
<1>1. CASE Create
  <2>1. PICK c \in Customers, p \in Plans :
            \/ \E e \in Names : \/ BillingCreate(c, e, p)
                              \/ PortalPurchase(c, e, p) \/ RedeemVoucher(c, e, p)
            \/ PortalRenew(c, p) \/ BillingChangePlan(c, p)
    BY <1>1 DEF Create
  <2>2. TypeOK' /\ NamesKept /\ RowsOwned
    BY <2>1, CreateStep, PlanStep
  <2> QED
    BY <2>2, KeptAndOwned
<1>2. CASE Edit
  <2>1. PICK c \in Customers, st \in Status, e \in Logins, l \in Logins, p \in Plans \cup {NoPlan} :
            \/ \E type \in OfferedTypes : CreateClient(c, e, l, st, p, type)
            \/ \E planGiven \in BOOLEAN : EditClient(c, e, l, st, p, planGiven)
    BY <1>2 DEF Edit, Logins
  <2>2. CASE \E type \in OfferedTypes : CreateClient(c, e, l, st, p, type)
    <3>1. OfferedTypes \subseteq Type
      BY ConstantTypes DEF OfferedTypes
    <3>2. TypeOK' /\ NamesKept /\ RowsOwned
      BY <2>2, <3>1, CreateClientStep
    <3> QED
      BY <3>2, KeptAndOwned
  <2>3. CASE \E planGiven \in BOOLEAN : EditClient(c, e, l, st, p, planGiven)
    BY <2>3, EditStep
  <2> QED
    BY <2>1, <2>2, <2>3
<1>3. CASE Switch
  <2>1. TypeOK' /\ NamesKept /\ RowsOwned
    BY <1>3, StatusStep, SwitchStep, CredentialStep DEF Switch
  <2> QED
    BY <2>1, KeptAndOwned
<1>4. CASE \E p \in Plans : ReprovisionPlan(p)
  BY <1>4, ReprovisionStep, KeptAndOwned
<1>5. CASE \E gone \in SUBSET Customers : DeleteClients(gone)
  BY <1>5, RemoveStep DEF DeleteClients
<1>6. CASE EnforceExpiry
  BY <1>6, EnforceStep, KeptAndOwned
<1>7. CASE PurgeHotspot
  <2>1. PICK old \in SUBSET Customers : Remove(old) /\ now' = now
    BY <1>7 DEF PurgeHotspot
  <2> QED
    BY <2>1, RemoveStep
<1>8. CASE Tick
  BY <1>8 DEF Tick, TypeOK, CredentialsBelongToLogin, Username
<1>9. CASE UNCHANGED vars
  BY <1>9 DEF vars, TypeOK, CredentialsBelongToLogin, Username
<1> QED
  BY <1>1, <1>2, <1>3, <1>4, <1>5, <1>6, <1>7, <1>8, <1>9 DEF Next

\* The tables hold what their columns may hold, for any accounts, names and plans.
THEOREM AccessTypeCorrect == Spec => []TypeOK
<1>1. AccessInv => TypeOK
  BY DEF AccessInv
<1> QED
  BY <1>1, AccessInvInit, AccessInvStep, PTL DEF Spec

\* No operation leaves RADIUS rows whose account is gone or has another login.
THEOREM CredentialsBelong == Spec => []CredentialsBelongToLogin
<1>1. AccessInv => CredentialsBelongToLogin
  BY DEF AccessInv
<1> QED
  BY <1>1, AccessInvInit, AccessInvStep, PTL DEF Spec

-----------------------------------------------------------------------------
(* Cutting off is complete.  By CredentialsBelongToLogin the rows of an    *)
(* account are all under its login, so removing those is enough; an        *)
(* account that does not exist has no status to lose.                      *)

\* A deleted account is as blank as one never created.
DeletedIsBlank == \A c \in Customers : ~account[c].exists => account[c].status = "PENDING"

\* An operation after which the one account it touches exists.
LEMMA OthersStay ==
    ASSUME DeletedIsBlank, NEW c \in Customers, account'[c].exists,
           \A d \in Customers \ {c} : account'[d] = account[d]
    PROVE  DeletedIsBlank'
BY DEF DeletedIsBlank

\* An operation that rewrites one account, which exists afterwards.
LEMMA RewrittenIsBlank ==
    ASSUME TypeOK, DeletedIsBlank, NEW d \in Customers, NEW b, b.exists,
           account' = [account EXCEPT ![d] = b]
    PROVE  DeletedIsBlank'
BY DEF TypeOK, DeletedIsBlank

\* No operation gives a status to an account it does not create.
LEMMA DeletedIsBlankStep ==
    ASSUME TypeOK, DeletedIsBlank, [Next]_vars
    PROVE  DeletedIsBlank'
<1>1. ASSUME NEW d \in Customers, NEW b \in Account, b.exists, ActivateAs(d, b)
      PROVE  DeletedIsBlank'
  <2>1. Activated(b).exists /\ account' = [account EXCEPT ![d] = Activated(b)]
    BY <1>1, ActivatedKeepsLogin DEF ActivateAs, TypeOK
  <2> QED
    BY <2>1, RewrittenIsBlank
<1>2. CASE Create
  <2>1. PICK c \in Customers, p \in Plans :
            \/ \E e \in Names : \/ BillingCreate(c, e, p)
                              \/ PortalPurchase(c, e, p) \/ RedeemVoucher(c, e, p)
            \/ PortalRenew(c, p) \/ BillingChangePlan(c, p)
    BY <1>2 DEF Create
  <2>2. ASSUME NEW e \in Names, IsGuest(c, e)
        PROVE  Guest(c, e, p) \in Account /\ Guest(c, e, p).exists
    BY GuestIsAccount
  <2>3. CASE \E e \in Names : BillingCreate(c, e, p)
    BY <2>3, OthersStay DEF BillingCreate, TypeOK
  <2>4. CASE \E e \in Names : PortalPurchase(c, e, p)
    BY <2>2, <2>4, RewrittenIsBlank DEF PortalPurchase
  <2>5. CASE \E e \in Names : RedeemVoucher(c, e, p)
    BY <2>2, <2>5, <1>1 DEF RedeemVoucher
  <2>6. CASE PortalRenew(c, p) \/ BillingChangePlan(c, p)
    <3>1. /\ account[c].exists
          /\ \/ account' = [account EXCEPT ![c] = [account[c] EXCEPT !.plan = p]]
             \/ account' = [account EXCEPT ![c] = [account[c] EXCEPT !.plan = p, !.type = "pppoe"]]
      BY <2>6 DEF PortalRenew, BillingChangePlan, TypeOK, Account
    <3>2. /\ [account[c] EXCEPT !.plan = p].exists
          /\ [account[c] EXCEPT !.plan = p, !.type = "pppoe"].exists
      BY <3>1 DEF TypeOK, Account
    <3> QED
      BY <3>1, <3>2, RewrittenIsBlank
  <2> QED
    BY <2>1, <2>3, <2>4, <2>5, <2>6
<1>3. CASE Edit
  <2>1. PICK c \in Customers, st \in Status, e \in Logins, l \in Logins, p \in Plans \cup {NoPlan} :
            \/ \E type \in OfferedTypes : CreateClient(c, e, l, st, p, type)
            \/ \E planGiven \in BOOLEAN : EditClient(c, e, l, st, p, planGiven)
    BY <1>3 DEF Edit, Logins
  <2>2. CASE \E type \in OfferedTypes : CreateClient(c, e, l, st, p, type)
    BY <2>2, OthersStay DEF CreateClient, TypeOK
  <2>3. CASE \E planGiven \in BOOLEAN : EditClient(c, e, l, st, p, planGiven)
    <3> DEFINE a == [account[c] EXCEPT !.email = e, !.login = l, !.status = st, !.plan = p]
    <3>1. a \in Account /\ a.exists
      <4>1. account[c] \in Account /\ account[c].exists
        BY <2>3 DEF EditClient, TypeOK
      <4> QED
        BY <4>1 DEF Account, Logins
    <3>2. account' = [account EXCEPT ![c] = a] \/ account' = [account EXCEPT ![c] = Synced(a)]
      BY <2>3 DEF EditClient
    <3>3. Synced(a).exists
      BY <3>1, SyncedKeepsLogin
    <3> HIDE DEF a
    <3> QED
      BY <3>1, <3>2, <3>3, RewrittenIsBlank
  <2> QED
    BY <2>1, <2>2, <2>3
<1>4. CASE Switch
  <2>1. PICK c \in Customers :
            \/ \E st \in Status : SetStatus(c, st)
            \/ ConfirmPayment(c) \/ Connect(c) \/ BillingActivate(c)
            \/ Disconnect(c) \/ BillingSuspend(c)
            \/ ResetCredentials(c) \/ ProvisionPeer(c) \/ DeletePeer(c)
    BY <1>4 DEF Switch
  <2>2. CASE \E st \in Status : SetStatus(c, st)
    <3>1. PICK st \in Status : SetStatus(c, st)
      BY <2>2
    <3> DEFINE a == [account[c] EXCEPT !.status = st]
    <3>2. a \in Account /\ a.exists /\ account' = [account EXCEPT ![c] = Synced(a)]
      BY <3>1 DEF SetStatus, TypeOK, Account
    <3> HIDE DEF a
    <3> QED
      BY <3>2, SyncedKeepsLogin, RewrittenIsBlank
  <2>3. CASE ConfirmPayment(c) \/ Connect(c) \/ BillingActivate(c)
    <3>1. account[c] \in Account /\ account[c].exists /\ ActivateAs(c, account[c])
      BY <2>3 DEF ConfirmPayment, Connect, BillingActivate, Activate, TypeOK
    <3> QED
      BY <3>1, <1>1
  <2>4. CASE Disconnect(c) \/ BillingSuspend(c) \/ ProvisionPeer(c)
    BY <2>4 DEF Disconnect, BillingSuspend, Suspend, ProvisionPeer, TypeOK, Account, DeletedIsBlank
  <2>5. CASE ResetCredentials(c) \/ DeletePeer(c)
    BY <2>5 DEF ResetCredentials, DeletePeer, DeletedIsBlank
  <2> QED
    BY <2>1, <2>2, <2>3, <2>4, <2>5
<1>5. CASE \E gone \in SUBSET Customers : DeleteClients(gone)
  BY <1>5 DEF DeleteClients, Remove, Deleted, DeletedIsBlank
<1>6. CASE PurgeHotspot
  BY <1>6 DEF PurgeHotspot, Remove, Deleted, DeletedIsBlank
<1>7. CASE EnforceExpiry
  BY <1>7 DEF EnforceExpiry, Expired, TypeOK, Account, DeletedIsBlank
<1>8. CASE (\E p \in Plans : ReprovisionPlan(p)) \/ Tick \/ UNCHANGED vars
  BY <1>8 DEF ReprovisionPlan, Tick, vars, DeletedIsBlank
<1> QED
  BY <1>2, <1>3, <1>4, <1>5, <1>6, <1>7, <1>8 DEF Next

-----------------------------------------------------------------------------
(*               What revocation leaves behind                             *)

\* The account loses its access in this step.
CutOff(c) ==
    \/ account[c].status = "ACTIVE" /\ account'[c].status = "SUSPENDED"
    \/ account[c].exists /\ ~account'[c].exists

NothingLeft(c) ==
    /\ c \notin peers'
    /\ \A n \in Logins : radius'[n] # NoRows => radius'[n].owner # c

\* Taking the rows of its login away is enough: the account has no others.
LEMMA LoginRowsAreAll ==
    ASSUME TypeOK, CredentialsBelongToLogin, NEW c \in Customers, c \notin peers',
           radius' \in [Logins -> Rows \cup {NoRows}],
           \A n \in Logins : \/ radius'[n] = NoRows
                             \/ radius'[n] = radius[n] /\ n # Username(account[c])
    PROVE  NothingLeft(c)
BY DEF NothingLeft, CredentialsBelongToLogin, Logins, TypeOK

\* So suspending an account, which does that, leaves it nothing.
LEMMA RevokeLeavesNothing ==
    ASSUME TypeOK, CredentialsBelongToLogin, NEW c \in Customers,
           RevokeAccess(c, account[c])
    PROVE  NothingLeft(c)
<1>1. radius' \in [Logins -> Rows \cup {NoRows}] /\ c \notin peers'
  BY RevokeWrites DEF RevokeAccess, TypeOK
<1>2. \A n \in Logins : \/ radius'[n] = NoRows
                        \/ radius'[n] = radius[n] /\ n # Username(account[c])
  BY DEF RevokeAccess, DeprovisionRadius, TypeOK, Logins
<1> QED
  BY <1>1, <1>2, LoginRowsAreAll

\* An operation that rewrites one account cuts no other off.
LEMMA OnlyOneCutOff ==
    ASSUME TypeOK, NEW c \in Customers, NEW d \in Customers, NEW b,
           account' = [account EXCEPT ![d] = b], CutOff(c)
    PROVE  c = d /\ (b.status = "SUSPENDED" \/ ~b.exists)
BY DEF TypeOK, CutOff

\* Deletion removes rows by login and by owner.
LEMMA RemoveLeavesNothing ==
    ASSUME TypeOK, CredentialsBelongToLogin, NEW gone \in SUBSET Customers, Remove(gone),
           NEW c \in Customers, CutOff(c)
    PROVE  NothingLeft(c)
<1>1. c \in gone
  BY DEF Remove, CutOff, TypeOK, Account
<1>2. c \notin peers'
  BY <1>1 DEF Remove
<1>3. \A n \in Logins : \/ radius'[n] = NoRows
                        \/ radius'[n] = radius[n] /\ (radius[n] # NoRows => radius[n].owner \notin gone)
  BY DEF Remove, Logins
<1> QED
  BY <1>1, <1>2, <1>3 DEF NothingLeft

\* The expiry job suspends several accounts at once.
LEMMA EnforceLeavesNothing ==
    ASSUME TypeOK, CredentialsBelongToLogin, EnforceExpiry, NEW c \in Customers, CutOff(c)
    PROVE  NothingLeft(c)
<1>1. c \in Expired
  BY DEF EnforceExpiry, CutOff, TypeOK, Account
<1>2. c \notin peers'
  BY <1>1 DEF EnforceExpiry
<1>3. radius' \in [Logins -> Rows \cup {NoRows}]
  BY DEF EnforceExpiry, TypeOK, Logins
<1>4. \A n \in Logins : \/ radius'[n] = NoRows
                        \/ radius'[n] = radius[n] /\ n # Username(account[c])
  BY <1>1 DEF EnforceExpiry, Logins
<1> QED
  BY <1>2, <1>3, <1>4, LoginRowsAreAll

\* An edit that suspends the account takes the rows of the old login away with the
\* rename and those of the new one with the status.
LEMMA SyncLeavesNothing ==
    ASSUME TypeOK, CredentialsBelongToLogin, NEW c \in Customers, account[c].exists,
           NEW a \in Account, a.status = "SUSPENDED",
           SyncRadius(c, a, RenamedRows(account[c], a))
    PROVE  NothingLeft(c)
<1>1. /\ radius' = [RenamedRows(account[c], a) EXCEPT ![Username(a)] = NoRows]
      /\ c \notin peers'
  BY DEF SyncRadius
<1>2. Username(account[c]) \in Logins /\ Username(a) \in Logins
  BY UsernameIsLogin DEF TypeOK
<1>3. radius' \in [Logins -> Rows \cup {NoRows}]
  BY <1>1, <1>2 DEF RenamedRows, DeprovisionRadius, TypeOK, Logins
<1>4. \A n \in Logins : \/ radius'[n] = NoRows
                        \/ radius'[n] = radius[n] /\ n # Username(account[c])
  BY <1>1, <1>2 DEF RenamedRows, DeprovisionRadius, TypeOK, Logins
<1> QED
  BY <1>1, <1>3, <1>4, LoginRowsAreAll

\* The console form may rename an account and suspend it in one request.
LEMMA EditLeavesNothing ==
    ASSUME TypeOK, CredentialsBelongToLogin, DeletedIsBlank, Edit,
           NEW c \in Customers, CutOff(c)
    PROVE  NothingLeft(c)
<1>1. PICK d \in Customers, st \in Status, e \in Logins, l \in Logins, p \in Plans \cup {NoPlan} :
          \/ \E type \in OfferedTypes : CreateClient(d, e, l, st, p, type)
          \/ \E planGiven \in BOOLEAN : EditClient(d, e, l, st, p, planGiven)
  BY DEF Edit, Logins
<1>2. ~\E type \in OfferedTypes : CreateClient(d, e, l, st, p, type)
  BY DEF CreateClient, CutOff, DeletedIsBlank, TypeOK
<1>3. PICK planGiven \in BOOLEAN : EditClient(d, e, l, st, p, planGiven)
  BY <1>1, <1>2
<1> DEFINE a == [account[d] EXCEPT !.email = e, !.login = l, !.status = st, !.plan = p]
<1>4. a \in Account /\ a.exists /\ a.status = st /\ account[d].exists
  <2>1. account[d] \in Account /\ account[d].exists
    BY <1>3 DEF EditClient, TypeOK
  <2> QED
    BY <2>1 DEF Account, Logins
<1>5. Synced(a).exists /\ Synced(a).status = st
  BY <1>4 DEF Synced, Account
<1>6. account' = [account EXCEPT ![d] = a] \/ account' = [account EXCEPT ![d] = Synced(a)]
  BY <1>3 DEF EditClient
<1>7. st # account[d].status => SyncRadius(d, a, RenamedRows(account[d], a))
  BY <1>3 DEF EditClient
<1> HIDE DEF a
<1>8. c = d /\ st = "SUSPENDED"
  BY <1>4, <1>5, <1>6, OnlyOneCutOff
<1>9. account'[c].exists /\ account[c].status = "ACTIVE"
  <2>1. account'[c] = a \/ account'[c] = Synced(a)
    BY <1>6, <1>8 DEF TypeOK
  <2> QED
    BY <2>1, <1>4, <1>5 DEF CutOff
<1> QED
  BY <1>4, <1>7, <1>8, <1>9, SyncLeavesNothing

\* An activated account is ACTIVE, and the others are as they were.
LEMMA ActivationCutsNobodyOff ==
    ASSUME TypeOK, NEW d \in Customers, NEW b \in Account, b.exists, ActivateAs(d, b),
           NEW c \in Customers
    PROVE  ~CutOff(c)
<1>1. Activated(b).exists /\ Activated(b).status = "ACTIVE"
  BY DEF Activated, Account
<1>2. account' = [account EXCEPT ![d] = Activated(b)]
  BY DEF ActivateAs
<1> QED
  BY <1>1, <1>2, OnlyOneCutOff

\* Creating, purchasing and activating cut nobody off.
LEMMA CreateCutsNobodyOff ==
    ASSUME TypeOK, DeletedIsBlank, Create, NEW c \in Customers
    PROVE  ~CutOff(c)
<1>1. PICK d \in Customers, p \in Plans :
          \/ \E e \in Names : \/ BillingCreate(d, e, p)
                            \/ PortalPurchase(d, e, p) \/ RedeemVoucher(d, e, p)
          \/ PortalRenew(d, p) \/ BillingChangePlan(d, p)
  BY DEF Create
<1>2. CASE \E e \in Names : BillingCreate(d, e, p)
  BY <1>2 DEF BillingCreate, CutOff, TypeOK
<1>3. ASSUME NEW e \in Names
      PROVE  /\ Guest(d, e, p).exists
             /\ Guest(d, e, p).status = account[d].status
  BY DEF Guest, Deleted, TypeOK, Account, DeletedIsBlank
<1>4. CASE \E e \in Names : PortalPurchase(d, e, p)
  BY <1>3, <1>4 DEF PortalPurchase, CutOff, TypeOK
<1>5. CASE \E e \in Names : RedeemVoucher(d, e, p)
  <2>1. PICK e \in Names : IsGuest(d, e) /\ ActivateAs(d, Guest(d, e, p))
    BY <1>5 DEF RedeemVoucher
  <2>2. Guest(d, e, p) \in Account /\ Guest(d, e, p).exists
    BY GuestIsAccount
  <2> QED
    BY <2>1, <2>2, ActivationCutsNobodyOff
<1>6. CASE PortalRenew(d, p) \/ BillingChangePlan(d, p)
  <2>1. account'[d].exists = account[d].exists /\ account'[d].status = account[d].status
    BY <1>6 DEF PortalRenew, BillingChangePlan, TypeOK, Account
  <2>2. \A x \in Customers \ {d} : account'[x] = account[x]
    BY <1>6 DEF PortalRenew, BillingChangePlan, TypeOK
  <2> QED
    BY <2>1, <2>2 DEF CutOff
<1> QED
  BY <1>1, <1>2, <1>4, <1>5, <1>6

\* The operations on one account that has a status and keeps its login.
LEMMA SwitchLeavesNothing ==
    ASSUME TypeOK, CredentialsBelongToLogin, Switch, NEW c \in Customers, CutOff(c)
    PROVE  NothingLeft(c)
<1>1. PICK d \in Customers :
          \/ \E st \in Status : SetStatus(d, st)
          \/ ConfirmPayment(d) \/ Connect(d) \/ BillingActivate(d)
          \/ Disconnect(d) \/ BillingSuspend(d)
          \/ ResetCredentials(d) \/ ProvisionPeer(d) \/ DeletePeer(d)
  BY DEF Switch
<1>2. CASE \E st \in Status : SetStatus(d, st)
  <2>1. PICK st \in Status : SetStatus(d, st)
    BY <1>2
  <2> DEFINE a == [account[d] EXCEPT !.status = st]
  <2>2. /\ a \in Account /\ a.exists /\ a.status = st /\ Username(a) = Username(account[d])
        /\ account' = [account EXCEPT ![d] = Synced(a)]
        /\ account[d].exists
        /\ SyncRadius(d, a, radius)
    BY <2>1 DEF SetStatus, TypeOK, Account, Username
  <2>3. Synced(a).exists /\ Synced(a).status = st
    BY <2>2 DEF Synced, Account
  <2>4. RenamedRows(account[d], a) = radius
    BY <2>2 DEF RenamedRows
  <2> HIDE DEF a
  <2>5. c = d /\ st = "SUSPENDED"
    BY <2>2, <2>3, OnlyOneCutOff
  <2> QED
    BY <2>2, <2>4, <2>5, SyncLeavesNothing
<1>3. CASE ConfirmPayment(d) \/ Connect(d) \/ BillingActivate(d)
  <2>1. account[d] \in Account /\ account[d].exists /\ ActivateAs(d, account[d])
    BY <1>3 DEF ConfirmPayment, Connect, BillingActivate, Activate, TypeOK
  <2> QED
    BY <2>1, ActivationCutsNobodyOff
<1>4. CASE Disconnect(d) \/ BillingSuspend(d)
  <2>1. /\ account[d].exists /\ RevokeAccess(d, account[d])
        /\ \A x \in Customers \ {d} : account'[x] = account[x]
    BY <1>4 DEF Disconnect, BillingSuspend, Suspend, TypeOK
  <2>2. c = d
    BY <2>1 DEF CutOff
  <2> QED
    BY <2>1, <2>2, RevokeLeavesNothing
<1>5. CASE ResetCredentials(d) \/ DeletePeer(d)
  BY <1>5 DEF ResetCredentials, DeletePeer, CutOff
<1>6. CASE ProvisionPeer(d)
  <2>1. account'[d].exists = account[d].exists /\ account'[d].status = account[d].status
    BY <1>6 DEF ProvisionPeer, TypeOK, Account
  <2>2. \A x \in Customers \ {d} : account'[x] = account[x]
    BY <1>6 DEF ProvisionPeer, TypeOK
  <2> QED
    BY <2>1, <2>2 DEF CutOff
<1> QED
  BY <1>1, <1>2, <1>3, <1>4, <1>5, <1>6

\* All operations.
LEMMA CutOffLeavesNothing ==
    ASSUME TypeOK, CredentialsBelongToLogin, DeletedIsBlank, [Next]_vars,
           NEW c \in Customers, CutOff(c)
    PROVE  NothingLeft(c)
<1>1. CASE Create
  BY <1>1, CreateCutsNobodyOff
<1>2. CASE Edit
  BY <1>2, EditLeavesNothing
<1>3. CASE Switch
  BY <1>3, SwitchLeavesNothing
<1>4. CASE \E gone \in SUBSET Customers : DeleteClients(gone)
  BY <1>4, RemoveLeavesNothing DEF DeleteClients
<1>5. CASE PurgeHotspot
  BY <1>5, RemoveLeavesNothing DEF PurgeHotspot
<1>6. CASE EnforceExpiry
  BY <1>6, EnforceLeavesNothing
<1>7. CASE (\E p \in Plans : ReprovisionPlan(p)) \/ Tick \/ UNCHANGED vars
  BY <1>7 DEF ReprovisionPlan, Tick, vars, CutOff
<1> QED
  BY <1>1, <1>2, <1>3, <1>4, <1>5, <1>6, <1>7 DEF Next

\* Whichever operation suspends or deletes an account leaves it no rows and no peer,
\* for any accounts, names and plans.
THEOREM RevocationComplete == Spec => RevocationIsComplete
<1> DEFINE Inv == AccessInv /\ DeletedIsBlank
<1>1. Init => Inv
  BY AccessInvInit DEF Init, Deleted, DeletedIsBlank
<1>2. Inv /\ [Next]_vars => Inv'
  BY AccessInvStep, DeletedIsBlankStep DEF AccessInv
<1>3. Inv /\ [Next]_vars =>
        [\A c \in Customers :
            \/ account[c].status = "ACTIVE" /\ account'[c].status = "SUSPENDED"
            \/ account[c].exists /\ ~account'[c].exists
            => /\ c \notin peers'
               /\ \A n \in Names \cup {NoName} : radius'[n] # NoRows => radius'[n].owner # c]_vars
  BY CutOffLeavesNothing DEF AccessInv, CutOff, NothingLeft, Logins
<1> QED
  BY <1>1, <1>2, <1>3, PTL DEF Spec, RevocationIsComplete
=============================================================================
