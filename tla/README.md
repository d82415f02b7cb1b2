# A TLA+ model of Infora WiFi billing

Infora is a billing and network-management system for internet providers: a Flask
backend on PostgreSQL with FreeRADIUS, MikroTik routers, TR-069 devices and M-Pesa, a
React console and captive portal, and a mobile application. This directory holds TLA+
specifications of it, the TLC configurations that check them on small instances, and
proofs, checked by TLAPS, of what matters most about money, access, sessions, secrets and
devices for instances of any size. `PROJECT.json` relates every definition to the lines of the code it models.
Below, `B/` is `src/backend/server/` and `F/` is `src/FRONTEND/infora_billing/src/`.

1. [Inventory](#1-inventory)
2. [Modules](#2-modules)
3. [How the modules compose](#3-how-the-modules-compose)
4. [Runs](#4-runs)
5. [Bounds and suppositions](#5-bounds-and-suppositions)
6. [Fairness](#6-fairness)
7. [Proofs](#7-proofs)
8. [What the sources say and the code does not keep](#8-what-the-sources-say-and-the-code-does-not-keep)
9. [Not modelled](#9-not-modelled)
10. [What could come next](#10-what-could-come-next)

## 1. Inventory

### Processes and shared state

The API runs as gunicorn workers (4 processes with 2 threads, requests killed after 120
seconds, `src/backend/docker-entrypoint.prod.sh`) on one PostgreSQL database at its default
isolation, READ COMMITTED. Background work is a cron job (`flask enforce-expiry`, `flask
issue-subscription-invoices`, `flask enforce-fup`) or a daemon thread started by a request
(provisioning of a tenant, scans, imports). The loops `_start_expiry_scheduler` and
`_start_fup_scheduler` of `B/app.py` run only where it is started as a program (lines 766-769),
that is with the development server and not under gunicorn. Apart from the allocation of
account numbers nothing uses `SELECT ... FOR UPDATE`: what serialises transactions is row
locks of UPDATEs, unique indexes, and SQLAlchemy's habit of writing only the columns that
changed. FreeRADIUS reads `radcheck`, `radreply` and `radusergroup` by itself and cuts
sessions at the `Expiration` row. Safaricom calls back once a prompt is answered, at any
time and perhaps more than once. A CPE is never called: it opens a session when it likes.

The console is a single-page application. Its handlers run to the next `await` without
interruption; between a request and its answer the operator goes on, other requests are
answered in any order, other operators change the rows, and closures go on with the state
of the render that made them. Tabs of one browser share `localStorage`.

### Components

| Component | State it keeps | Operations | Talks to | What makes it correct |
|---|---|---|---|---|
| Subscriber payments | payments, invoices, transactions | push a prompt, callback, settle | accounts, RADIUS, loyalty, Safaricom | credited once, tables agree, only confirmed money is booked |
| Expiry enforcement | none of its own | select, suspend, commit | customers, RADIUS, routers | the expired are cut off, in the end |
| Accounts and access | customers, RADIUS rows, WireGuard peers | create, edit, rename, activate, suspend, delete, reprovision | all that grants access | no credential without its owner; cutting off is complete |
| Portals | vouchers, the page's flow | choose, order, pay, renew, redeem | payments, accounts | a receipt is of the payer's own order, and no wait is endless |
| Platform subscription | the tenants' expiry, platform invoices | trial, bill, pay, lock out | callback of payments | one bill at a time, paid periods kept, always a way to pay |
| Gate and subscription page of the console | the server's last word, polls | refresh, 402, pay, poll | platform subscription | who owes meets the paywall, who paid gets through |
| Loyalty | ledger, consumed counters | award, redeem, expire | payments | the balance is backed by batches, oldest first |
| Console sign-in | user and token in four places | login, two-factor, 401, logout | every call | a call goes out as the user on screen, sessions stay apart |
| Subscribers in the console | list, selection, record, forms | filter, connect, delete many, reveal, reset | accounts | nothing goes that was not agreed to, what is shown is stored |
| Invoices in the console | list, form, pay dialog | save, delete, push, poll | payments | no payment is lost with an invoice, paid is said only when paid |
| Packages and throttling | plans, groups, a subscriber's rows | edit, switch, delete, throttle | RADIUS rows, accounts | what was saved is what is applied, users keep their package |
| Payment, messaging and integration settings | one row or vault, masked secrets | edit, activate, switch | prompts, messages | a secret survives every save, the route changes only by hand |
| Settings tabs and forms | one record each | read, type, Save, Reset, switch | - | what reads as unchanged is stored, no blanks are saved |
| Address of the account | verdict on a name | type, look up, confirm twice | other tenants | the verdict is of the name it is shown for |
| Record pages | rows under a filter, drawer, form | filter, poll, order, create | every table | rows end as the server has them, one record per form |
| Copilot | threads, the panel's copy | ask, switch, delete | the model | no question is lost or asked twice, screen and thread agree |
| Onboarding and provisioning | signup row, job, token | five steps, resume, provision | tenants, administrators | finished is usable, nobody is stranded |
| Router link and services | wizard, ports, roles | register, read, assign, apply | RouterOS | the uplink is never bridged |
| Imports | runs, candidates, plans, files, scripts | scan, plan, commit, revert, cut over | accounts, packages | an import is what its preview said, and can be taken back |
| Fiber plant | nodes, cables, splices, map | drag, trace, draw, assign, pin | CPEs | the drawing is the plant |
| TR-069 | devices, task queue | approve, enrol, queue, cancel, Inform | CPEs | an answer finds its task, orders keep their order |
| Demonstration backend | tables in memory | every handler | the console | its books balance like the real ones |
| Outage credit, WAN failover, 2FA and reset on the server, layout and mobile | - | - | - | section 9 |

### What is hard here

The hazards (`PROJECT.json`, each at its line) are of eight kinds: duplicated or early
callbacks; decisions on rows read before another transaction commits; jobs that work from a
selection while others change it; workers and threads that die between statements;
credentials kept in two places under a name that may change; answers that arrive late, in
the other order or never, into a page that has moved on; switches shown before they are
answered; and waits that must end although what they wait for is restarted or lost.

## 2. Modules

Money and access, statement by statement or transaction by transaction:

| Module | Code | State and actions |
|---|---|---|
| `Settlement` | - | What the backend promises about money: `Confirm` a prompt, `Book` it once and for good. |
| `PaymentSettlement` | `B/routes/payments.py`, `B/services/payment_processor.py`, `B/services/subscription_expiry.py` | `payment` with its `bill` (the invoice it is for, if any), `invoice`, `ledger`, `customer`, `radius` are the tables (radius: the Expiration row), `prompt` and `deliveries` are Safaricom, `handler` and `job` the program counters of workers and enforcers. Handlers are cut at an external call, at the reads a decision rests on, and at the commit. |
| `CustomerAccess` | `B/services/radius_provisioning.py`, `B/services/wireguard_provisioning.py`, `B/routes/customers.py`, `B/routes/billing.py`, `B/services/portal_service.py` and the nightly jobs | `account`, `radius` (login to owner, plan, expiry), `peers`, `receipts`; one action per operation and transaction. |
| `PlatformSubscription` | `B/services/platform_subscription.py`, `B/routes/platform.py`, `B/routes/payments.py` | `expires`, `invoice`, `prompt`, `charged`, `handler`, `run`: trial, billing run, prompt, callback, extension. |
| `LoyaltyLedger` | `B/services/loyalty.py` | `batches`, `spent`, `lapsed`, `session`: award, redeem, write off, settings. |

Pages of the console and portal with the handlers they call:

| Module | Code | What it is about |
|---|---|---|
| `ConsoleSession` | `F/contexts/AuthContext.jsx`, `F/utils/authToken.js`, `F/utils/api.js`, login | logins with and without "keep me signed in", two tabs, 401s, logout |
| `SubscriptionGate` | `F/contexts/SubscriptionContext.jsx`, `F/components/auth/SubscriptionGate.jsx` | refreshes, 402s, the watchdog, what is shown |
| `InvoicePolling` | `F/components/billing/PlatformSubscriptionPage.jsx` | pay dialog, polling and giving up over several visits |
| `PortalCheckout` | `F/components/portal/*`, `F/services/portalService.js` | choosing or looking up, ordering, reading the status |
| `Onboarding` | `F/components/onboarding/*`, `B/routes/onboarding.py`, `B/services/tenant_provisioning.py` | the steps on both sides, resuming, the provisioning job |
| `ClientsConsole`, `ClientRecord`, `ClientEntry` | `F/components/clients/*`, `B/routes/customers.py` | list and bulk deletion; one subscriber's page; the form of a new one |
| `InvoiceDesk` | `F/components/billing/InvoicesPage.jsx`, `MpesaPayModal.jsx`, `InvoiceForm.jsx`, `B/routes/invoices.py` | list, form, deletion, collecting by a prompt |
| `PackageShelf`, `PackageDetail`, `PackageEditor` | `F/components/plans/*`, `B/routes/plans.py`, `B/services/plan_utils.py`, fair-use services | list with totals; one package; form, stored row, RADIUS rows and throttling |
| `PaymentRoute`, `ProviderVault`, `IntegrationsPanel` | `F/components/settings/tabs/*`, `B/routes/settings.py`, messaging and mail services | the payment row; message providers and their secrets; integrations and the mail server |
| `SettingsForms` | sixteen tabs and forms, `F/components/settings/ui.jsx` | reading, typing, Save, Reset, optimistic switches |
| `DomainAddress` | `DomainSettings.jsx`, `B/services/tenant_slug.py` | lookups of names typed, confirmation in two presses |
| `RecordPages` | thirty-nine pages that list records | filters, polls, orders of a row with marks and questions, drawer, form |
| `CopilotChat` | `F/components/copilot/CopilotPanel.jsx`, `B/services/copilot_threads.py` | threads, questions, answers, the panel's copy |
| `DemoBackend` | `F/demo/*` | every table with its handlers, paging, port switches |

A tenant's network:

| Module | Code | What it is about |
|---|---|---|
| `AddDeviceWizard`, `RouterServices` | `F/components/devices/*`, `B/services/device_config_ops.py` | linking a router; services on ports with the guard of the uplink |
| `RouterScan`, `ImportPlan`, `ImportRun`, `FileImport`, `Cutover` | `F/components/imports/*`, `ImportClients.jsx`, `B/services/router_scan/*`, `B/services/customer_import.py` | scan, decisions and their preview, the commit's thread, a file, scripts that move subscribers |
| `FiberMap`, `PlantNodes`, `PortSheet` | `F/components/fiber/*`, `B/routes/fiber.py`, the mobile survey | map, node list and survey, splice plan |
| `CpeTasks`, `CpePage`, `CpeFleet` | `B/routes/tr069.py`, `B/services/tr069/session.py`, `B/routes/cpe.py`, `F/components/tr069/*` | task queue and sessions, the device page, the fleet page |

`MCWaiting`, `MCDesk` and `MCNetwork` are hubs (section 3); the modules of money and access are
run by themselves. `*_proofs` hold theorems, and so do `ConsoleSession` (lemmas about it),
`MCWaiting`, after its definitions, and `MCDesk`, where what a part keeps follows its INSTANCE and
the hub's own definitions and theorems come last. Definitions marked *Faulty variant*
are the defects a property is there to catch: put in place of the definition that follows,
each makes TLC report its property (`PROJECT.json`, `mutants`).

**Granularity.** In the first group a row that a transaction has written is locked until it
ends: a worker in state `crediting` holds its payment (loading `payment.customer` autoflushes
the UPDATE), one that is `extending` its platform invoice, an enforcer the customers it is
done with, and others wait in the guard. Changes become visible at the commit, a crash drops
the open transaction, and a column is written only if it differs from what was loaded. In the
other groups a request has three steps: it is sent (with what the page knows), served (reading
and writing the tables at that moment) and answered (into whatever page is there by then).

**Families of pages.** `RecordPages` and `SettingsForms` hold many files: the pages are
written alike and differ in a few choices (where the filter is applied, what is marked busy,
whether an answer is awaited in the dialog, how a refused switch is put back, ...). A page is a
record of its choices, mapped to the lines where it makes them; `Init` takes any page, and
the actions do what a page does that chose so. A change of one page is a change of its record.
This is a reduction: what a page does beyond those choices is not in it, and the server is one
handler (`Serve`, written from `B/routes/equipment.py`) that stands for those of all
the records. The checks of the others, and what they do when one of their steps fails, are
collapsed into a request that is refused before it has changed anything.

**History variables** no guard reads: `credits`, `acked`, `bought`, `agreed`, `accepted`,
`told`, `seen` and the like record what was promised, so that a property can relate it to what is;
`charged` what requests took from a batch of points, `overtaken` and `raced` (and `overtaken` of
`PaymentSettlement`) that one has written over another; `edited` that an operator set an invoice's
status; `claimed` that no answer to an RPC closed a task.

## 3. How the modules compose

`PaymentSettlement` shows that a settlement commits at most once per payment; `LoyaltyLedger`
(`BookPayment`) and `CustomerAccess` (`ConfirmPayment`) start from there. It implements
`Settlement` under `paid` = prompts confirmed on the phone, `booked` = rows of transactions.
`PortalCheckout` and `InvoiceDesk` have the page's side of the same payment,
`SubscriptionGate` and `InvoicePolling` the page's side of `PlatformSubscription`, `CpePage`
and `CpeFleet` that of `CpeTasks`, and `ImportPlan` is the contents of the step that
`ImportRun` takes candidate by candidate.

`MCWaiting`, `MCDesk` and `MCNetwork` each gather the parts that share a question. The console
shows one page at a time, so a behaviour is about one part: `part` says which, from the first
state on, and `s1`, `s2`, ... are its variables, handed to the module by INSTANCE ... WITH. A
hub's property is the conjunction of what its parts keep, one conjunct `part = ... => Part!Property` for
each; the comment over each of those properties, in the component's module, names the code.
Where a part appears twice, the two instances differ in what goes wrong
(`shop` with readings that fail, `shopSure` without; `import` without restarts of the server,
`importDown` with), because different properties survive different faults. The sets and bounds of the
parts that are proved about are constants of the hub and get their values in its .cfg; those of the
other parts are written where they are instantiated.

## 4. Runs

Passing runs check what holds:

| Run | Instance | Shows |
|---|---|---|
| `MCPaymentSettlement` | 2 subscribers, 2 payments of one of them, 1 invoice that either may be for, 2 workers, 2 enforcers, 2 deliveries, 2 instants, symmetric; 917,801 states | `CreditedOnce`, `BooksAgree`, `CredentialsMatchSubscription`, `OnlySuspensionRemovesCredentials`, `PaymentAddsPeriod`, and that the handlers implement `Settlement` |
| `PaymentLiveness` | 1 subscriber, 2 payments, 1 invoice, 1 worker, 2 enforcers, grace 1, 3 instants; 117,756 states | `ExpiredIsCutOff`, `FoundPaymentIsBooked` |
| `MCCustomerAccess` | 2 accounts, 2 names, 1 plan, no time passing, symmetric; 38,611 states | `CredentialsBelongToLogin`, `RevocationIsComplete` |
| `CustomerPlans` | 1 account, 2 names, 3 kinds of plan, 3 instants; 30,627 states | the same, with both kinds of credential, expiry and retention |
| `MCPlatformSubscription` | 1 tenant, 2 prompts, 3 workers, 2 deliveries each, one billing run at a time, 4 days; 150,240 states | `OneOpenInvoice`, `PaidIsConfirmed`, `PaidPeriodsAreKept`, `LockedTenantCanPay` |
| `MCLoyaltyLedger` | 2 payments worth 0 to 2 points, 2 workers, 4 months, symmetric; 731,112 states | `BalanceIsBacked`, `OldestFirst` |
| `MCWaiting` | 16 parts; 348,345 states | `WhatIsSaidIsTrue`, `NothingIsTaken`, and the liveness properties `WaitingEnds`, `UnpaidMeetThePaywall`, `PaidIsFollowed` |
| `MCDesk` | 20 parts; 1,641,709 states | `SessionsApart`, `ShownIsStored`, `RecordsHold`, `OnlyAsAgreed`, `SecretsStay` |
| `MCNetwork` | 17 parts; 1,891,396 states | `FeedIsSpared`, `PlantIsAsSeen`, `UnitsAreHandled`, `ImportIsAsAgreed`, `NothingUnasked` |

Each also checks `TypeOK`. The parts of `MCWaiting`: gate, bill, shop and shopSure, signup,
import and importDown, scan and scanLossy, tasks, fleet, chat, client and clientMoving,
invoice and invoicePage. Of `MCDesk`: tabs and tab, clients, entry, editor, shelf and
shelfLossy, package and packageShared, route, vault, panel, chat, rivals, demo, lists,
listsPolled and listsLossy, settings, address. Of `MCNetwork`: wizard, services and blind, map and hasty,
nodes, ports, unit and unitLossy, tasks, fleetHasty, plan and planBack, file and fileGood,
cutover and cutoverOne.

What the hubs' properties are made of, in the words of the parts:

- `WhatIsSaidIsTrue`: a page that awaits an invoice polls it (`AwaitingIsPolled`); the receipt
  on the portal is of the order just made, also after Back and a second order
  (`ReceiptIsOwn`); a signup is complete only with a usable tenant, and the wizard never gets
  ahead of the row (`CompletedIsUsable`, `StepNeverAhead`); the banner of an import counts the
  clients that are there (`ResultIsTrue`, `MarkedIsReal`); a scan is ready only when whole
  (`ScannedIsWhole`), and with uploads lost shows what it stored (`ShownIsFound`); a list of
  devices, a chat and a client at rest are the stored ones (`RestShowsRows`, `PanelIsStored`,
  `StatusShownIsStored`); the pay dialog says paid only of a paid invoice (`ToldIsPaid`).
- `NothingIsTaken`: reverting leaves clients who paid, only finished scans are imported, an
  invoice loses neither its payments nor, unless a request names its status, being paid.
- `WaitingEnds`: every part comes to rest again and again: polls end, spinners stop, tasks of a
  device are done, failed or cancelled.
- `SessionsApart`: a login that asked not to be kept is never used by another tab, and calls go
  out as the user shown.
- `ShownIsStored`, `RecordsHold`, `OnlyAsAgreed`, `SecretsStay`: see the comments in `MCDesk`.
  Deep ones among them: a bulk deletion is never of more than was agreed to although the list
  moves under the question (`NeverMoreThanAgreed`), creating again after a lost answer makes no
  second account (`OneAccountPerLogin`), a masked secret sent back keeps the stored one on every
  path (`SecretsStay`), two forms never make two records of one press (`OneRecordPerForm`).
- `FeedIsSpared`, `PlantIsAsSeen`, `UnitsAreHandled`, `ImportIsAsAgreed`, `NothingUnasked`: see the
  comments in `MCNetwork`. Deep ones: an answer of a device is credited to the task it is of
  after cancellations, broken sessions and messages that answer nothing (`AnswerFindsItsTask`,
  `AnsweredWasRun`), clearing a port leaves
  assignments made by others meanwhile (`OthersStay`), nobody arrives from an import already
  expired (`NobodyArrivesExpired`).

Violation runs check one sentence of the repository each, and TLC finds the behaviour that
contradicts it (`PROJECT.json`, `findings`):

| Run | Sentence | What happens |
|---|---|---|
| `PaymentEarlyCallback` | MPESA.md:466, the callback finds the payment and completes it | the callback overtakes the commit of the pending payment, is accepted and lost |
| `PlatformTwoCallbacks` | SUBSCRIPTION.md:105, what one paid period buys | two copies of a success callback pass the paid check together and extend the tenant twice |
| `LoyaltyDoubleSpend` | loyalty.py:185, refuse points that are already gone | two redemptions load the same batch |

## 5. Bounds and suppositions

Every `Max...` constant is a bound, named where it is declared, and bounds stand in guards of
the actions that start something, never in those that finish it, so that nothing is left
waiting because of a bound. Two deliveries are enough for a duplicate, two payments of one
subscriber for settlements that race, two enforcers for runs that overlap; three workers let
two copies of one callback meet a replaced prompt's. The clock passes the end of the subscription a subscriber starts with, in `PaymentLiveness` also the
grace, and in `MCPlatformSubscription` the second period. In the pages two requests out together are
what puts answers in the other order (of the invoice list any number of readings are under way,
and any of them is answered next), two records what a mix-up needs, and one more order,
filter or poll than a single round needs what makes a stale answer meet a newer state.
The run `MCCustomerAccess` is symmetric in accounts and names, `MCPaymentSettlement` in workers, enforcers and
payments (all of one subscriber), `MCLoyaltyLedger` in payments and workers: no action treats one specially, and their temporal properties
are action formulas over all of them. Deadlock is not checked: once every
prompt is answered and the bounds are reached nothing has to happen.

Boolean constants say what an instance supposes, and the properties are kept only under that:

| Constant | Supposes, where set | Because otherwise |
|---|---|---|
| `Patient` (`PackageShelf`, `FiberMap`, `PortSheet`, `SettingsForms`), `Overlap` FALSE (`PaymentRoute`, `ProviderVault`, `IntegrationsPanel`, `FileImport`), `Switching` FALSE (`CopilotChat` in `MCWaiting`), `Moving` FALSE (`ClientRecord`, `client`) | the operator waits for an answer before the next step | late answers land on a page that has moved on: section 8. The same modules are also checked with `Patient` FALSE, `Switching` TRUE, `Moving` TRUE, for what holds even then |
| `Ordered` | answers in the order of the requests | a late reading replaces a newer one (`ShownIsAlwaysHeld`). `listsLossy` has it FALSE |
| `Careful` (`ImportRun`) | nobody commits or reverts a run that is importing | the server refuses neither: section 8 |
| `OneDesk` (a hypothesis of `WhatIsSaidHolds`; `MCWaiting` has one console) | the run that is imported is open on one page | two pages that both read the run at rest both start a thread, and either banner counts the other's clients |
| `Restarts` FALSE, `MayCrash` FALSE | the server is not restarted under a daemon thread | nothing takes the thread's work up again: section 8. `importDown` has it TRUE |
| `Losses`, `Lossy`, `MayFail`, `MayLose` FALSE in one of two parts | every answer arrives | the other part has it TRUE and keeps what survives |
| `Detected` (`services`) | the router names its uplink | `blind` has it FALSE |
| `Alone`, `Signal` (`PlantNodes`) | no pin is set between opening and saving the dialog; the phone knows where it is | the dialog writes old coordinates back, the last fix is pinned |
| `Edits` FALSE (`FileImport`) | choices are previewed before the import | the import button stays enabled |
| `Direct` FALSE (`RouterScan`), `Reloads` FALSE (`ImportPlan`) | a run is opened from its scan, a plan once | a blocked or unfinished run is importable by its address, stored decisions are not shown |
| `Others` FALSE (`PackageShelf`, `package`), one operator in `PaymentRoute` and `PlantNodes` | one operator | `packageShared` has two; a second operator of the payment settings who loaded an empty field can save it over the value the first has just put there |
| `PlatformKeys` FALSE (`PaymentRoute`) | no Daraja keys of the deployment | prompts go out without the tenant's keys |

## 6. Fairness

`PaymentSettlement!FairSpec` assumes that a request that has reached the database goes on
(weak fairness of `Settle`; a crash is a step of its own and needs no fairness), and that cron, which
`B/app.py` (572-576) wants to run `flask enforce-expiry` every quarter of an hour, starts run after
run, one of which is not killed at the step it has reached (strong fairness).
`ActivationRaises`, crashes, callbacks, answers and the clock are not fair. The liveness run has
one subscriber on purpose: a run commits all its suspensions together, so over several
subscribers a run that is killed after each first suspension never suspends the second.
`PlatformSubscription!FairSpec` is the same for the daily cron job.

`MCWaiting` has weak fairness of three actions and strong fairness of one. `Work`: a thread or
a handler that has started goes on (a crash, where there are crashes, is another step). `Asks`:
timers fire (`setInterval`, `setTimeout` and the Informs a device sends periodically).
`Answers`: a request ends; axios has a timeout (`F/utils/api.js`), so a lost answer ends in the
failure branch. `Turns` is strong: a device whose sessions break off has, again and again, one
that gets to its next turn. Users, Safaricom, losses, restarts and other operators are not fair. Each of
`Work`, `Asks`, `Answers`, `Turns` is fair as a whole and per behaviour about one part: where several
things of a part wait at once, the properties say only that the part comes to rest, and
each part's steps of one kind only decrease what is left to do.

## 7. Proofs

`PaymentSettlement_proofs` proves, for every number of subscribers, payments, workers and
enforcers and every period, grace and bound, from `PaymentsAssumption` alone: `TypeCorrect`,
`CreditedOnceHolds`, `BooksAgreeHolds`, `CredentialsMatch`, `CredentialsKept`,
`SettlementImplemented` and `PaymentAddsPeriodHolds`. None of the
invariants is inductive alone. A settlement in progress is only harmless if no other worker is
in the same critical section, the payment it was sent for was confirmed, and its row is still
unbooked or its commit will be refused. The invariant the proofs use is

    BooksInv ==
        CreditedOnce /\ BooksAgree /\ RowsAgree /\ RequestsAgree /\ OneSender /\ InvoicesAgree

`RequestsAgree` ties a handler's state to Safaricom's and to the row it will write, `OneSender`
says that at most one worker is between push and commit for a payment, and `RowsAgree` ties
payment rows to prompts and the ledger. `InvoicesAgree` is about prompts that share an invoice: a
settlement that found it paid writes no status, and the prompt that paid it is booked.
`CreditedOnce` then follows from the guard of the unique
index at the commit, `BooksAgree` from the commit writing all tables or none; it says nothing of the
status of an invoice that an operator has set by hand (`SetInvoiceStatus`, history `edited`). The refinement maps
`Answer` to `Confirm`, `CommitSettlement` to `Book` and everything else to a stutter; that a
booked payment was confirmed comes from `RequestsAgree`. `PaymentAddsPeriodHolds` adds
`LoadedIsCurrent`: what a crediting worker loaded is what the customers table still holds, unless
another settlement of the same subscriber overtook it. The history `overtaken` names exactly those
payments, and `PaymentExtends` (section 8) what they lose; with `OneCreditor`, the row lock of the
payment, the theorem says that nothing else costs a subscriber a period.

`CustomerAccess_proofs` proves, for any accounts, names, plans, period and retention, from
`CustomerAssumption`: `AccessTypeCorrect`, `CredentialsBelong` and `RevocationComplete`. The
inductive invariant is `AccessInv == TypeOK /\ CredentialsBelongToLogin`. Most operations keep
the login of every account (`NamesKept`) and write rows only under the login of the account
they are for (`RowsOwned`); from these two the invariant follows once, in `KeptAndOwned`.
Renames and deletions are handled apart: a rename removes the rows of the old login before it
writes any, and by the invariant the account has rows nowhere else. The invariant is also why
cutting off is complete: code that removes the rows of one login has removed all of the
account's. The last theorem adds `DeletedIsBlank`, that an account that does not exist has no
status to lose.

`PlatformSubscription_proofs` proves, from `PlatformAssumption`:
- `PlatformTypeCorrect`, by `Typed`: `TypeOK` with finitely many invoices, a finite set of new
  ones in each run, and a busy worker's invoice on file (so that the rows it writes exist);
- `PaidConfirmedHolds`, for any workers, billing runs and copies of callbacks. `PromptsAgree`
  says that the phone, the rows and the requests in flight mean the same invoice by a checkout
  request, and that what is settling was confirmed: a prompt that replaces another one, or is
  forgotten, opens a request no row and no worker knows (`PushedIsNew`). The count of paid
  invoices grows by at most one where a period is bought, also when a copy settles again;
- `OneProcessBillsOnce`, with the hypothesis that one process runs the command. `RunAgrees` says
  that what a run has looked at or is about to add has no invoice to pay and is not looked at
  again; settlements in between only make fewer invoices open (`FewerPending`). With two
  processes the step `CommitRun` breaks it, which is `PeriodBilledOnce` of section 8;
- `PaidPeriodsKeptHolds`, under that hypothesis and `Period > Lead` (by default the code has 30 days and 7),
  for any number of tenants, workers, prompts and copies of a callback. A settlement writes an
  expiry it computed from one it loaded, and a copy that settles a paid invoice once more may
  write one that is larger than it should be or smaller than the last. What makes it harmless is
  `LoadedKeeps`: what a worker loaded makes up, with the period it adds, for every invoice that is
  paid and for one more where the tenant has or may get one. That there is at most one more to
  come while a copy is under way is `SettledAlready`: having just been paid for, the tenant is
  beyond the lead of the next billing run, so only a selection made before can still add an
  invoice. `Owed` counts periods by the cardinality of the paid invoices.

`LoyaltyLedger_proofs` proves, from `LoyaltyAssumption` alone and for any number of workers,
payments, worths, lifetimes and clock readings: `LoyaltyTypeCorrect` (no batch is ever consumed beyond its points,
although two redemptions may spend the same ones: `NeverOverdrawn` is broken, section 4),
`BalanceHolds` and `OldestFirstHolds`. What requests took is `charged`, batch by batch, and the ledger's
redemptions and write-offs sum up to it always, also when two of them took the same points. A batch
says `charged` or less: an UPDATE writes the value computed from what was loaded, so a request
that is overtaken makes its batch say less than was taken, never more. That is `LedgerAgrees`, and
the inequality of `BalanceIsBacked` follows. `overtaken` are the workers that hold a value another one has
replaced; for the others what they loaded is what is stored, and while none of the overtaken
has committed (`~raced`) both say the same. `OldestInv` adds, under the same condition, that the batches are
in order now and will be once any request under way is written, also when others lapse in between.
Sums over the
batches are a recursive function on numbers, and the facts about them (`SumTo` of one more row,
of a difference, of rows that are each at most others) are proved by induction over a *set* of
numbers, with the least element of its complement (`NumberInduction`): no operator parameter is
needed for that.

`MCNetwork_proofs`, `MCDesk` and `MCWaiting` prove properties of the hubs. A step of a hub is a step of the part
the behaviour is about (`TasksSteps`, `RouteSteps`, ...), which never changes (`PartStays`), so an
invariant is a conjunction `part = "x" => XInv` with an inductive invariant of each part. The
bounds and sets of these parts are constants of the hub, so that a theorem holds for all their
values; booleans that suppose something (section 5) are set where the part is instantiated and
remain hypotheses.
- `UnitsAreHandledHolds`: any number of tasks, attempts, orders and requests. `TasksInv` says that
  the task of a busy session is one that was handed out, that no other is marked sent, and that
  rows are handed out oldest first; so an answer is credited to its own task, or to none when a
  cancellation, another message or a TransferComplete has closed that meanwhile. A task is done
  only when it ran or when it is `claimed`, that is, when one of the two closed it;
  `UnitInv` that the page misses no task but the one
  being ordered; `FleetInv` that the list is loading only while a reading is out.
- `FeedIsSparedHolds`: any ports, any of them the uplink, any devices and readings. `WizardInv` ties
  what the page is about to send, and what it says was applied, to a router that exists and the
  port that serves it; `ServicesInv` adds that the uplink is up when the guard looks for it.
- `SessionsApartHolds`: any set of tabs and logins. `OptedOutInv`: whoever is shown has a login of
  the tab's own or one that was to be remembered, and only the latter are in localStorage.
  `ShownInv`, of one tab: whoever is shown is who a reload would find. Both are proved in
  `ConsoleSession` for every tab set (the second assuming one tab) and cited through the
  instances. With two tabs that both stay signed in, the second login changes the user the
  first one's calls are made for, and only the weaker statement is claimed.
- `SecretsStayHolds`, an action property: any providers, integrations, values and numbers of edits
  and requests. `PanelInv`: no stored password is in the console, so what is sent is a mask, a
  blank or one just typed, and a switch turned in the list sends no password at all. `VaultInv`:
  forms and requests hold whole sets of credentials. `RouteInv`: nothing that can be sent
  would empty a field that nobody emptied, unless an answer is on its way, and then the row is
  what was sent; the header's button is the hard case, since it sends the fields an effect saw
  last (`Rechrome`) and not those on screen.
- `NothingIsTakenHolds`, an action property of the imports, the scan whose uploads arrive, and the
  invoices: any consoles, candidates, threads, runs, chunks, invoices, totals and bounds. Of an
  import, `PaidExist`: who paid is a client, so a revert, which spares those that paid, can only
  take others; also when the server is restarted. `ScanInv`: an upload token is only of a run of
  the agent and a thread only of one over SSH that is still scanning, so no late upload or
  thread makes a run that is shown go back, and what is committed from the screen ended as
  scanned. `BillsInv`: no payment is of an invoice that does not exist, since `delete_invoice`
  cuts them loose, and a new invoice takes a number no payment has, so that a callback that comes
  late cannot make an invoice out of nothing nor `SaveNew` write over one that is paid. The form
  names no status, and what makes a paid invoice due again is only `NameStatus`, a request of the
  API that does: that step the property excepts by name. The
  invoice's own page differs from the list in what a poll does to the dialog
  (`InvoicePageStep`).
- `PlantIsAsSeenHolds`: any nodes, places, ports, cables and numbers of requests. `DrawnInv` says of
  everything that may yet be drawn (the server's places, readings at any stage, drags that are
  stored) that it was accepted; it is kept by one who waits and by one who does not, since the
  handlers of answers are the same (`HastyStep`). `TraceInv`: the traces under way are of the node
  selected. `NodesInv`: a form has the coordinates of its row, because one operator does not pin
  while he edits. `SheetInv`: what a dialog is about was free, and is assigned, on the node it was
  opened on.
- `ImportIsAsAgreedHolds`: any profiles, prices, files, people, runs and bounds. `RunInv`: a commit is
  asked for only while nobody is imported, so the guard that counts those past their date sees
  all who will be. `PriceInv`: where no run is reverted no package of a profile is there before
  the commit. `FileInv`: what runs is of the text the page still holds, and the rows it holds back
  are of people who are no clients. `GoodInv`: when no creation raises, a row that was reported
  is one that is held back, since the file's package is made first. `MovesInv` and `OneInv`: a
  script of a batch names clients only, a rollback everybody, and while the router does not ask
  Infora every login is on that was.
- `NothingUnaskedHolds`, an action property, from the same invariants and two more. `OlderShut`: the
  task a session is busy with is the oldest that was open when it was sent, so that when it runs
  no older one waits. `PassTyped`: a password is in the form or in an order only since one was
  typed, also when answers are lost, for then only requests fail (`LossySame`).

- `WhatIsSaidHolds`, under `OneDesk`: what the pages that wait say of money, runs, routers and
  accounts is so, in twelve parts and for any number of persons, e-mails, clients, invoices, orders,
  runs, chunks, CPEs, threads of a chat and requests. Its invariants are one for each part.
  `DuesInv`: nothing is of a mount of the payment page that is to come, so no interval is left
  over for one. `SaleInv`: the portal waits for one order at a time, which is for what is
  selected, and then for that order's prompt. `SignupInv` ties the wizard's step, also the one a
  stored token would resume, to what the sign-up's row supports, and the row to the job that
  provisions it: an administrator is there before the row is completed, although answers are lost,
  the page is reloaded and a process dies. `ImportInv`: a thread works only on a run that is
  importing, alone, on candidates that have no client yet, and a page that polls has no banner, so
  the banner is of the import that completed; the server may be restarted or not.
  `WholeInv`: while a run's token counts, every upload before the one its script is at has
  arrived, so the last one completes the set the findings are read from; `SeenInv`, with
  uploads lost: a token is only of a run of the agent, so a late upload never reaches a run that was
  read over SSH, whose findings are whole and blocked as the router is. `FleetInv`: the list
  shows nobody as waiting for approval who is not, but for an action done whose reload is to come.
  `ChatInv`: the panel's transcript is the stored one up to the
  question or the answer that is on its way, which is why a failed answer, shown and stored as
  an error on both sides, leaves them equal. `RecordInv`: a client's page reads after, and never
  during, a request that changes the status, and at most one request of a kind is out. `ToldInv`:
  what the pay dialog polls is a payment that was made, and completed payments stay so
  (`PaymentsStay`), so nobody who was told of one is told wrong later.
- `OnlyAsAgreedHolds`, an action property: any clients, types, page sizes, speeds, prices, sizes,
  and numbers of edits and reads. `ClientsInv`: a deletion
  by filter that is asked, or under way, was typed for. That none takes more than was agreed to, however
  the list moved meanwhile, is the server's count of its targets against that of the question
  (`FS_Subset`). `EditorInv`: an
  untouched form is that of the stored package, for packages the form itself made. `PackageInv`:
  with one operator the page shows the package but for a flip on its way back, and all of its
  clients fit on the page that counts them.
- `RecordsHoldAlways`, eleven parts, from the same invariants and these. The editor's also says that
  the rows of the group are at the speed saved last. Of a new account and of both pages of a package the
  property is its own invariant. `ChatInv`: a request under way has a question number of its own, and
  its question is in its thread once while the thread is; answers, failures, touches that cut
  the order and a second machine add turns of other questions only (`GoesOn`). `RivalsInv`: a
  row that waits for its job is the row of that job; a tenant or administrator is made only where
  there is none and nobody loses one, so a row that is completed has both. `DemoInv`: payments and
  transactions are entered in one request. `ListInv`: where Save is off while it is under way, at
  most one request of a form is out, and a form not sent, or sent and not served, leaves fewer
  records made than forms opened; one invariant serves the 39 pages, with polls and without.
  `SettingsInv`: a call that saves carries a text without blanks, and so does a form that is ready,
  on the tabs that offer no Save after a failed reading (RadiusSettings does, section 8).

Only model-checked:
- liveness (`ExpiredIsCutOff`, `FoundPaymentIsBooked`, `LockedTenantCanPay`, `WaitingEnds`,
  `UnpaidMeetThePaywall`, `PaidIsFollowed`): fairness and ENABLED are out of the prover's reach;
- `ShownIsStored` of `MCDesk`: that the demo's ids are unique and its pages cover a list, and that
  the copilot saw what is stored, rest on `SelectSeq`, `FlattenSeq` and `SubSeq` of filtered
  sequences, which is induction over data; invariants of the other pages have not been worked out;
- `TypeOK` of the hubs, which is one conjunct for each of 53 parts.

## 8. What the sources say and the code does not keep

The statements below are sentences of the repository, or what its screens say, written as
properties in the modules. Each is broken by what the code does. The first three are runs of
their own (section 4) and are not repeated here; each of the others is found the same way, by a
configuration with the constants of the module's part and the one property.

**Payments, access, the tenants' bill**

| Statement | Says | Broken by |
|---|---|---|
| `PaymentSettlement!OnlyExpiredAreSuspended` | subscription_expiry.py:16, expired customers are suspended | a run selects its customers once; a renewal committed meanwhile is undone by the run's commit |
| `PaymentSettlement!BookedIsActive` | radius_provisioning.py:340, a payment activates | a settlement that loaded ACTIVE does not write the status, so a suspension in between stays |
| `PaymentSettlement!PaymentExtends` | PppoePortalPage.jsx:188, the payment adds a period | two settlements that load the same end write the same new end |
| `CustomerAccess!NonActiveHasNoRows` | fup_enforcement.py:63 | an edit of the plan provisions the rows of an account that is PENDING or SUSPENDED (billing.py:257) |
| `CustomerAccess!UsernamesAreUnique` | radius_provisioning.py:72 | the billing form checks e-mails only, and an e-mail may be someone's `radius_login` |
| `PlatformSubscription!PeriodBilledOnce` | platform_subscription.py:194 | two billing runs, or a run and a payment, see the same period unbilled |
| `PlatformSubscription!AcceptedIsSettled` | models.py, `PlatformInvoice` | a second prompt replaces the checkout id under which the first is then confirmed |

With overlapping billing runs, or with periods no longer than the lead, a period granted twice may
be taken back by a settlement that loaded the expiry before; `PaidPeriodsAreKept` is proved for
one process that bills and longer periods (section 7), whatever the number of workers and copies.

**Pages that wait (`MCWaiting`)**

| Statement | Says | Broken by |
|---|---|---|
| `SubscriptionGate!FirstPaintIsHeld` | SubscriptionGate.jsx:29 | the refresh begun for the previous user opens the gate (SubscriptionContext.jsx:41) |
| `SubscriptionGate!SettledUnlocks` | PlatformSubscriptionPage.jsx:248 | a 402 computed before the payment is delivered after the refresh |
| `InvoicePolling!PollsUntilPaid` | PlatformSubscriptionPage.jsx:167 | the late answer of a replaced interval clears the newer one (:182) |
| `PortalCheckout!PaysForAccountShown` | PppoePortalPage.jsx:313 | the account is taken from the text field, package and price from the status on screen (:203) |
| `Onboarding!LostRaceResuggests` | tenant_provisioning.py:88 | both find the subdomain free (:89); the second insert raises and the job fails |
| `Onboarding!EmailShownIsAccounts` | Step4Locale.jsx:7 | correcting the number sends number and country only (OnboardingWizard.jsx:225) |
| `Onboarding!ResubmitRetargets` | OnboardingWizard.jsx:216 | the server refuses with 409 once the phone is verified (:382) |
| `Onboarding!DroppedOnlyWhenDead` | OnboardingWizard.jsx:120 | any failed reading of the session drops the token (:121) |
| `Onboarding!JobRunsOn` | ProvisioningScreen.jsx:70 | the daemon thread dies with the server (tenant_provisioning.py:306) |
| `ImportRun!RevertedIsEmpty` | commit.py:349, ImportRunDetail.jsx:151 | the thread that imports goes on creating after the revert |
| `ImportRun!NoneLeftBehind` | commit.py:242 | a revert that reopens candidates meanwhile (:323) is overwritten with `completed` at the end, and their commit is then refused |
| `ImportRun!BannerIsOfCompleted` | ImportRunDetail.jsx:104 | the banner stays when the run is reverted (:116) |
| `ImportRun!MarkedIsReal`, `ImportRun!ImportSettles` | - | kept only if nobody commits an importing run (imports.py:434) and, the second, without a restart (commit.py:314) |
| `RouterScan!ScannedIsWhole` | - | not with lost uploads: what has arrived is what is parsed (commands.py:385) |
| `RouterScan!BlockedStays`, `RouterScan!ImportedIsScanned` | - | not with `Direct`: the address of a run is importable whatever its state (imports.py:434) |
| `RouterScan!ScanSettles` | - | not after a restart (scan.py:325) |
| `CpeTasks!RunsOnce` | session.py:249 | a task whose answer is lost is handed out again, up to `max_attempts` |
| `CpeTasks!DoneWasRun` | session.py:307, a response is recorded against the task that caused it | any message but the empty one closes the oldest sent task as done, also right after an Inform (tr069.py:230), and a TransferComplete the task its key names, whatever its device and state (:205) |
| `CpeFleet!EnrolledSkipsQueue` | Tr069EnrollDialog.jsx:112 | a unit enrolled by serial alone has another key and opens a pending row (cpe.py:516) |
| `CpeFleet!LostIsReenrolled` | Tr069EnrollDialog.jsx:104 | 409 while its row exists, and the console deletes pending rows only |
| `ClientRecord!DeletesWhoIsNamed` | ClientDetail.jsx:909 | a late record is shown; the deletion is of the client in the address |
| `ClientRecord!PasswordIsOfClient` | customerService.js:89 | the revealed password is not cleared when the client changes |
| `ClientRecord!PasswordIsStored` | customerService.js:89 | revealed before a reset, answered after it |
| `CopilotChat!PanelIsStored` | - | not with `Switching` or `Losses`: answers land in the chat now open, a failed question is not read again |
| `CopilotChat!ScreenIsSeen` | copilot_threads.py:25 | the panel shows the whole thread, the model gets the last turns |

**Records and settings (`MCDesk`)**

| Statement | Says | Broken by |
|---|---|---|
| `ConsoleSession!NothingLeftBehind` | login.jsx:263 | the token is always written to localStorage too (AuthContext.jsx:117) |
| `ConsoleSession!OnlyDeadCredentialsCleared` | api.js:72 | a 401 clears the credentials without comparing them with those it was sent with (:77) |
| `ClientsConsole!DeletesTypeShown` | ClientsPage.jsx:87 | the question stays open while Back, or a late list, changes the type under it |
| `ClientsConsole!WholeListIsTyped` | ClientsPage.jsx:293 | only an unfiltered deletion counts as everything (:286) |
| `ClientEntry!ChosenPasswordIsKept` | ClientForm.jsx:447 | the password is stored only by a form that provisions at once |
| `PackageEditor!ThrottledIsNotCut` | `generate_radius_attributes`, a throttled user is not cut off | the group's byte cap still applies to a throttled client |
| `PackageEditor!FlagIsThrottle` | fup_enforcement.py, the flag tracks the state | a save or a payment restores full speed and leaves the flag |
| `PackageEditor!LabelIsGranted` | the duration in the list | a trial or bundle of hours is granted 30 days |
| `PackageEditor!CapIsSaved` | `reprovision_plan_customers` | a cap edited away stays in the group's rows |
| `PackageEditor!BundleIsCapped` | PlanForm.jsx, a bundle has a limit | a bundle below half a GB is stored as 0, no cap |
| `PackageEditor!UntouchedSaveKeeps` | - | only for packages the form itself made (`Stored` <- `FormMade`) |
| `PackageShelf!RowsAreOfFilter` | - | not unless `Patient` (ServicePlansPage.jsx:116) |
| `PackageShelf!CardsAddUp` | - | not with other operators: the cards and the list are two readings (:97, plans.py:539) |
| `PackageDetail!ButtonDoesAsItSays` | - | the server flips what is stored (plans.py:466), so not with two operators |
| `PackageDetail!AllAreCounted` | - | only the first 20 customers are counted (PlanDetail.jsx:44) |
| `PaymentRoute!ActivationMovesRoute` | PaymentsSettings.jsx, using a gateway only moves the route | what is typed and unsaved is sent with the activation |
| `PaymentRoute!SwitchedIsActive` | PaymentsSettings.jsx:461 | stored Daraja keys come first whatever is switched on |
| `PaymentRoute!PromptOnlyWhenOn` | PaymentsSettings.jsx:735 | nothing reads `method_mpesa` (mpesa_service.py:96) |
| `PaymentRoute!PromptNeedsKeys` | PaymentsSettings.jsx:632 | falls back to the keys of the deployment (mpesa_service.py:43) |
| `PaymentRoute!OnlyByHand`, `PaymentRoute!SavedIsShown` | - | not after a failed load, with two consoles or with overlapping saves |
| `ProviderVault!ActiveHasCredentials` | MessagingSettings.jsx:27 | activation does not ask for them (settings.py:1748) |
| `ProviderVault!ShownIsOfChannel` | MessagingSettings.jsx:19 | one component instance serves SMS and WhatsApp (:303) |
| `ProviderVault!ActiveIsSentThrough` | MessagingSettings.jsx:441 | the switch of the All integrations page turns its row off (IntegrationsSettings.jsx:289) |
| `ProviderVault!DoneIsSentThrough` | dashboard.py:404 | the checklist knows Africa's Talking only (:412) |
| `IntegrationsPanel!HeaderIsSource` | EmailSettings.jsx:67 | computed from the unsaved fields (:69) |
| `IntegrationsPanel!ConnectedIsSource` | IntegrationsSettings.jsx:26 | no host is asked for (:312), and mail without one goes by the platform's server |
| `IntegrationsPanel!ListIsStored` | - | not with overlapping switches: a refused one puts the whole map back (:292); not after a failed load (:273) |
| `InvoiceDesk!PaidStaysPaid` | - | not of a client of the API that names a status (invoices.py:271, :346), which makes a paid invoice due again |
| `InvoiceDesk!AmountIsItems` | InvoiceForm.jsx, "Update invoice details and line items" | an edit changes the amount, the items stay |
| `DemoBackend!NewCustomersHaveNoPast` | router.js:5 | the next id is the largest in use plus one (store.js:39), so that of a deleted customer, whose payments are left |
| `DomainAddress!VerdictIsOfTyped` | - | the late answer lands after a name that needs no lookup was typed |
| `DomainAddress!ArmedForTyped` | - | editing does not reset the confirmation |
| `RecordPages!ShownIsAlwaysHeld` | - | on pages that filter by request a late reading replaces a newer one |
| `RecordPages!OneRecordOfAnyForm` | - | forms without a disabled button make two records of two presses |
| `RecordPages!DrawerStays` | - | a late reading replaces the drawer of CustomerKycPage |
| `SettingsForms!UnchangedIsAlwaysStored` | - | OperatorAlerts saves in two calls, then Reset; AiAssistant after a refused reading |
| `SettingsForms!SwitchesAreAlwaysStored` | - | of two overlapping switches the refused one puts a stale copy back |
| `SettingsForms!BlankIsNeverSaved` | - | RadiusSettings after a failed load |
| `SettingsForms!TypedIsKept` | - | what is typed during a save is replaced by the answer |

**Routers, units, imports (`MCNetwork`)**

| Statement | Says | Broken by |
|---|---|---|
| `AddDeviceWizard!RolesReflectRouter` | AddDeviceWizard.jsx:183 | any answer is applied and clears the spinner (:157); step 3's reading may be answered after step 4's was asked |
| `AddDeviceWizard!PortsAreOfThisRouter` | AddDeviceWizard.jsx:724 | the reading of an earlier device is kept (:151) |
| `AddDeviceWizard!SummaryIsOfThisRouter` | AddDeviceWizard.jsx:1098 | Back to step 1 and a second registration while the configuration of the first router is under way: its result becomes the summary of the second |
| `RouterServices!ShownIsApplied` | - | the guard may drop every port; the roles asked for are stored as applied |
| `RouterServices!FeedStaysOffBridge` | - | only if something names the uplink; not in `blind` |
| `FiberMap!DragWritesThrough` | FiberMapPage.jsx:220 | two drags answered in the other order (:224) |
| `FiberMap!TracingIsReal` | FiberMapPage.jsx:822 | a failed trace leaves null, which reads as tracing |
| `FiberMap!TraceOfSelected` | - | only for a patient operator |
| `PlantNodes!PinSurvivesEdit` | - | needs `Alone`: the dialog writes the coordinates it opened with (FiberNodesPage.jsx:51) |
| `PlantNodes!PinnedWhereStanding` | - | needs `Signal`: the last fix is used (mobile app/fiber/index.tsx:102) |
| `PortSheet!SheetOfSelected`, `PortSheet!AssignedWhereOpened` | - | need `Patient` (FiberSplicePage.jsx:218, :377) |
| `CpePage!NothingChangedIsTrue` | Tr069DevicePage.jsx:127 | compared with the row, not with what is queued |
| `Cutover!SuspendedStayOff` | adoption_script.py:143 | the rollback enables every login (imports.py:570) |
| `Cutover!BatchMoves` | ImportCutover.jsx:20 | each batch is the same first rows (imports.py:542) |
| `Cutover!ScriptIsOfChosen` | ImportCutover.jsx:147 | the script stays when another run is chosen (:178) |
| `Cutover!RollbackAtHand` | ImportCutover.jsx:105 | only completed runs are listed |
| `Cutover!ServiceIsKept` | - | not with two runs (a rollback removes the RADIUS entry they share) or clients without a password |
| `FileImport!BadRowsAlone` | customer_import.py:470 | the rollback after a failed row ends the transaction of the rows before it, which are reported as imported (:574) |
| `FileImport!TextIsOfFile` | ImportClients.jsx:72 | the name is set at once, the text when the reader ends |
| `FileImport!ReportedIsStored` | - | not with bad rows, for the same reason |
| `FileImport!ImportedIsPreviewed`, `FileImport!PreviewIsOfText` | - | not with `Edits` or `Overlap` |
| `ImportPlan!StoredIsShown` | imports.py:397 | stored decisions are not sent back (:135) |
| `ImportPlan!NoAutoCreate` | commit.py:156 | a skipped package that a row names is created, at price 0 (:157) |
| `ImportPlan!PreviewIsOfAnchor` | ImportRunDetail.jsx:344 | the preview of an earlier anchor stays |
| `ImportPlan!PreviewIsOfImport` | imports.py:415 | the preview counts static clients, the import skips them |
| `ImportPlan!StaticIsTold` | ImportRunDetail.jsx:440 | the counts lack `skipped_static` (commit.py:233) |
| `ImportPlan!PriceIsAsSet` | - | not after a revert: packages outlive it (commit.py:118) |

One defect needs no behaviour: the link to the adoption script is a plain `<a href>` to an
endpoint that accepts its token in a header only (config.py:18).

## 9. Not modelled

- **Outage compensation**: a monitor thread credits downtime to `subscription_end`; two monitors
  may credit one outage twice, and the credit does not rewrite radcheck.
- **Vouchers**: `use_count` under concurrent redemption. The voucher pages are in `RecordPages`.
- **WireGuard address allocation** and the router's half of a peer; `CustomerAccess` has the
  peer rows.
- **RADIUS accounting, evidence windows, WAN failover, port-rate polling**: data from outside
  the program decides nearly everything.
- **The server's side of login, two-factor and reset**; `ConsoleSession` has the console's.
- **Parsing and formatting**: RouterOS output, SOAP, column aliases, telephone numbers, dates.
  The models begin with what was parsed.
- **Due dates and notes of invoices** and the texts of refused edits. The invoice list cancels no
  reading, so a late one leaves the rows of another tab: nothing is claimed of which rows it shows.
- **Amounts and currencies**, layout, navigation, charts, themes, and the mobile application
  apart from its fiber survey.
- In `CustomerAccess` each operation is one transaction and the grace is 0; changing the type of
  an existing plan and `refresh_expiration_attributes` are left out.
- A prompt has one outcome; a transaction the database aborts on a deadlock is covered by the
  crash before its commit; an account with neither e-mail nor login does not occur; there is one
  tenant except in `PlatformSubscription`, and the tenant filter is taken to work.
- Liveness and most pages are checked and not proved (section 7 lists which).

`PROJECT.json` lists every component with its status, and the hazards no property covers with
the reason.

## 10. What could come next

`OutageCredit` (two monitors, one outage), `VoucherRedemption` (the count under concurrency),
`WireGuardAddressing` (two allocations of one address); more records of `RecordPages` (campaigns,
SMS, e-mail, reports). Of proofs:
`ShownIsStored` of `MCDesk`, page by page; type
correctness of the pages.
