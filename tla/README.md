# CryptoLink: a verification development

CryptoLink is a self-hosted, non-custodial cryptocurrency payment gateway written in Go on
PostgreSQL. A merchant creates an invoice ("payment"); a customer chooses a currency on a payment
page, which creates a *transaction* with a recipient address; background jobs poll the chains, book
what arrives, confirm it, credit the merchant, expire what nobody paid, and notify the merchant by
webhook. No in-memory state is shared between requests and jobs: everything meets in the database,
at PostgreSQL's default isolation level (READ COMMITTED) and mostly one statement at a time. The
interesting behaviours are therefore the interleavings of statements, what a crash or an error
between two statements leaves behind, and what a job does with a row it read earlier. Merchants,
administrators and customers meet the server through three single-page applications written in
TypeScript and React. A browser tab runs one handler at a time, but every `await` lets another one in:
there the interesting behaviours are answers that come late, in another order or not at all, and
handlers that go on with what they closed over.

This directory holds TLA+ models of those parts, configurations for TLC, and proofs for TLAPS.
All paths below are relative to `src/` unless they start with a module name.

## 1. The system

### 1.1 Components

| component | where | state | operations |
|---|---|---|---|
| payments | `internal/service/payment` | `payments` (status, expires_at, customer, webhook time) | create, update, MarkPartial, Resolve, Decline, expiry batch |
| transactions and fills | `internal/service/transaction` | `transactions` (status, fact amount, hash), `transaction_fills` | create, Receive, Confirm, Cancel, RecordFill, sums, recheck list |
| processing | `internal/service/processing` | none of its own | payment page (method, lock), inbound transfers, receipt checks, expiry, recheck, cross-currency matching, topups |
| chain watcher | `internal/service/watcher` | block cursors, known UTXOs | lists pending transactions, scans chains, duplicate check, callback |
| extended public keys | `internal/service/xpub` | `xpub_wallets`, `derived_addresses` | import, next unused, derive, mark, deactivate |
| wallets, balances, audit log | `internal/service/wallet` | `balances`, `balance_audit_log` | EnsureBalance, increment/decrement, confirm, resolve |
| scheduler | `internal/scheduler`, `internal/app` | none | cron entries: watcher 15 s, receipts 30 s, expiry 2 min, recheck 5 min |
| advisory lock, pool | `internal/lock`, `internal/db` | PostgreSQL advisory locks, pooled connections | `Locker.Do`, `RunTransaction` |
| events and webhooks | `internal/bus`, `internal/event`, `internal/webhook` | pending handler calls | publish, deliver, activate a subscription, notify |
| subscriptions, plan limits | `internal/service/subscription` | `subscription_plans`, `merchant_subscriptions`, `usage_tracking` | limit checks, purchase, activation, assignment, cleaning up |
| marketing | `internal/service/marketing` | campaigns, recipients, sequences, enrollments, the day's quota | create, launch, pause, resume, cancel, the sending loop |
| collectors | `internal/service/evmcollector`, `contracts` | contract registry | deploy and sweep contract addresses |
| merchants, users, registry, e-mail | `internal/service/*` | rows of their own | CRUD, messages |
| payment page | `ui-payment/src` | the payment on display, timers | load, choose, lock, poll, show the result |
| dashboard shell | `ui-dashboard/src/app.tsx`, login, merchants, settings and fee pages | chosen merchant (also in local storage), the merchant on display | sign in and out, choose, create, delete, save |
| collectors in the browser | balance, wallet-setup and the administrator's contracts page, `utils/*-wallet.ts` | modals, lists; the wallet extension's chain | deploy, register, remove, withdraw |
| lists | payments, links, customers, API keys; `queries/*` | the query cache | page, add, delete, resolve, decline |
| import of a key | `wallet-setup-page.tsx` | four views | import, compare, keep, delete, derive |
| administrator's pages | `pages/admin/*` | rows on display | plans, users, contracts, mailings |
| HTTP APIs | `internal/server/http/*` | none | decoding, middleware, calls of the services |
| providers | `internal/provider/*` | caches | HTTP clients of nodes and price feeds |
| money | `internal/money` | none | decimal arithmetic and comparison |

### 1.2 Interactions

    payment page ---SetPaymentMethod---> processing --create/cancel--> transactions
         |                                  | address
         +---LockPaymentOptions             v
                |                         xpub  (or a collector contract)
                v
    watcher --(pending, hash is null)--> scan --onDetected--> processing
                                                                 | RecordFill, MarkPartial, Receive
    receipts job --(inProgress)--> receipt --Confirm/Cancel--> transactions + balances
    expiry job   --(expires_at passed)--> Receive/Cancel, payment underpaid/failed
    recheck job  --(partial, old fills)--> fills reorged
    merchant     --Resolve/Decline--> payment (+ balance)
    every payment update --bus--> webhook, subscription activation, notification

    browser tab --requests in slots, answered in any order--> server
        |  payment page: polls of one payment
        |  dashboard: one chosen merchant, shared by all pages and by every handler under way
        +--> wallet extension (its own current chain) --> contracts on the chains --> registration
    payment created --check--> plan limits <--count-- payment succeeded
    marketing loop --(quota of the day)--> e-mail --> recipient, enrollment marked

Only two mechanisms order concurrent work: the advisory lock around `SetPaymentMethod`
(`processing/service.go:302`) and the atomicity of single statements and of the few
`RunTransaction` blocks (`Confirm` with its balance update, `Cancel`, `EnsureBalance`).
`makeCron` (`app/app.go:286`) runs a job at every tick, also while the previous run is still
going, and two server processes would run every job twice.

### 1.3 What makes it correct, and what makes that hard

- *Money.* An on-chain transfer is counted once per invoice; a merchant is credited once, and not
  more than the customer sent; nothing completes without a confirmed receipt or below the price.
  Hard because the sum, the duplicate check, the status and the write that depends on them are
  separate statements of five jobs.
- *Progress.* A transaction in progress settles, a waiting payment ends. Hard because jobs crash
  between statements and each partial fill moves the deadline.
- *The payment page.* At most one live transaction per invoice; a locked form stays locked and can be
  paid. Hard because of stale reads before the lock, rate providers that fail between two
  statements, and the connection pool under the lock.
- *Addresses.* An address belongs to one payment; indexes are consecutive. Hard because wallets
  may share a key and because taking an address and marking it are apart.
- *Delivery.* A merchant learns of each status change. Hard because delivery is asynchronous,
  unordered, in memory, and reads the status when it runs.
- *The customer's view.* The page never shows a result the payment did not have, never goes back, and
  follows an address until there is a result. Hard because polls overlap with the customer's acts.
- *The merchant's view.* What is shown, saved, deployed or deleted is the chosen merchant's. Hard
  because the choice may change while handlers are under way, because two caches (the query cache,
  local storage) do not name the merchant or the user, and because the extension has a chain of its own.
- *Mailings.* Nobody gets a mail twice or after a cancellation, the quota holds. Hard because the
  mail, its mark, the counters and the quota are four statements, and a send may be repeated.
- *Plans.* A paid plan is paid for, a payment over the limit is refused, every payment is counted.
  Hard because the handlers are several statements without a transaction, beside an administrator
  who edits, assigns and deletes.

The hazards, each at its line, are listed in `PROJECT.json`.

## 2. Plan

| step | module | composes / abstracts | state |
|---|---|---|---|
| 1 | `Invoice`: detection to settlement of one invoice | payments, transactions, fills, jobs | done, five theorems |
| 2 | `Checkout`: payment page, advisory lock, pool, expiry | hands over to `Invoice` at "locked" | done, two theorems |
| 3 | `DerivedAddresses`: keys, indexes, deletion | supplies the recipient addresses | done, three theorems |
| 4 | `Delivery`: bus, handlers, webhook, activation | consumes the updates of `Invoice` | done, four theorems |
| 5 | `PaymentPage`: the customer's page, refining `StatusView` | sees `Invoice` as a status that moves on | done, four theorems |
| 6 | `Dashboard`, `Collectors`, `Listings`, `WalletSetup`: the merchant's pages, over `InFlight` (all but `Collectors` over `DashboardTab`, too) | the server reduced to the rows they read and write | done, fifteen theorems |
| 7 | `Marketing`: campaigns, sequences, the loop | | done, five theorems |
| 8 | `Subscriptions`: plans, upgrades, limits, counts | | done, five theorems |
| 9 | `ChainScan`: cursor, windows, retry of the EVM, TRON and UTXO scans | abstract spec: "every transfer of a final block is reported" | later |
| 10 | `CollectorMatching`: unmatched transfers, other currencies | writes the rows of `Invoice` | later |
| 11 | `Deadlines`: integer time, extension and cap of `expires_at` | refines `window` of `Invoice` | later |
| 12 | `Ledger`: EnsureBalance, concurrent increments, withdrawals | refines `balance` of `Invoice` | later |

Every safety property of the runs in section 4 is a theorem (section 7). Worth proving next are the
invariants of steps 9 to 12: that a scan's cursor passes no final block it did not report, and that
the deadlines of step 11 refine `window`.

## 3. Models

Conventions. One action per SQL statement or per `RunTransaction` block. A process keeps what it
read in a record with a `pc` naming what it does next, so any other process may run in between.
Errors and crashes are the `...Abort` actions, bounded by `MaxFaults`. Reads whose value is used
by the very next statement only, and which no other process can tell apart from it, are merged
with it; each module's comments say where. Amounts are integers. Definitions marked *Mutant* are
the slips a property must catch; `PROJECT.json` lists which catches which.

In the modules of a browser (3.5 to 3.9, and the pages in 3.10) the conventions of `InFlight` hold as
well: a tab has `MaxInFlight` slots; an action is a handler from one `await` to the next; a request
sits in its slot "at the server", then its answer "at the page"; slots are independent. A record in a slot
carries what its handler closed over. `hasty` counts acts of a user while something is outstanding
(`rushed` in `PaymentPage`), `faults` lost requests and answers: most promises are made to a user who
waits, and the property says so. Where a property does not mention them it holds for any user.
`DashboardTab` holds what the merchant's pages share beyond that: `merchantId` and `faults`.
`Dashboard`, `Listings` and `WalletSetup` extend it and name their own definitions apart, so that one
module, `DashboardInvariants`, can state the inductive invariants of all three.

### 3.1 Invoice

One invoice from "the customer has locked the form" to its outcome. Rows: `payment`, `tx`,
`fill`; `confirmedSum` is the aggregate the code queries (`SumConfirmedFills`), `firstFill` its
first row; `balance` and `auditLog` are the merchant's. `chain` is what a node would answer,
`window` where the clock stands relative to `expires_at` and its grace period. `bookedSum` is a
history variable: what distinct transfers delivered.

| actor | actions | code |
|---|---|---|
| customer, chain, clock | `Send`, `Settle`, `PassTime` | external |
| pollers | `PollList`, `PollNothing`, `Detect` | `watcher/service.go` pollOnce, onDetected |
| | `ProcessInboundTransaction`, `RecordPartialFill`, `MarkPartial`, `RecordFinalFill`, `Receive`, `SetInProgress` | `processing/service_incoming.go`, `transaction/service_fills.go`, `service_update.go`, `payment/service.go` |
| administrator | `AdminReconcileFill` | `processing/service_incoming.go` |
| checkers | `CheckIncoming`, `ConfirmRead`, `ConfirmWrite`, `CheckerSetPayment`, `CancelIncoming`, `CheckerFailPayment` | `processing/service_incoming.go` 440-640, `transaction/service_update.go` Confirm, Cancel |
| expirers | `ExpireList` ... `ExpireFail` | `processing/service_incoming.go` expirePayment |
| rechecker | `RecheckRead`, `MarkFillReorged` | `processing/service_incoming.go` recheckPartialFills |
| merchants | `ResolveRead`, `ResolveUpdate`, `ResolveCredit`, `DeclineRead`, `DeclineUpdate` | `payment/service.go` |

Abstractions: the row read and the receipt query of `CheckIncoming` are one step (the row is read
again by `ConfirmRead`); a sender address is always known; the batch limits (200 rows) are not
reached by one invoice; a service fee larger than what was received makes the real subtraction
fail with an error, a case the chosen amounts exclude.

### 3.2 Checkout

The payment page from creation to the lock of the form. `AssignRead`/`AssignCustomer`,
`ChooseMethod` ... `CreateTransaction` and `LockRead`/`LockPaymentOptions` follow
`processing/service.go`; the `Expire...` actions follow `expirePayment` on a payment nobody paid.
`holder` is the advisory lock. It is taken by `pg_advisory_xact_lock` inside `RunTransaction`
(`lock/lock.go:31`), so its holder keeps a pooled connection (`HeldBy`) while every statement of
the callback needs another, and `Cancel`, itself a transaction, two more. `due` stands for the
deadline with its grace period. `locker.Do` drops the callback's error; a request that fails
(`RequestAborts`) rolls back the lock's transaction and nothing else. Not modelled: a client that
disconnects while its request waits (cancellation of the request's context).

### 3.3 DerivedAddresses

`wallet`, `last`, `rows`, `issued` are the tables; `worker` the requests. `GetNextUnusedAddress`,
`CreateTransaction` and `MarkAddressAsUsed` follow `processing/service.go` (take the next unused
address, else derive one; store the transaction; mark the address) and `xpub/service.go` (import, next index over all wallets with the
key, insert with up to `maxDeriveAttempts` retries on the unique constraint, counter update,
deletion). Deriving the address itself is a one-to-one map from key and index: wallets that hold
one key derive one address at an index. The read of the wallet and of the highest index are one
step. A derivation by the merchant's own request stands for both endpoints that derive.

### 3.4 Delivery

How the merchant hears of it. `changes` is the history of the payment's status (the row holds the
last one), `fills` counts booked transfers. An `updater` is a job or request that calls `Update` or
`MarkPartial`: it decides on what it read (`Decide`, `RecordFill`), commits without a condition
(`Commit`) and publishes (`Publish`). Event i belongs to the i-th status. `task[i]` is the handler
the bus starts for it, one goroutine per event (`bus.go` subscribes with `transactional` false):
`GetMerchant`, `ReadPayment`, `SumAllFills`, `LatestFillIdempotencyKey`, then one `Send` with one of
three outcomes, `SetWebhookTimestamp` and `HandleSubscriptionPayment`. `inbox` is what the merchant
received, in that order; `news.seen` says which status the handler had read. `unsent` is a history
variable: events that ended without an accepted webhook for another reason than the status "locked".
A crash (`Crash`) loses every updater and every event not handled; `Shutdown` waits for handlers, so
an orderly stop is no crash. `Moves` lists the status pairs under which `Update` is called. The chat
message to the operator is a second handler of the same event that changes no state.

### 3.5 PaymentPage and StatusView

`payment` is the server's row, with the number of its status changes as `age`; `route`, `shown`,
`passed` and `form` are the page's states, `timers` the pending timeouts. `updatePayment`, the
handlers of the form (customer, method, Next) and `ResultPage` follow `ui-payment/src/pages/PaymentPage.tsx`;
`Serve` is the server, `Lose` the network. The result pages navigate away for good, so their state is
what they were handed. `StatusView` is the promise in three actions: something moves on, the viewer
sees a status it has or had, and never an older one than before as long as it does not rush.
`NeverGoesBack` is the refinement, with `now <- payment.age` and `seen <- shown.age`.

### 3.6 Dashboard

`session`, `exists`, `settings` are the server's; `page`, `user`, `merchants`, `merchantId`,
`merchant`, `globalFee`, `loadedFor`, `isLoading` the tab's. The sign-in, the list of merchants with its check of the stored
choice, the sign-out and the interceptor that sends an expired session to the login page follow
`app.tsx` and `utils/api-request.ts`. Three pages change the chosen merchant, and only one of them loads it anew;
`settings[m].own` and `.fee` say whose settings and whose fee the server has under m. Saves of payment
methods write the whole set the form was filled with. The fees per currency of the
same page are left out: the server ignores them.

### 3.7 Collectors

Four parties: the page, the wallet extension (`walletChain`), the chains (`onChain`) and the server
(`registered`, `factory`). A job goes through connect, switch, deploy, register, with the step shown in
the `modal` of its panel; `AfterConnect` is the switch of chain in `utils/evm-wallet.ts`, `closing` the
timer of two seconds. TRON has one network and no switch. A contract remembers the merchant it was
deployed for and, if it is a factory, its implementation (`from`).

### 3.8 Listings

Payments, payment links, customers and API keys differ in their controls; `list` says which they have.
`data` is the query cache: pages with their cursors under one key whatever merchant is chosen.
`StartFetch` follows react-query as the pages use it: a fetch under way is shared, or
canceled and replaced by an invalidation; `refetchPage` of an addition loads the last page only. `rows` are
the server's, and may be added to elsewhere. A page is the set of its rows with the cursor: the code sorts by
id, so the set says in which order they are shown. `formId` is the id a payment's form is submitted
under, until it is reset.

### 3.9 WalletSetup

`mode` is one of four views. Import creates a wallet, lists, derives an address and shows it for
comparison; the user keeps it or deletes it and starts again. "Back" and the choice of another
merchant clear the views but not the handlers, each of which later sets the states it always sets.
`told` remembers what the user said of each wallet; `impatient` counts, as `hasty` does, what the user does
before an answer is there.

### 3.10 Marketing and Subscriptions

`Marketing`: `AskFor` ... `setSequenceStatus` are acts of administrators (a read, then a write, with a
second act in between), and the loop (`processQueue`, `TakeRecipients`, one mail and its mark at a time, then the
enrollments) follows `service.go` and `sequences.go` of `internal/service/marketing`. A restart forgets the loop's batch. The next mail
of a sequence falls due at any time, and a day ends at any time.

`Subscriptions`: one statement per action. A request's `stage` says which comes next: upgrade (read
of the plan, insert, invoice), assignment (cancel, insert), deletion of a merchant and of a user, edits of plans, the check
before a payment and the count after it with its create-and-retry of the month's row. One unique index
allows one live subscription per merchant, and one one row per month. The invoice's payment is an event (`HandlePaymentWebhook`)
that looks for metadata `CreateInvoice` has nowhere to put. `shown`, `upgrading` and `adminRows` are
the merchant's and the administrator's pages.

## 4. Runs

Every run is one question:

| run | asks |
|---|---|
| Invoice `single` | one execution of each job, failing receipt queries and a crash: is a completed invoice final and covered, is the recorded amount what was booked, is a confirmation credited once? |
| Invoice `settling` | after a crash anywhere, does every invoice come to rest? |
| Checkout `ends` | with enough connections, does every request end and an unpaid invoice fail, and is there at most one live transaction, whoever dies? |
| DerivedAddresses `apart` | one request per wallet, wallets that share a key, a third one deleted under a request: is each address issued once and no index of a kept key skipped? |
| Delivery `told` | is the merchant of a quiet system told the current status and all of the money of a partial payment, once per event, and do news arrive unless the event was lost? |
| PaymentPage `paid` | with polls in any order and one lost: are results true, is the agreed currency the one that is locked, is the payment followed until the result comes, and does the page refine `StatusView`? |
| Dashboard `own` | two users of one tab: is nobody left with another's merchant, are no settings written into another merchant, does the spinner end? |
| Collectors `deployed` | with an extension on a chain of its own and two merchants: is everything registered, signed for, saved and shown where it belongs? |
| Listings `listed` | pages fetched, shared, given up and fetched again across a change of merchant: whose rows are shown, is one skipped, is a form sent twice one payment? |
| WalletSetup `imported` | late handlers across import, deletion and import again: is the address the wallet's, is no view blank, does a wallet that was kept stay? |
| Marketing `mailed` | overlapping acts, failing mails, a new day, a restart: is everybody mailed once, within the quota, do counters agree, does a canceled sequence stay canceled? |
| Subscriptions `subscribed` | is a paid plan paid for and invoiced at its price, a payment at the limit refused, every payment counted, nothing left of a deleted merchant, and does each page show what there is? |

Further configurations pass as well. They ask the same modules for more, at the price of minutes:

| configuration | asks |
|---|---|
| `MCInvoice_overlap` | do the fills' sums count each transfer once when two watcher cycles overlap, duplicate checks fail and an administrator reconciles (`SumsCountTransfersOnce`)? |
| `MCCollectors_over` | does no modal stay on a step for ever (`DeployEnds`), and do the types hold? |
| `MCWalletSetup_over` | does the import come to an end (`ImportEnds`), and do the types hold? |
| `MCMarketing_over` | is a campaign that is being sent completed (`CampaignEnds`)? |
| `MCSubscriptions_chosen` | do the types and the properties hold with two merchants, one of them born with the free plan? |

Others show places where the code and what is written about it, or what one would expect of it, part.
Each question starts from a configuration of this directory, with the property named in the second column
as its only INVARIANT or PROPERTY and the constants changed as said; TLC ends with a counterexample:

| configuration | property | what the code does | what is written |
|---|---|---|---|
| `MCInvoice_credit` | `CreditIsReceived` | resolving an underpaid payment while another job holds a write for it credits twice | `payment/service.go:683` |
| `MCInvoice_redetect` | `FactIsBooked` | two overlapping watcher cycles count one transfer twice: the duplicate check is no constraint | `watcher/service.go:250` |
| `MCCheckout_pool` | `LockReleased` | the lock's transaction holds a connection while its callback waits for more: with as many requests as connections everyone waits | |
| `MCDerivedAddresses_apart`, `Serves <- MCTogether`, `Deletable = {}`, `MaxFaults = 0` | `IssuedOnce` | two payments of one wallet take one unused address | `web/docs/index.html:799` |
| `MCDelivery_samekey` | `SameKeySameNews` | a webhook carries the old amount with the new fill's key | |
| `MCInvoice_credit` | `UnderpaidIsConfirmed` | expiry makes a partial payment underpaid, resolvable, before any receipt confirmed its transfers | `payment/model.go:181` |
| `MCInvoice_redetect`, `Pollers = {p1}`, `LookupFaults = TRUE` | `FactIsBooked` | a failed duplicate check counts as "new": one cycle counts a transfer twice | `watcher/service.go:250` |
| `MCInvoice_credit` | `RecheckSparesConfirmed` | one failing receipt query and a confirmed transfer is given up as reorged | `service_incoming.go:386` |
| `MCInvoice_settling` | `PaymentSettles` | `inProgress` written after the confirmation leaves a paid payment in progress for good | `service_incoming.go:499` |
| `MCInvoice_credit` | `ConfirmedFillIsFinal` | a transfer is booked as a confirmed fill at detection | `service_fills.go` |
| `MCCheckout_editing` | `LockedIsPayable` | the form can be locked with a canceled transaction | `processing/service.go:266` |
| `MCCheckout_editing` | `LockEndsEditing` | a choice accepted before the lock of the form is carried out after it | `processing/service.go:266` |
| `MCCheckout_editing` | `FailedStays` | the lock of the form makes a failed payment locked again | `web/docs/index.html:1430` |
| `MCDerivedAddresses_apart`, `Serves <- MCTogether`, `Workers = {a}`, `Deletable = {}`, `Frail = {a}`, `MarkMayFail = TRUE` | `IssuedOnce` | an address whose marking failed is shown to the next payment | `web/docs/index.html:799` |
| `MCDerivedAddresses_apart`, `Serves <- MCTogether`, `KeyOf <- MCKeyOf`, `Workers = {a}`, `Frail = {}`, `MaxFaults = 0` | `IssuedOnce` | a deleted and re-imported key starts again at index 0 | `web/docs/index.html:799` |
| `MCDelivery_samekey` | `LastWordIsCurrent` | two handlers send in the opposite order of their readings | `web/docs/index.html:1417` |
| `MCDelivery_told` | `RefusedIsRetried` | a refused webhook is never sent again | `web/docs/index.html:1688` |
| `MCDashboard_leak` | `NothingLeaks` | the sign-out clears the chosen id and not the merchant on display: the next user of the tab sees its settings until one is loaded | `app.tsx:166`, `app.tsx:234` ("prevent cross-user leakage") |
| `MCWalletSetup_imported` | `VerifiedIsFirst` | the address to compare is derived at the next index by then; a customer who paid first, or another wallet with the key, has taken index 0 | `wallet-setup-page.tsx:1253` ("First Receive Address (index 0)") |
| `MCMarketing_mailed` | `UnsubscribedAsked` | the row that holds the unsubscribe link of the first mail is counted as an unsubscription before the second: a sequence never gets past its first mail | `sequences.go:426` ("Unsubscribe re-check") |
| `MCSubscriptions_activated` | `PaidIsActivated` | the invoice does not carry the metadata its payment is matched by: a paid subscription stays pending | `payment_flow.go:133` ("for subscription activation") |
| `MCSubscriptions_activated`, `Assigned = {ma}` | `UpgradeAccepted` | a merchant with a live subscription, the free one included, violates the unique index when it takes another plan: the upgrade always fails | `payment_flow.go:55` ("for a subscription upgrade") |
| `MCSubscriptions_activated` | `PlanStaysUsable` | the plan of a live subscription that was made inactive is read as nil, and the limit check dereferences it | `merchantapi/payment.go:130` ("graceful degradation") |
| `MCSubscriptions_activated` | `AllCounted` | two first payments of a month: the second insert of the month's row fails and that payment is not counted | `subscription/service.go:247` ("Retry the update") |

## 5. Bounds

- *Invoice*: two transfers (2 and 3 units) against a price of 4 with tolerance 1: the first alone is
  partial, the second alone is within the tolerance, both overpay. Two is also the least number
  with which one transfer can be counted twice beside another. Two pollers where overlap is the
  question, one fault: every property speaks of at most two processes and one loss. `overlap` has
  failing queries, both tolerances 0 and 1 and one reconcile, and leaves the later jobs out: the
  properties of `single` that survive overlapping cycles are theorems. `settling` has one transfer, short at
  one tolerance and enough at the other, and a reconcile, which finds the transfer a second time; with two
  transfers, `Tolerances = {1}` and no reconcile it passes as well (654 thousand states). The proofs of section 7 cover other amounts, tolerances that change between two conversions and failing queries.
- *Checkout*: two requests, two currencies, three choices, so that a canceled transaction can be
  followed by two others. Pools of 5 (what `ends` needs: two per request and one for the job), 8 (no
  shortage) and 2 (shortage).
- *DerivedAddresses*: two wallets with one key and a third with a key of its own that is deleted
  (`Deletable`), two concurrent requests, three payments: one more
  than there are requests, so an address can be taken after both have moved on. Faults hit the request that
  does not serve the deletable wallet (`Frail`): a lost counter update and then a
  deletion re-issues an address, as a re-import does in section 4.
- *Delivery*: two changes after "pending" in `told`, three in `samekey`, two updaters, a handler
  per change, one fault. Two fills are the least with which an amount and a key can disagree.

- *PaymentPage*: two currencies, one of them native; two changes of the status (one that makes a poll
  stale and one to a result); two requests at once, one lost. A single lost poll already breaks a chain of timers.
- *Dashboard*: two users, two merchants of the one and none of the other (`Newcomer`), or three
  (`leak`); one fault and one hasty act, each of which alone can cross two handlers.
- *Collectors*: two EVM chains (the least with a wrong one) and TRON; two contracts, so that one is
  replaced, resumed or belongs to each of two merchants; two hasty acts.
- *Listings*: pages of one row and three rows, so that a page can be missing between two; two forms,
  one switch of merchant. Merchants are interchangeable there, addresses in *Marketing*: symmetry.
- *WalletSetup*: two wallets and two keys (one recognised with another path than the default), two
  indexes.
- *Marketing*: two people, one campaign, two mails of a sequence, quotas of 1 and 2, two attempts, two acts at once, one restart.
- *Subscriptions*: one merchant (two in `chosen`), a free plan with one payment a month and an
  unlimited one with a price, two acts, one fault or hasty act.

Counters bounded: `MaxInFlight` slots in every browser; `MaxFaults` everywhere (`MaxLosses`,
`MaxTrouble`, `MaxAborts`), `MaxHasty` (`MaxImpatient` in `WalletSetup`), `MaxAge`, `MaxContracts`, `MaxRows`, `MaxForms`, `MaxSwitches`,
`MaxWallets`, `MaxIndex`, `MaxActs`, `MaxReconciles`, `MaxChoices`, `MaxRows`, `MaxChanges`,
`MaxFills`.
Deadlock is not checked: every model stops when its invoice is settled, its bounds are used up
or its handlers are done. That nobody waits for good is the business of `RequestsEnd` and
`LockReleased`.

## 6. Fairness

- *Invoice*: `PassTime`, the watcher, the receipt check and the expiry are cron jobs
  (`app.go` 233-255) that return every minute or less; each has weak fairness. Customers, merchants,
  the chain, faults and the recheck have none.
- *Checkout*: a request that got the advisory lock or a connection goes on. Postgres grants a lock
  and pgx a connection in the order of the requests, so nobody is passed over for ever: strong
  fairness per request. The expiry job and the clock have weak fairness.
- *Delivery*: Go runs every goroutine, and `Send` gives up after five seconds whatever the server does:
  weak fairness for each updater past its decision and for each handler. No outcome of `Send` is
  promised, no decision is, and no fault.
- *PaymentPage*, *Dashboard*, *Collectors*, *WalletSetup*: a request is answered or fails (the
  network, the extension and axios reject in the end), and the tab runs the handler that waits for it:
  weak fairness per slot. `PaymentPage` adds its timers. No act of a user is promised.
- *Marketing*: the loop ticks for ever and days pass: weak fairness of both. No act is promised.
- *DerivedAddresses*, *Listings* and *Subscriptions* have no liveness property.

## 7. Proofs

The theorems hold for any sets of processes, transfers, requests, wallets and any bounds, by
inductive invariants that TLC's small instances suggested. Each `...Proofs` module has one lemma or
step per action. `CheckoutDeliveryProofs` holds the theorems of `Checkout` and `Delivery`,
`DashboardProofs` those of `WalletSetup`, `Dashboard` and `Listings`, which need the same lemmas about
slots, least and greatest elements. Besides the type assumptions named in the modules, a theorem assumes only what its
statement lists.

| theorem | assumes | invariant beside the types |
|---|---|---|
| Invoice `TypeCorrect` | | |
| `CompletedFinal`, `CompletedCovered` | | `ReceiptHeld`: a check past the receipt holds a hash whose receipt is final; `CoverageHeld`: the status "in progress" and the sum it was decided on travel together, in a poller, the row, a check |
| `FactBooked` | one watcher and no reconcile, lookups answer | `FreshFill`: a transfer between its detection and its record has no fill; `SumsBooked`: every sum a row or a process carries is covered by booked transfers |
| `CreditedOnce` | one watcher and no reconcile, one checker | `CreditHeld`: while the row may still go in progress nothing was credited and no check is about to; after the credit no check is again |
| Checkout `CheckoutTyped`, `OneLiveTransaction` | | `LockHeld`: who cancels or creates holds the lock; `Replacing`: and knows the newest transaction; `Expiring` |
| DerivedAddresses `AddressesTyped` | | |
| `NoIndexSkipped` | | of a key whose wallets are kept: `Climbs`: every index below the one a request is about to insert is taken; `LastDerived`: the wallet's counter stands at a taken index |
| `AddressIssuedOnce` | no deletion, one request per wallet, marking succeeds | `Serving`, `RowsApart`, `IssuedTaken`, `IssuedUsed`: the row of an issued address is used, or held by the one request about to mark it |
| Delivery `DeliveryTyped`, `WebhookSentOnce` | | `Begun`: an event is published at most once; `Senders`: only a handler past its webhook has sent one |
| `QuietMerchantTold` | | `Carried`: a committed change has its event started, pending or lost; `ReadsNew`: a handler reads a status at least as new as its event; `Sent` |
| `QuietAmountTold` | nothing failed so far (the property's own condition) | `SumsInv`: of the newest partial status either an updater is still to commit the news of the last transfer, or every handler that has read it and summed has counted all that was received; `Told`: the merchant's last message is such a handler's |
| PaymentPage `PageTyping`, `ResultsTrue` | no payment is `None` | `PastOnly`: a page, a timer and an answer carry statuses the payment has had; `ResultsMatch`: a result page was handed the result the payment has |
| `AgreedLocked` | the same | `ResultsMatch` and `Waits`: unless the customer rushed, one request at a time, and the currency on display is the one the server has |
| `PageKeepsPromise` | the same | refinement of `StatusView`, step by step: each action is one of its three or a stutter |
| Collectors `CollectorsTyping` | | `XInv`: each stage of a job is with the party it belongs to, holds the contract it deployed, and that contract is its merchant's and made from what it started from |
| `ContractsAreWhereTheyBelong`, `DeploymentsAreOnDisplay` | a user who waits, where the property says so | `CalmInv`: one job at a time, on the chain the extension was switched to, with its modal open and no timer about to close it |
| `CardsShowTheServer` | a user who waits, nothing lost (the property's own condition) | `ShownInv`: what the cards do not show yet is on its way, in the request under way |
| WalletSetup `WalletSetupTypes`, `ViewsTrue`, `KeptWalletStays` | a user who waits and loses nothing, where the property says so | `WalletInv`: every request is about a wallet that was made, one import is running at most and its button says so, a deleted wallet was told so; `ViewInv`: an address on display or in an answer is of the wallet it is shown for, and nothing is verified without one; `CalmInv`: one request at a time, and with none the card shows the merchant's wallet |
| Dashboard `DashboardTypes` | | `ShellInv`: every answer has the shape of its request |
| `SettingsKeptApart`, `ChosenAreOwn` | a user who waits and loses nothing (the properties' own condition) | `UnhurtInv`: beside reads of the chosen merchant one request is on its way at most; what an answer says is what the server still has; the merchant on display and the fee in the form are the chosen one's once no read of it is to come; with nothing on its way the tab knows its session's user and merchants |
| Listings `ListingsTypes`, `NoRowSkipped`, `MadeOnce` | | `ListsInv`: one fetch at most, and the pages of the cache and of that fetch fit: `Linked`, one merchant's rows, each page above its cursor and the cursor a row of that merchant's or 0 at the end; `Falling`, no page reaches above an earlier cursor; `Complete`, between the cursor of any page and the greatest row up to there, no row that is still there is missing |
| `ChosenIsListed` | nothing failed, no fetch shared across a switch (the property's own condition) | `ShownInv`: the fetch under way is the chosen merchant's, with pages of that merchant only, and is not refused |
| `OwnActsListed` | nothing failed, nothing shared, nobody else adds (the property's own condition) | `ActsInv`: once no act waits to be settled, a single page that has arrived is what the server would answer now |
| Marketing `MarketingTyped` | | `RequestsTyped`, `HistoryTyped`; `BatchStands`: a batch in the loop's hands is still what it was when it was read; `StepsLeft`: an active enrollment has a mail to come |
| `MarketingMailsOnce` | | `OnceInv`: who has had a mail is marked, or is the one the loop is about to mark, and nobody who is marked is in a batch again |
| `MarketingStaysCancelled` | | `CrossInv`: unless two acts crossed, the status an act has read is the sequence's |
| `MarketingKeepsQuota` | | `QuotaInv`: the day's count is what its row has and the mails sent but not yet booked; what was sent and what the loop still takes stay within the limit |
| `MarketingCounts` | | `CountersInv` with `CrossInv`: a campaign's counters agree with its recipients, or it is not sent yet; the one request that sends it has its audience |
| Subscriptions `SubscriptionsTyping` | `Assigned` is finite | `XInv`: also at most one live row per merchant, one row per month |
| `DeletionTakesPlans` | | `GoneInv`: a cleaned merchant has only rows of later requests, and a request past its cleaning found it so |
| `PlansPaidFor` | | `PaidInv`: an active row that was not assigned costs nothing or is paid; a priced row without an invoice has the request that will make it |
| `PaymentsLimited` | `Assigned` is finite | `CountInv`: open, done and being made are no more than asked for, counted and being counted are what is done; `FullInv`: a check at the limit meets no administrator's write under way |
| `PagesTrue` | a user who waits (the property's own condition) | `CalmInv`: one request of that user at a time, and what its kind says of the page and the rows |

The invariants are needed because the properties speak of rows while the danger is in what a
process carries between two statements: `CompletedIsCovered`, for instance, is lost by a step whose
guard was evaluated long before. The assumptions are necessary, too: without `OneWatcher` or `LookupsAnswer`
the two counterexamples to `FactIsBooked` in section 4 appear, without one of the three assumptions of
`AddressIssuedOnce` the three to `IssuedOnce`.

## 8. Only model-checked

Liveness (`ComesToRest`, `RequestsEnd`, `UnpaidFails`, `NewsArrive`, `ResultComes`, `LoadingEnds`, and
`DeployEnds`, `ImportEnds`, `CampaignEnds`) stays with TLC, since the prover has no rule for fairness
or ENABLED. `SumsCountTransfersOnce`, which the run `MCInvoice_overlap` checks, is not proved either. Sums over an unbounded set of
transfers would need induction over data, which is out of the prover's reach: the models count
amounts as they are booked instead.

## 9. Not modelled

Yet (section 2): the chain scans, attribution of unmatched collector transfers and other currencies,
calendar time and the cap on extensions, the ledger with withdrawals. Of modelled components: the
audiences "merchants" and "all" of a mailing with their conversion check, its templates and delays; limits on volume,
API calls and merchants, the end of a subscription's period; the profile and support forms, fees per currency,
fiat totals of the balance page. Merchants' settings are one JSON value that is read, changed and written
back (`merchant/service.go:179`), so two writers at once lose one of their updates: known from reading, not modelled.

Not planned: users, registry (single-row reads and writes), topups (one row by one request), the
provider clients (pure input and output), decimal arithmetic (one call), generated API clients and
bundles, themes, static pages, the pages of the administrator that show one answer (contacts, e-mail,
totals; the one for payments calls endpoints the server does not have), the withdrawal form and the address book (no route leads
to them), and the contracts' bytecode. `PROJECT.json` lists each part with its reason.
