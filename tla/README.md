# AjoCloud backend: a TLA+ verification project

AjoCloud is a NestJS service for community savings. Members fund a wallet, contribute to
rotating savings groups (Ajo), are paid out in turn, pay bills and earn referral rewards. All
money is rows of one double-entry ledger in PostgreSQL. This directory models the parts that
move money, the ways into an account and the workflows around them, checks them with TLC on small
instances, and proves their safety properties with TLAPS for every instance. `PROJECT.json` lists, for each
definition, the source lines it models.

## 1. The system and its parts

| Component | State it keeps | Operations | What makes it correct |
|---|---|---|---|
| payments (deposits) | `payment_intents` | create, confirm, startExternal, settleSuccessful, settleFailed | credited once, by the right amount; status and posting agree |
| webhooks | `payment_webhook_events` | record, applyToLedger | duplicates harmless; processed only when settled; nothing lost |
| ledger | `ledger_transactions`, entries | post, postWithin, reverse, balance | balanced, append-only, idempotent; reversals cancel |
| bill-payments | `bill_payments`, attempts, receipts, reversals | settleFromWallet, completeIntentPayment, reconcile, applyProviderResult, markUncertain | reserve equals open bills; held money is paid out or returned |
| ajo-groups (money) | contribution and payout schedules, contributions, payouts, pool account | payContribution, intent confirmation, executePayout | pool never overdrawn; payouts follow collection |
| ajo-groups (swaps) | `swap_requests`, schedule versions | create, approve, reject, execute | every slot keeps its turn; versions immutable; requests close |
| ajo-groups (formation) | groups, members, slots, plans, invitations, cycles | create, setListing, invite, revoke, open a link, join, lock | within the terms, gapless positions, plans that reconcile, turns in order |
| referrals | referrals, qualifications, rewards | onDepositSettled, onDepositReversed | one reward each, within the cap, clawed back |
| akawo (pools) | pools, members, dues | open, join, removeMember, waiveDue, pay, close, cancel | a due is paid by one posting; a membership has its due |
| food-ajo | programmes, packages, enrolments, escrow account, orders, distributions, collection codes | transition, subscribe, cancel, pay, order, receive, plan, issue code, confirm | paid in full or not at all; within capacity; food leaves once, after it was bought |
| wallets | wallets, transfers, withdrawal requests | send, withdraw, summary | solvent; one movement per key; no false failure |
| bill-payments (ordering) | the copy of the catalogue, checks of numbers, orders | syncBillCatalog, validateCustomer, create, confirm | paid once, for the number that was checked; the copy is the catalogue |
| fees | fee definitions and bands | assess | bands partition the range; never below cost |
| auth | users, codes, sessions, refresh tokens, staff invitations | register, verify, login, codes, Google, reset, refresh, logout, invite, accept | single-use proofs, one token chain per session, sessions of proved mailboxes only |
| transaction PIN | `transaction_pins` | setPin, verifyPin | nobody is locked out before the limit |
| kyc | profile, checks, documents, details | verifyIdentity, verifyAddress, upload, sync, decide | a rejection is final, attempts bounded, nothing waits outside the queue |
| food-coordinator-applications | applications, coordinator profile | create, update, submit, review, approve, suspend | verified on an approved application only |
| notifications, devices | notifications, deliveries, inbox, preferences, push tokens | sendEmail, notify, markRead, register, deregister | one email per key, one claim per token |
| admin (staff invitations, bell) | invitations, `admin_notifications` | invite, revoke, accept, raise, sync | the bell shows what is outstanding |
| development seed | every table | `prisma/seed` | safe to run again after a cut |
| idempotency, audit, users, engagement, public-listings, permissions, configuration, health | none, or single rows | reads and single writes | not modelled: no behaviour beyond one statement |

How they interact. `confirm` calls a *payment target* (wallet top-up, bill, Ajo
contribution, Akawo due, Food Ajo enrolment) and the ledger. A top-up leaves the process: the provider's webhook comes back through `webhooks`
into `PaymentSettlementService`, which posts and then, without waiting, calls `referrals`. A bill
reserves money in one transaction and calls its provider after the commit. Ajo payouts and both
contribution routes share one pool account per group. The PIN stands in front of transfers, withdrawals
and intents. The level that `kyc` works out from the evidence guards joining, coordinating and paying
out; applications for coordinator read the stored tier instead. The rows `lock` writes are where
contributions and payouts begin.

Where it is hard: requests keep what they read across an `await`; an external call sits between
two transactions; some updates name a row by id and do not repeat the check made earlier;
webhooks are late, duplicated or concurrent; processes die between two steps.
`PROJECT.json` lists these hazards with the line where each one bites.

## 2. How the models are built

* One database transaction opened with `TransactionService.serializable` is **one action**:
  PostgreSQL commits it as if it ran alone or aborts it. An abort is a fault that changes no row.
* A statement outside such a transaction is an action of its own, and what the request remembers
  between two statements is a variable (`confirmer`, `handler`, `request`, `reconciler`,
  `executor`, `award`, `clawback`, `joiner`, `req`, `check`, `call`, `sweep`, `copying`).
* Calls that throw or return early without writing are simply not enabled, or leave every row
  unchanged where the request itself moves on.
* Rows are named by their idempotency key, so the unique constraint is the function itself; other
  unique columns (references, receipts) are explicit guards.
* Providers, the clock and operators' data changes are environment actions.
* Audit rows, outbox rows and notifications are left out; a failing audit write between two steps
  is one of the causes of a fault action.

### Modules

| Module | Models | Notes |
|---|---|---|
| `Deposits` | PaymentsService, MonnifyWebhooksService, PaymentSettlementService for a top-up | five processes: payer, confirmers, provider, webhook handlers, faults |
| `DepositPromise` | what a depositor is promised | abstract; `Deposits` implements it (`KeepsPromise`) |
| `BillPayments` | settleFromWallet with the bill target; BillPaymentsService | `posted` and `account` are the bill's view of the ledger; `Transfer` is `WalletMovementsService.send` seen from that balance |
| `Escrow` | money held, then paid out, returned or refunded, by the provider's verdict | abstract; `BillPayments` implements it (`KeepsEscrow`) |
| `Ledger` | LedgerService | the balance the code computes is `AccountBalance` |
| `AjoRotation` | AjoSettlementService, AjoContributionTarget, AjoSwapsService; the rows of `lock` as `Init` | two contribution routes, refused payouts, versions of the rotation |
| `AkawoPools` | AkawoPoolsService, PaymentsService with AkawoPoolDueTarget | a pool with requests in flight; the organiser's verification is the environment's |
| `FoodProgramme` | FoodAjoProgrammesService, the programme part of FoodAjoCoordinatorService, PaymentsService with FoodSubscriptionTarget | one programme; an enrolment is a user and a package |
| `FoodFulfilment` | the buying and handing-out part of FoodAjoCoordinatorService | extends `FoodProgramme`; `Next` is a step of either part |
| `Referrals` | ReferralsService | fraud controls are one verdict of the environment; the cap is modelled |
| `Sessions`, `Accounts` | AuthService, PasswordlessService, PasswordResetService, GoogleOAuthService, StaffInviteService | `Accounts` extends `Sessions`; the client is part of the model: `held` is the last token it received, and responses get lost |
| `TransactionPin`, `WalletMovements` | TransactionPinService, WalletMovementsService, WalletsService | `WalletMovements` extends `TransactionPin`: the check of a PIN is steps of a movement; the answer to a commit may get lost, but what is committed is seen by every later read |
| `WalletPromise` | what a member who moves money is promised: one instant, once, and told only afterwards | abstract; `WalletMovements` implements it (`MovesAsPromised`) |
| `BillOrders` | syncBillCatalog and the front office of BillPaymentsService | several servers of different builds; one category, which every build lists, so that no category is retired; whether the wallet can pay is `BillPayments` |
| `Fees` | fee-rule.ts, FeesService | operators; `MCBillPayments` takes its fees from them and checks them as assumptions |
| `AjoFormation` | AjoGroupsService, GroupInvitationsService and the schedule domain | ends in the rows `AjoRotation` starts from |
| `Kyc`, `CoordinatorApplications` | KycService, KycReviewService, FoodCoordinatorApplicationsService | one account; the second extends the first |
| `Devices`, `Notifications`, `AdminFeed`, `Notices` | DevicesService, TransactionalNotificationService and its neighbours, AdminNotificationService | `Notifications` extends `Devices`; `Notices` puts the members' and the staff's side together |
| `Seeding` | prisma/seed | extends `Ledger`: each seeder is a list of statements that one process executes, beside the application's postings |
| `MC*` | the instances TLC checks | constants only |
| `Sums` | nothing of the code | facts about sums over finite sets, which the books, the pools and the plans need |
| `DepositsProofs` | theorems about `Deposits` and `Referrals` | extend the modules they are about, as all that follow |
| `BillPaymentsProofs` | theorems about `BillPayments`, `Sessions` and `Accounts`; then of `Fees` | parts without a common variable |
| `LedgerProofs` | theorems about `Ledger` and `Seeding` | |
| `AjoRotationProofs` | theorems about `AjoRotation` and `AjoFormation` | two parts without a common variable |
| `AkawoPoolsProofs` | theorems about `AkawoPools`, `Notices` and its parts | two parts without a common variable |
| `FoodProofs` | theorems about `FoodFulfilment`, `Kyc` and `CoordinatorApplications` | two parts without a common variable |
| `WalletProofs` | theorems about `WalletMovements`, `TransactionPin` and `BillOrders` | two parts without a common variable |

Each module defines `Init`, one action per operation, `Next`, `Spec` and, where liveness is
checked, `FairSpec`. Modules that share a proofs module carry a prefix (`ReferralsSpec`, `AccountsSpec`,
`FormationSpec`, `ApplicationsSpec`, `OrdersSpec`, `SeedSpec`...). Definitions marked "Mutant of X" are deliberately wrong versions of `X`; each
makes the property it is listed with in `PROJECT.json` fail and is not used otherwise.

Data that is abstracted: amounts are small naturals (the code uses BigInt, so nothing overflows),
currencies are one, descriptions and references are atoms. In `Deposits`, `FeesService.assess` is the
constant `FeeOf`, and the instance includes a fee that exceeds the deposit.

In `Deposits`, `AWAITING_RETRY` is the status PENDING with the failure reason the catch block
writes. In `AjoRotation` the clock only matters through `expired`; no code under `src/` ever writes
OVERDUE to a schedule that has been paid in part, and a payment always ends in PAID or
PARTIALLY_PAID. The fee assessment stored with a swap request is collected by no code. In
`Referrals` nothing calls `onDepositReversed` yet; `Undo` and a caller that repeats it stand for
the one ADR-012 expects. In `FoodFulfilment` the n-th collection code is the number n; `handed` counts
what left the shop and is read by no action. Likewise `wrong` (wrong PINs entered), `suspicious` (sessions
whose client presented something other than its last token), `sends` and `accepted` (what the mail
provider was given and took), `rejected` and `copied` record what happened and guard nothing. In `Sessions` and `Accounts` time is monotone facts of a
token or code (late, expired); a cooldown ends before its code expires. In `AjoFormation` years have no
29th of February. In `Seeding` an upsert that finds its row is a step without effect; which fields it
writes again is left out.

## 3. What the passing runs show

| Run | Bounds | Shows |
|---|---|---|
| `Deposits` | 1 intent, 2 charges, 2 confirmers, 2 handlers, 1 fault, 3 amounts, fair | `CreditedOnce`, the implementation of `DepositPromise` (`KeepsPromise`) and `PaidIsCredited` |
| `Bills` | 2 bills, a transfer of 4 out of a balance of 7, 2 operators, 1 fault, one bill the provider may undo, fair | `ReserveMatchesBills`, the implementation of `Escrow` (`KeepsEscrow`) and `HeldIsResolved` |
| `Ledger_books` | 2 keys and references of the application, 5 commands of which 3 are invalid, the whole seed, started twice; at most 3 of the application's rows and seed starts together | `BooksBalance`, `RewardIsPosted`, `CutsHeal` |
| `Ajo` | 2 slots, 2 cycles, due 2, one direct key, one intent, one executor, one swap | `PoolIsContributionsLessPayouts`, `SchedulesTellTheTruth`, `PaidOnlyWhenCollected` |
| `Referrals` | a sign-up referral with 2 deposits, 2 referrals bound to a campaign, 2 campaign versions, cap 1, 1 fault | `BoundCapHeld`, `RewardsTraceable` |
| `Akawo` | 3 users, 2 references, 3 intents, due 2, wallets of 4, 2 and 1; intents and references symmetric | `PaidIsBacked`, `CollectedIsReceived` |
| `Food` | 2 members of one package, prices 1 and 2, quantities 1 and 2, capacity 3, 2 intents, 1 order, 1 distribution, 2 codes; intents symmetric | `PaidIsInEscrow`, `CollectedOnce` |
| `Auth` | 1 address, 2 interchangeable requests, and five budgets of sessions, tokens, codes, invitations and passwords, each of which stresses one part | `OneChain`, `ClientCanGoOn`, `OneOpenChallenge`, `ProofSpentOnce`, `SessionsAreVerified` |
| `Wallets` | 3 users, 3 requests, 3 keys, a limit of 2 wrong PINs; or 2 servers, 2 products, 3 spellings of 2 numbers, 1 check, 1 intent, 1 key, 2 clients | `LockIsEarned`, the implementation of `WalletPromise` (`MovesAsPromised`), `NothingOverdrawn`, `MoverIsNotRefused`; `BilledAsChecked`, `CatalogueIsCopied` |
| `Formation` | 3 users, 3 sets of terms (monthly from a 31st, weekly with room for three turns, daily over the end of February), 2 invitations | `WithinTerms`, `UsesAreMembers`, `Reconciles`, `TurnsAdvance` |
| `Kyc` | 2 interchangeable requests, 3 checks of a type, a limit of 1 failure, 2 applications | `RejectedStaysOut`, `AttemptsBounded`, `UnderReviewIsInQueue`, `CoordinatorIsApproved` |
| `Notices` | 2 users, 2 installations, 1 token, 2 calls, 1 email, 1 event, a day of 3 minutes; or 3 subjects of which a sync reads 2, 2 syncs | `OneClaim`, `EmailedOnce`, `BellIsCurrent` |

Why the bounds suffice to be interesting: two requests of each kind are what a race needs. One
fault at any point covers every crash between two steps. Two charges let a doubly confirmed
intent collect both; a second intent would share nothing with the first but the requests, and the
proofs cover any number. Two bills fit the balance of 7, but not both and the transfer, so the
balance is contended and both bills can still be held at once. `due = 2` allows part payments; the second member's
wallet is short of its last contribution unless a payout arrives. The sign-up referral takes its campaign
from the clock, so its two deposits can fall
on both sides of a campaign change; the two bound ones compete for the cap. Three users want two
references, and the wallets pay two dues, one and none. Capacity 3 holds one large
and one small enrolment, not two large ones; two intents allow one quoted for an earlier quantity; two
codes allow one to replace another or one for each member. Two starts of the seed are a cut and its
repair; three tokens are a rotation, its retry and what comes after; a third request lets a key be tapped
twice beside another movement. Three subjects for a sync that reads two reach the limit of what it reads.

Five instances are bounded by what may run together. In `Wallets` and in `Notices` two models that share no
variable and no property take turns (`MCNext`, `OneSideRests`): their interleavings would only multiply. In `Wallets`
the catalogue moves before the first number is checked (`OneDeployment`) and one of the two ways to order is
taken at a time (`OneRoute`). In `Ledger_books`, `Busy` lets the application post less while the seed runs a second
time. In `Auth` a budget is chosen at the start. In `Kyc` the owner's verification, which reads no application, rests
while there are two applications or one is being updated (`VerificationRests`).

The definitions whose names end in `OK` are type invariants. They hold in all these instances and are proved
where a module has proofs; the runs do not repeat them.

Deadlock checking is off except in `Akawo`: the requests of an instance are finite, so it ends in a
state where nothing is left to do. In `Akawo` the environment may always act.

Two pure algorithms are checked as assumptions, which TLC evaluates over every input of a bounded
set: the fee rule (`AcceptedBandsPartition`: the bands the code accepts cover every amount once;
`NeverBelowCost`: a tiered fee without a maximum covers the provider's cost; `MaximumCutsBelowCost`: with
one it may not), in `Bills`, and quiet hours (`QuietHoursAreAnInterval`, also over midnight), in
`Notices`. The proofs extend the first two and the last to every amount, list of bands and length of day (section 5).
`Formation` compares the schedule generator with a calendar.

### Fairness

* Requests (`ConfirmStep`, `HandlerStep`, `RequestStep`, `Query`, `ApplyInquiry`): weak. A started request runs on; a process that dies is a fault action, bounded
  by `MaxFaults`.
* `Deliver`: strong, for each reference. Monnify redelivers until it is acknowledged, and handlers
  come and go.
* Provider decisions on bills: weak. A provider ends up performing or declining what it accepted;
  charges carry no such assumption.
* `Reconcile`: strong, for each bill. Operators work through the reconciliation queue; it is the
  only way the code offers, so without this assumption nothing would follow.

## 4. Where code and documents disagree

The models follow the code. Where a document, a comment or a test of the repository says something
else, the model shows the behaviour of the code, and the properties above are worded to be true of it.
The ones that cost most:

* two confirmations of one intent both reach the provider (`Confirm`, `CreateCharge`;
  `payments.service.ts:175`, "unchanged rather than charging a second time"). The wallet is still credited
  once (`CreditedOnce`), so the second charge is paid and never credited;
* a crash between the reserve and the provider's answer leaves a bill PENDING with nothing to reconcile,
  which `reconcile` refuses, and the money held (`RequestFault`, `Reconcile`; `bill-payments.service.ts:768`, "must be
  either paid out or returned"): `HeldIsResolved` excepts faults for that reason;
* the balance leaves out a reversed row and keeps its reversal, so a reversal moves an account by twice
  the amount (`AccountBalance`, `ReverseTransaction`; `docs/financial-ledger.md:5`). All accounts together still
  balance (`BooksBalance`);
* a swap executed after a payout copies the paid rows as PENDING, and the second payout of that cycle spends
  another turn's money (`ExecuteSwap`; ADR-011:72);
* rewards of sign-up referrals are not counted towards the cap (`CountedRewards`; ADR-012:106), which is why
  `BoundCapHeld` speaks of bound referrals.

Money, further:

* the slower of two confirmations writes PROCESSING over a settled intent (`StoreCharge`;
  `payment-policy.ts:28`, "Terminal states never change again");
* the charge is for amount plus fee, the settlement books the amount and takes the fee out of the
  credit again (`CreateCharge`, `SettlementPosting`);
* an event kept "so it can be retried" after a failed posting (`AwaitRetry`;
  `monnify-webhooks.service.ts:169`) is a duplicate to every redelivery and is never retried;
* a bill undone by the provider before its success was learnt stays reserved, which is why
  `HeldIsResolved` excepts it (`Reverse`); a stale PENDING answer reopens a finished bill
  (`MarkUncertain`), where money is not at risk (`KeepsEscrow`) but the operator's queue is;
* `requirePending` writes EXPIRED and throws in the same transaction, so an expired swap request
  stays PENDING and blocks its slots (`IsPending`; ADR-001:10, swaps "expire if not approved");
* a closed or cancelled Akawo pool takes payments, and members whose request looked the pool up in
  time (`Resolves`, `FindPool`; `akawo-pools.service.ts:401`, "no further members or payments, and the
  record is final"); a removed member can still pay and is then missing from the organiser's total
  (`OrganiserTotal`; line 429, "and their due with them");
* a Food Ajo distribution and programme complete when a code was issued for every item, collected or
  not (`OutstandingItems`; `food-ajo-policy.ts:274`, "only complete when every member who was owed goods
  has collected them"); an unpaid member who withdraws after planning leaves an item no code can be
  issued for, and the distribution never completes (`IssueCollectionCode`);
* unpaid enrolments are bought for and handed out to like paid ones (`CreateDistribution`); a second
  refund of an enrolment is refused, because the reference names the enrolment alone
  (`CancelSubscription`; `food-subscription.payment-target.ts:191`, "their second refund is a new posting");
  a programme suspended after buying began can be opened to enrolment and refund again
  (`CanTransitionProgramme`);
* a refused payout writes HELD over a PAID made meanwhile (`Hold`);
* two deposits on both sides of a campaign change earn two rewards, a deposit read before a refusal
  is awarded after it (`ReadReferral`, `Grant`), and only one reward can ever be clawed back, because
  the reversal's reference is a constant (`ReversePosting`);
* the member who moved money may be left with an error and no answer: the audit row, or the read that looks for the
  row after a lost commit, fails after the money has moved (`Audit`, `Race`); `MoverIsNotRefused` says it is not a
  refusal. A repeated tap may be refused at the PIN although the first one moved the money (`PinChecked`); the key of a movement is looked up without its owner (`Look`);
* an order by key checks neither product nor biller for being active, and asks for the fee without its bands, so
  a TIERED bill fee is refused there (`BillOrders`); an intent asked for under a known key is the earlier one,
  whatever the body says; a copy of the catalogue that stops half way keeps the new revision for six hours
  (`UpsertCategory`);
* a fee's maximum may cut it below the provider's cost (`MaximumCutsBelowCost`; `fee-rule.ts:103`), and the last
  band is not checked for a negative amount (`TiersPartitionRange`);
* `lock` does not ask whether the start date has passed (`Lock`).

Accounts and workflows:

* a password reset ends sessions and leaves their tokens: a client that tries twice turns REVOKED into
  COMPROMISED (`EndSessions`, `Rotated`); a sign-in that had read the old password still opens a session after the
  reset (`Login`, `StartSession`); two answers of concurrent refreshes that arrive out of order leave the
  client with a revoked token, which `ClientCanGoOn` excepts as `suspicious`;
* `verifyEmail` takes the newest code of any purpose and makes a suspended user ACTIVE, as do a reset and the
  linking of a Google account (`VerifyEmail`, `CompleteReset`, `GoogleLink`); users made by Google have no ledger accounts
  (`Configured`);
* a late revocation overwrites an invitation that was accepted meanwhile (`WriteRevoked`);
* wrong PINs at once count as one, so more than the limit may be tried; `LockIsEarned` is the other direction;
* requests in flight pass the attempt count together (`AttemptsBounded` says by how many); two uploads at
  once leave two current documents; approving a lower tier leaves held checks behind a VERIFIED status, which
  `UnderReviewIsInQueue` excepts;
* a `sync` that read before a rejection writes VERIFIED and the old tier over it (`kyc-stage-policy.ts:15`). Every stage
  guard still refuses the account (`RejectedStaysOut`); readers of the stored tier (`Approve`, programmes, referrals)
  do not;
* creating an application is a check and an insert, so two may exist; an update is a check and a write, so an
  application that was submitted meanwhile may still be changed (`BeginUpdate`, `Update`); a review may revive a rejected or
  suspended one (`ReviewTransition`);
* the staff bell looks for applications in SUBMITTED, which `submit` never writes; it resolves what lies beyond
  its first 200 rows, and overlapping syncs can reopen what was handled, which `BellIsCurrent` excepts; a raised
  row keeps its read marks;
* an email whose process dies stays PENDING and is never retried; one the provider took may be recorded as
  FAILED; a repeated `notify` pushes again; releasing a dead token may wipe one that was just registered;
* the seed ("every write is an upsert or a guarded create", `prisma/seed/seeders/README.md`): `CutsHeal` lists what a
  cut leaves for good. Besides, fee bands are deleted and written in two statements, and a rerun puts statuses
  back that are terminal elsewhere.

## 5. What is proved

For every value of the constants that meets the named assumptions of each module: `Amounts` are
positive, fees are naturals, `None` is not a row, a group has two slots or members or more (`CreateAjoGroupDto`), a
start date is a day of the calendar; and the rows a sum or a count ranges over are finitely many (`Bills`,
`Accounts`, `Keys`, `Users`, `Subscriptions`...), as those of a database are.

| Module | Properties that a run checks too | Further |
|---|---|---|
| `DepositsProofs` | `CreditedOnce`, `KeepsPromise`; `BoundCapHeld`, `RewardsTraceable` | `SucceededIsPosted`, `ProcessedMeansSettled`, `TypeOK` |
| `BillPaymentsProofs` | `ReserveMatchesBills`, `KeepsEscrow`; `OneChain`, `ClientCanGoOn`, `OneOpenChallenge`, `ProofSpentOnce`, `SessionsAreVerified` | `IntentInStep`, `StatusBacked`, `Solvent`, `TypeOK`; of the fee rule: `BandsPartitionRange`, `FeeCoversCost` |
| `LedgerProofs` | `BooksBalance`, of `Ledger` and of `Seeding`; `RewardIsPosted`, `CutsHeal` | of `Ledger` alone, because the seed does not call it: `ReversalsPaired`, `AppendOnly`, `TypeOK` |
| `AjoRotationProofs` | `PoolIsContributionsLessPayouts`, `SchedulesTellTheTruth`, `PaidOnlyWhenCollected`; `WithinTerms`, `UsesAreMembers`, `Reconciles`, `TurnsAdvance` | `EverySlotHasATurn`, `VersionsAreImmutable`, and `TypeOK`, which contains that neither the pool nor a wallet is ever overdrawn |
| `AkawoPoolsProofs` | `PaidIsBacked`, `CollectedIsReceived`; `OneClaim`, `EmailedOnce`, `BellIsCurrent` | `MembersOwe`, `SettledDuesStay`, `TypeOK`; of quiet hours: `QuietHoursWrap` |
| `FoodProofs` | `PaidIsInEscrow`, `CollectedOnce`; `RejectedStaysOut`, `AttemptsBounded`, `UnderReviewIsInQueue`, `CoordinatorIsApproved` | `ActiveIsPaidInFull`, `HandedOutIsBought`, `RecordsStay` (what is fulfilled, finished, listed or collected never changes), `AgreedPriceStays`, and `TypeOK`, which contains that no wallet is overdrawn |
| `WalletProofs` | `MovesAsPromised`, `NothingOverdrawn`, `LockIsEarned`, `MoverIsNotRefused`; `BilledAsChecked`, `CatalogueIsCopied` | `MovedOnce`: the postings of a key, one by one |

The arguments. Hardly any of these properties is inductive by itself; each proof names the invariant it goes through
(`IInv`, or a name that ends in `Inv`). Those invariants were checked with TLC on the instances of the runs first.

* *Sums.* The library's induction theorems take an operator as a parameter, which the provers cannot
  instantiate. `Sums` states induction over the naturals and over the subsets of a finite set through
  membership in a set instead (`InductionOnNat`, `InductionOnSubsets`) and derives from it what
  `SumFunctionOnSet` does when an element is added, removed or changed, when two functions are added, and
  that a table adds up the same by rows and by columns (`SumTable`).
* *Deposits.* A handler settles an intent it found earlier. `HandlersKnow` says what it still knows:
  its charge is decided, the intent is the charge's owner, `settle` carries a paid charge and `mark`
  a posted one. `StoredRefsOwned`, `ConfirmersOwn` and `ChargesOwned` say that a reference always
  leads back to the intent it was created for, whichever confirmation stored it. `KeyedByIntent`
  then makes the second posting of an intent a no-op, which is `CreditedOnce`. `CreditBacked` gives
  the refinement its "after a payment".
* *Referrals.* `ReferralsInv`: a reward has a finished award of its campaign and a qualified deposit behind
  it (`RewardEarned`), a clawback is of a reward that was granted (`ClawbackOfReward`), and the one reference of
  a reversal lets one deposit be marked (`MarkedAlone`, `ReversedAlone`). The cap is counted in the transaction that grants, and a
  grant adds at most one to the set it counts.
* *BillPayments.* `BillInStep` and `PostingsBacked` tie the row, the receipt and the intent to the set
  of postings; `AnswerTrue` and `RequestsKnow` say that an answer in flight is one the provider has
  given and cannot take back, save that a success may turn into a reversal. So a release and a
  settlement can never both be applied, however stale the answers. The reserve is then the sum over the
  bills whose postings hold money, and one step changes one of them.
* *Accounts.* `ChainInv`: a session's current token and the one its client holds are of that session, a
  token is rotated into one of the same session, and only the current one works (`SessionLinked`,
  `TokenLinked`, `Current`, `GoesOn`). `EntryInv`: an account, a session and an invitation go back to a proof
  that was presented, one code of a purpose is open, and what may be spent is held by one request or one
  session (`HeldOnce`). `UsersGrow`, `CodesGrow` and `InvitesGrow` are what no step takes back, so that a
  request that waits keeps what it read (`RequestKnows`).
* *Ledger.* A REVERSED row has exactly one mirror because `reverse` looks at the status in the
  transaction that writes it. An even row adds nothing to the sum of all accounts, and its mirror is
  even too. The balance of all accounts is then a sum over the rows, each of which adds nothing (`SumTable`
  exchanges the two sums).
* *Seeding.* A fact is a row that is there or a key that is posted; `Asks` and `Brings` say which facts a statement
  relies on and which it leaves. A statement with branches has a contract (`Contracts`), and each branch of each
  is shown to keep it (`AllKept`), so that a list can be judged without looking into the branches. `Underway` says
  that the list left to execute runs to its end from what is known: everything it asks for is there or brought
  earlier and at the end everything lasting is there (`Works`), a create meets no row of its own (`Fresh`), and what
  comes in pairs is not torn by the list itself (`Paired`). `StatementsSound` shows this of the whole list, seeder by seeder and
  from any database, which is why a second run repairs what a cut left. `FirstRun` adds, while
  the seed was started once, that the second slot and the fee are still to come or there. A step takes one
  statement off or replaces it by a branch (`Pop`, `Expand`). Together with `RowsEven` (every row adds nothing to the books) this
  is `SeedInv`; it gives `CutsHeal` for any number of runs and cuts, and `RewardIsPosted`.
* *AjoRotation.* `StatusFollowsPaid` ties a schedule's status to what was paid, and `RowsExist` lets a
  HELD write and a swap name existing rows. A schedule that is paid stays paid, so a cycle paid out
  stays collected. The pool's balance and what a schedule counts as paid follow the set of contributions,
  to which a step adds one row.
* *AjoFormation.* `FormationInv`: slots belong to members (`SlotsOwned`), plans to the terms (`PlansPriced`), an
  invitation not issued was not used (`Unissued`), and the rows of a locked group are the ones `lock` wrote
  (`LockedRows`). `Reconciles` adds constants over counted sets of slots and cycles; `TurnsAdvance` rests on the calendar:
  every day of a month comes before every day of a later one.
* *AkawoPools.* `PaidOnce` says a due is PAID exactly when a posting paid it, and by one only;
  `IntentsOwned` ties postings to intents and intents to dues. A confirmation resolves its due again
  in the transaction that pays it, so it always finds one that nothing has paid. `MembersNamed` makes
  a removed member's reference count as taken.
* *Notices.* `NoticesInv`: the row of an email's key lets one call through to the provider
  (`CallsKeyed`, `SenderIsAlone`), which is called for rows that exist only (`SendsAreTrue`). `FeedInv`: a sync
  that nothing overlaps knows what is outstanding and has opened what it has gone through (`LoneSweepKnows`,
  `SweepsRest`).
* *FoodFulfilment.* The price part rests on `EnrolledAfterOpening`: prices change in a draft only, and
  nobody is enrolled in one. A confirmation resolves the enrolment again in the transaction that pays,
  so an intent quoted for another quantity is refused; with `IntentsNamed` that gives
  `ActiveIsPaidInFull`. `PlannedIsBought` carries the receipt from the order to the hand-out. The proof
  treats the two halves apart (`PInv`, `FInv`): a step of one leaves the other's variables alone. The escrow
  and the wallets are sums over the enrolments of the price agreed.
* *Kyc.* `KycInv`: a rejection leaves a mark that no `sync` writes over (`RejectedIsMarked`); a held check has put its
  profile in front of a reviewer, or its request is about to (`HeldIsReported`); the failures the provider answered
  and the requests it has not answered stay within the budget together (`BudgetKept`). `ApplicationsInv` adds the
  applications: a coordinator is verified by the step that approves.
* *WalletMovements.* `WalletInv`: a movement has one posting and a posting its movement (`PostedOnce`), a request knows
  of its movement what its answer will say (`RequestsFormed`), and a check of a PIN counts no more failures than
  wrong PINs were entered (`ChecksBehind`), so a lock has its wrong PINs behind it. The balance is read in the transaction
  that posts, which gives `NothingOverdrawn`. The refinement maps the balances to what `summary` computes from the
  postings and `told` to the keys answered as moved. A posting changes one or two balances by its order
  (`PostingCounts`); `SettleIsPromised` turns that into a transfer or a reservation, `AnswerIsPromised` every other step into a
  telling or a stutter. That the key is looked up again in the transaction is what makes a repeated tap stutter.
  `MoversPast` follows the request behind a posting: it is past its transaction and under the key it moved, so in the
  catch it finds its own row.
* *Fees and quiet hours.* Bands that are accepted are laid out from zero upwards (`TiersInOrder`). The last one that starts
  at or below an amount covers it, because it ends where the next one starts; no other does. The markup of the
  band found was checked, unless it is the open-ended one, which `FeeCoversCost` therefore assumes not to be
  negative. Quiet hours are arithmetic modulo a day.
* *BillOrders.* `CopyInv`: a server that refreshes alone has copied what it has gone through (`RunsAlone`,
  `HalfCopied`). `OrderInv`: intents, bills and requests go back to one check and its number
  (`IntentsFormed`, `BillsFormed`, `ClientsFormed`), and one request is about to call the provider for a bill
  (`OneSender`).

## 6. What is only model-checked

* Liveness (`PaidIsCredited`, `HeldIsResolved`): fairness is outside the prover's reach.
* That a maximum can cut a fee below cost (`MaximumCutsBelowCost`) is an example, which TLC evaluates.
* The mutants: that each property fails for a wrong version of the code is a matter of the instances.

## 7. What is not modelled, and the plan

Not modelled for good:

* adapters (Redis, RabbitMQ, Monnify, Resend, Expo), controllers and DTO validation, health: I/O, which appears
  as the environment of the module that calls it;
* the console's queries and exports, public listings, profile and content pages, personal Akawo goals: reads and
  single-row writes that no other state depends on;
* message templates, masking, formatting: wording;
* static role tables and configuration;
* the OAuth redirect (state and PKCE), hashing and signing: opaque values here.

The outbox is written and never read by code under `src/`; the scheduler process has no job.

Order of the modules, the most important money paths first: `Deposits`, `BillPayments`, `Ledger`, `AjoRotation`,
`Referrals`, `AkawoPools`, `FoodProgramme` with `FoodFulfilment`; then `Sessions` and `Accounts`, `WalletMovements` with
`TransactionPin`, `BillOrders`, `Fees`, `AjoFormation`, `Kyc` with `CoordinatorApplications`, `Notices` and its parts, `Seeding`.
Next: `BillOrders` and `BillPayments` in one model, from the number that is checked to the money that is released, and an
abstract specification of a session's token chain that `Sessions` implements.
