# A TLA+ model of the payment wallet

The repository is a NestJS application over PostgreSQL (Prisma) and Redis: users own one
wallet each, deposit and withdraw through Stripe or PayPal/Braintree, and transfer to each
other. This directory models the part where money moves, the connection pool under it, account
closure, the sessions, the Stripe Connect link and the paged lists, model-checks them on small
instances with TLC, and proves their safety properties with TLAPS for any number of wallets,
keys, calls, instances, tokens, accounts and rows. Source paths below are relative to `src/src/modules/` unless they start with `src/`.

## 1. Inventory

| Component | State it keeps | Operations | Talks to |
|---|---|---|---|
| Wallet store (`wallet/wallet.repository.ts`, `transaction/transaction.repository.ts`, `payment/payment.repository.ts`, `src/prisma/schema.prisma`) | `Wallet` (available, locked, pending), `Transaction`, `LedgerEntry`, `OutboxEvent`, `PaymentLog` rows; PostgreSQL row locks | lock a row, credit/debit/lock/settle a balance, insert transaction + entries + event, mark delivered, count a retry | all services below |
| Transaction service (`transaction/transaction.service.ts`) | none of its own | `deposit`, `withdraw`, `transfer` | store |
| Payment service (`payment/payment.service.ts`) | none | `createDepositIntent`, `confirmDeposit`, `createPayout` | store, Stripe Connect link, provider adapters (intent only) |
| Outbox processor (`payment/payment-processor.service.ts`) | Redis key `locks:payment_processor`, the batch in memory | cron tick, fetch, process event, retry | store, providers, settlement |
| Settlement (`payment/payment-settlement.service.ts`) | none | `settle`, `fail` for deposits and withdrawals | store |
| Provider adapters (`payment/providers/*`) | PayPal's cached OAuth token | `confirmDeposit`, `createPayout`, `createDepositIntent` | Stripe, Braintree, PayPal |
| Sessions and tokens (`auth/*`) | `RefreshToken` rows, Redis rotation cache, Redis denylist | register, login, refresh (rotation with a grace period), logout, logout-all, eviction beyond the session maximum, clean-up | users, Redis |
| User accounts (`user/*`) | `User` rows: status, password hash, provider links | profile, password change, `closeAccount` | sessions, wallet balances |
| Stripe Connect (`stripe-connect/*`) | `User.stripeConnectAccountId` | onboarding, status, webhooks (`account.updated`, deauthorization) | Stripe, users |
| Lists (`wallet/wallet.service.ts`, `transaction/*`, `user/*`) | none; the client keeps cursor or page number | ledger and wallets by keyset cursor, transactions and users by page number | store |
| Connection pool (`src/src/prisma/prisma.service.ts`) | connections in use, queue of waiters | taken by a transaction until it ends, by a lookup for one statement | store, all services |
| HTTP layer, guards, DTOs, filters, audit log, health, crypto | none that outlives a request | validation, error mapping, logging | everything |

### Where the difficulty is

* **Handlers run concurrently** under READ COMMITTED. The idempotency lookup is outside the
  database transaction, the balance check is on a row read before it is written, and a
  transfer locks two rows. Row locks, their order and the unique key are all that protects.
* **Settlement is asynchronous.** The provider is called between two database transactions.
  The process may die between them, the answer may be lost, the Redis key may expire while
  its holder still works, and the key carries no owner, so the late holder deletes the key
  of the next one. Two runs can then hold the same event with different answers, and
  `settle`/`fail` do not look at the transaction's status. The unique
  `PaymentLog.transactionId` is the only guard.
* **Two services post the same movement differently.** `TransactionService` writes the ledger
  entry when a deposit or withdrawal is initiated, `PaymentService` leaves it to settlement.
* **Sessions**: rotation races eviction and logout-all; a lost answer is retried inside or
  outside the grace period; the rotation cache is written after the commit.
* **Account closure** reads balances without a lock and races transfers; settlements of what is
  still at the provider come later.
* **The pool**: a handler that holds a connection, and in `createPayout` the wallet's row, asks
  for a second connection; calls that hold the others may be waiting for that row.
* **Lists** are read in several requests while rows commit, in another order than that of their
  `createdAt`, and several rows may share a millisecond.
* **Stripe Connect**: two onboarding calls; a deauthorization that races a new link.
* **Numbers**: four decimals in the database, two at the providers and in the API.

### What makes each part correct

* Store and handlers: no overdraft; a key creates one transaction; balances equal what the
  transaction rows say; every open call is answered.
* Processor: a transaction is closed at most once and never changes afterwards; every event
  is delivered or becomes a dead letter; a deposit becomes spendable only when paid.
* Ledger: append-only, truthful `balanceAfter`, and it explains the balances.
* Sessions: a rotated token yields one successor; a retry gets that successor; what an ending
  operation found live is over, and its session goes on only by a rotation that overlapped the
  operation; at most the configured number of sessions.
* Connect: nobody is sent to onboard an account the database does not know; a cleared link does
  not come back; a stored link is taken away only by the deauthorization of its account or by a
  call that was already under way when it was stored.
* Closure: nothing the closure saw is still open or left behind. Pool: no wait lasts for ever.
  Lists: no row that was there is skipped or shown twice, and a walk ends.

## 2. Modules

```
WalletStore ── WalletRequests ──┐
     │    └─── OutboxProcessor ─┴─ PaymentSystem ── DocumentedClaims ── MCPayment
     │                                  │ │ │                               │
     └─ WalletAccounting ───────────────┼─┼─┼───────────────────────────────┘
                          FundsContract ┘ │ │ (INSTANCE, refinement mapping)
                 MCPool ── ConnectionPool ┘ └ AccountClosure ── MCClosure

AuthSession ── MCSession      StripeConnect ── MCConnect      PagedReads

Proofs:
PaymentSystem ── PaymentSystemProofs ──┐
WalletAccounting ──────────────────────┼─ WalletAccountingProofs ──┐
                         FiniteSums ───┘                           ├─ CompositionProofs
                                  ConnectionPool, AccountClosure ──┘
AuthSession ── AuthSessionProofs   StripeConnect ── StripeConnectProofs
PagedReads ── PagedReadsProofs
```

**WalletStore** — the rows and the repository methods that write them. A user owns exactly
one wallet (`Wallet.userId @unique`), so a wallet id stands for its owner. An idempotency
key is unique, so it stands for its transaction and for that transaction's one outbox event.
`wallet`, `txn`, `ledger`, `outbox` and `paymentLog` are the tables; `locks[r]` is the set of
wallet rows that call `r` holds `FOR UPDATE`. Balance operators are relative updates, one per
repository method, applied to the committed row, as the SQL is. Amounts are integers in units
of 0.0001 (`Decimal(18, 4)`).

**WalletRequests** — `deposit`, `withdraw`, `transfer`, `confirmDeposit`, `createPayout`. A
call is `RefuseEarly`, `Replay` or `Open` (everything before `withTransaction`), then
`LockWallet` once or twice, then one of `Refuse`, `NoDestination`, `Conflict`, `Abort` or the
handler's commit. Statements between the last lock and the commit touch only locked rows and
fresh ones, so they are one step; the locks and the snapshot (`seen`) are state, because other
calls and the processor run in between. A commit inserts the transaction, its entries and its
event, updates the balances, answers and releases the locks.

**OutboxProcessor** — `processOutbox` and `processEvent` on every instance, and settlement.
`Acquire` is `SET NX EX`; `Fetch` the batch query (which event is oldest is left open, as
`createdAt` does not follow the commit order); `CallProvider` the call, with every pair of
answer and money movement the adapter can produce (a thrown error, a lost response included,
is an answer "failed"); `AcceptAsync`, `Settle`, `Fail` what the answer asks for; `WriteThrows`
and `ResolveThrows` the catch with `incrementRetry`; `BatchAborts` an error out of the loop,
`Crash` the death of the instance, `ExpireOrphan`/`ExpireOverrun` the TTL. `moved` counts, for
each key, how often the provider moved the money: it is the outside world, not a column.

**PaymentSystem** — the two over one store, `Spec`, `FairSpec`, the safety and liveness
properties and the refinement mapping.

**FundsContract** — what users are promised, with two variables: balances, and what each key
was used for. Every key is used once, each effect is one indivisible step checked against the
balance it takes from, each initiated operation is closed at most once.

**WalletAccounting** — balances recomputed from the transaction rows and from the ledger.

**DocumentedClaims** — statements of the repository that the code does not keep.

**AuthSession** — `AuthService`, `SessionService`, the refresh-token rows, the rotation cache
and the denylist in Redis, and the operations of `UsersService` that end sessions. A token is
the pair `generateTokenPair` returns. `row[t]` is its `RefreshToken` row; `parent` and
`session` record what it was rotated from and which login it descends from (history, not
columns). A call is a program counter and what it has read: `found` (the classification),
`held` (the session to evict, or the new pair), `snap` (the rows that
`UPDATE ... WHERE userId AND revokedAt IS NULL` sees). That UPDATE is two steps, `SnapshotAll`
and `RevokeAll`, because under READ COMMITTED a statement does not see rows inserted after it
started, and looks again at the rows it waited for. The advisory lock of `createSessionAtomic`
and the lock on the `User` row are guards over the other calls' program counters. Time is the
environment's: `Expire`, `GraceEnds` and `CacheExpires` happen to any token at any moment, so
no clock or TTL value is fixed. `Die` ends a call between any two steps. Redis writes may fail
wherever the code swallows the error. Which of several active sessions is the oldest is left
open. The clean-up's Redis lock is left out: a second clean-up deletes nothing. Two variables are
history and say exactly which rotations can break a promise (`Track`). `raced` holds the tokens
issued by a rotation that got between a login's choice of a victim and its eviction, or that
renewed a token that had expired since it was read. `missed[c]` holds the tokens rotated for the
user of call `c` while `c` was ending what it had read: between the snapshot and the commit of an
UPDATE of all tokens, or between a logout's look-up and its revocation.

**StripeConnect** — onboarding, link refresh and the webhook handlers over the column
`User.stripeConnectAccountId`. Stripe is external: accounts, their owners' disconnecting, and
deauthorization events that are delivered any number of times at any moment. The column is unique
(`src/prisma/schema.prisma:69`), so `PersistAccount` is refused another user's account.
`everLinked` and `linkedBefore[c]`, the links stored when call `c` came in, are history: they tell
the calls that overlapped the storing of a link from those that came later.

**ConnectionPool** — the handlers of `PaymentSystem` over a pool of `PoolSize` connections. A
call holds one while its transaction is open (`Holders`). `Arrive` needs a free one; `LookUp`,
which is `findByUserId` inside the transaction or the payee lookup of `createPayout`, needs a
second one for the length of a statement; `known` is what a call has looked up. `Lock` and
`Decide` are the handlers' steps, held back until their lookups are done. `LookUpTimesOut` is
`connectionTimeoutMillis`.

**AccountClosure** — `closeAccount` and the admin's status update next to `PaymentSystem`.
`ReadBalances` is the first statement of the closing transaction, `CloseAccount` its writes and
commit: under READ COMMITTED, and without `FOR UPDATE`, anything commits in between. A call is
admitted by the status its user has when it arrives (`Admitted`, `JwtStrategy.validate`).
`before` remembers which transactions the read could see. What a closure does to the sessions
is in `AuthSession`.

**PagedReads** — one client that walks a list while rows commit. A row gets its `createdAt`
when it is inserted and becomes visible when its transaction commits, so the order of the one
is not the order of the other. `FetchKeysetPage` is a request of `fetchLedgerPage` or
`listWallets` with any limit; `FetchNumberedPage` and `CountRows` are the two statements of
`findByWalletPaginated` and `UsersRepository.findAll`, which share a transaction and not a
snapshot. Rows with equal `createdAt` are ordered by id in the keyset queries; in the numbered
ones they are not, and the model lets each query order them anew.

**MCPayment**, **MCPool**, **MCClosure**, **MCSession**, **MCConnect** — instances for TLC, with
**MCInputs** for what the first three share; `PagedReads` is checked as it is.
**PaymentSystemProofs**, **WalletAccountingProofs**, **CompositionProofs**,
**AuthSessionProofs**, **StripeConnectProofs**, **PagedReadsProofs** — theorems; **FiniteSums**
— lemmas about sums over finite sets that the accounting proofs use.

Operators named `Mut...` are single plausible bugs in the definition they precede (a dropped
guard, a forgotten write, an off-by-one); substituting one must break the property that
`PROJECT.json` pairs it with. They are part of no specification.

## 3. Runs

`tlc -workers 2 -config <cfg> <MC module>`. The interesting cases need two or three calls,
two wallets, two instances and one or two faults; every race in section 1 is between two
actors, with a third one to change the state under them.

| Run | Instance | Shows |
|---|---|---|
| `requests` | 3 calls, 3 wallets (one not ACTIVE), 3 keys, 10 requests that share keys and overspend wallet 1 | `NoOverdraft`, `CreatedOnce`, `BalancesMatchTransactions`, `LedgerIsAppendOnly` under every interleaving of the five handlers and every refusal |
| `crossing` | 2 calls over a pool of 2 connections, opposite transfers, a withdrawal and a payout, fairness | `EveryCallAnswered`, `WaitersServed`: no cycle of row locks, nor of row locks and connections |
| `pipeline` | 1 call, 2 processors, 2 keys, up to 2 retries, 2 faults | balances and ledger explained, `TerminalMatchesLog`, `PendingStillInitiated`, `SettledDepositWasPaid`, `HistoryIsFinal`, `LocksShield` with crashes, overruns, lost answers and two runs on one event |
| `closure` | an account closed and reopened next to 2 calls and a processor | `NothingOpenAtClosure`, `OnlyLateFunds`, and `ImplementsContract` throughout |
| `drain` | 1 call, 2 processors, 1 fault, fairness | `EventsDrained`: delivered or dead letter, always |
| `sessions` | 1 user, 3 tokens, 2 calls at a time, 4 over a behaviour, 1 session allowed, every operation | `SessionIsOneChain`, `ReplayIsTheSuccessor`, `WhatWasSeenIsRevoked`, `SessionsBounded`, `SurvivorsRaced` |
| `connect` | 2 users, 3 accounts, 3 calls at a time, 5 over a behaviour, failures | `UrlOnlyForPersisted`, `ClearedStaysCleared`, `LinkLostToOverlap` |
| `pages` | 4 rows, 3 milliseconds, pages of 1 or 2, fairness of the client | `ShownOnce`, `NothingMissed`, `ExactWhenQuiet`, `WalkEnds` |
| `claim_*` | smaller instances of the above | four statements of the repository that TLC refutes (section 5) |

Bounds: `MaxFaults` bounds crashes, aborts and overruns; `MaxRetries` is 5 in the code and 1
or 2 here, which is enough for an event to be retried by another run and to run out;
`BatchSize` is 100 in the code, and 1 here makes a batch smaller than the pending set.
Amounts 1 and 2 over opening balances of 2 make "exactly enough", "just too much" and
"enough until another call commits" happen; in `pipeline` a transfer of 3 is covered only
once a deposit has settled. Symmetry (calls, instances, users, tokens, accounts) is used only
in runs whose properties are invariants or steps of the money flow. In the money flow calls
may go on arriving for ever, with keys already used, so no run stops and deadlock checking
stays on. In `AuthSession` and `StripeConnect` `MaxCalls` bounds the calls of a behaviour and
the tokens or accounts run out, so a behaviour may end there and deadlock is not checked. Four
calls are a registration and three more, two of them at the same time: a fork of a session, a
replay, an eviction or a revocation that overlaps a rotation, and what happens after it. The
sessions run allows one session, so that every login evicts; `Ops` selects the operations that
a run's clients use. In `crossing` two calls with one connection each exhaust the pool, so every
lookup waits; a third call would only queue behind them. In `pages` four rows in three
milliseconds make ties happen inside a page, at its edge and across it, with two more pages to
come; a walk may start again at any time, so no behaviour ends and deadlock is checked.

Fairness (`FairSpec`). `SF(LockWallet)`: PostgreSQL queues the waiters of a row, so a waiter is
not overtaken for ever; weak fairness is too weak, since the row may be taken and released by
others again and again. `WF(Resolve)`, `WF(Finish)`: the event loop goes on with a handler
that can. `WF(Acquire)`: the cron of each instance fires every 30 seconds. `WF(Work)`: a batch
goes on. `WF(ExpireOrphan)`: Redis expires keys. Arrivals, aborts, crashes and overruns get
none. Fairness of `Work` does not choose between its outcomes: an event may fail every time.
`PoolFairness` adds `SF(LookUp)`: the pool serves its waiters in order; and
`WF(LookUpTimesOut)`: its timer of ten seconds fires for a wait that lasts. Prisma's timeout of
a transaction is not relied on. In `PagedReads` the client goes on asking (`WF(Fetch)`);
commits get none.

## 4. Proofs

`tlapm PaymentSystemProofs.tla`, and likewise the other proof modules. The assumptions are the
ones named in the modules. `StoreAssumption`, `RequestAssumption` and `ProcessorAssumption`:
amounts are positive, opening balances are not negative, payment requests name a provider and
others do not. `ClosureAssumption` and `PoolAssumption`: those who close accounts own wallets,
and the pool has a connection. `SessionAssumption`, `ConnectAssumption`, `PagesAssumption`: the
values that stand for "none" are none of the others, at least one session is allowed, the rows of
a list are finitely many and a page holds at least one of them. The sets of wallets, keys, calls,
instances, requests, users, tokens and accounts are arbitrary, infinite ones included, and so
are the bounds. Every invariant and every action property that a run checks, and the refinement,
is a theorem.

| Theorem | States |
|---|---|
| `TypeCorrect` | `Spec => []TypeOK` |
| `Solvency` | `Spec => []NoOverdraft` |
| `LogGuardsStatus` | `Spec => []TerminalMatchesLog` |
| `PendingIsOpen` | `Spec => []PendingStillInitiated` |
| `HistoryNeverChanges` | `Spec => HistoryIsFinal` |
| `LocksShieldBalances` | `Spec => LocksShield` |
| `Refinement` | `Spec => ImplementsContract` |
| `BalancesAreTransactions`, `LedgerExplainsBalances` | `Spec => []BalancesMatchTransactions`, `Spec => []LedgerReconciles` |
| `LedgerOnlyGrows` | `Spec => LedgerIsAppendOnly` |
| `KeyCreatedOnce`, `DepositsArePaid` | `Spec => []CreatedOnce`, `Spec => []SettledDepositWasPaid` |
| `PoolImplements`, `ClosureImplements` | `PoolSpec => Spec`, `ClosureSpec => Spec`: all of the above holds over the pool and next to closures |
| `PoolTypeCorrect`, `ClosureTypeCorrect` | `PoolSpec => []PoolTypeOK`, `ClosureSpec => []ClosureTypeOK` |
| `ClosureKeepsContract` | `ClosureSpec => ImplementsContract` |
| `ClosedIsSettled`, `ClosedFundsAreLate` | `ClosureSpec => []NothingOpenAtClosure`, `ClosureSpec => []OnlyLateFunds` |
| `SessionTypeCorrect`, `SessionsAreChains`, `ReplaysAreSuccessors`, `SeenIsRevoked`, `OnlyRacersSurvive`, `SessionCount` | `TypeOK`, `SessionIsOneChain`, `ReplayIsTheSuccessor`, `WhatWasSeenIsRevoked`, `SurvivorsRaced`, `SessionsBounded` of `AuthSession` |
| `ConnectTypeCorrect`, `UrlsArePersisted`, `ClearedIsFinal`, `LinksOutlastLaterCalls` | `TypeOK`, `UrlOnlyForPersisted`, `ClearedStaysCleared`, `LinkLostToOverlap` of `StripeConnect` |
| `PagesTypeCorrect`, `PagesShowOnce`, `PagesMissNothing`, `QuietPagesAreExact` | `TypeOK`, `ShownOnce`, `NothingMissed`, `ExactWhenQuiet` of `PagedReads` |

**The money flow** rests on `Invariance == Spec => []IndInv`. `NoOverdraft` is not inductive: a
commit takes from the row what it compared with an older read. `IndInv` adds why that is right:
locks are held only by open calls and on the rows of their request (`LocksBelongToOpenCalls`), no
row is held twice (`LocksExclude`), and while the payer's row is held the snapshot *is* the row
(`SnapshotsFresh`), which also needs that a settlement waits for the row. The settlement side
needs that batches hold only deposits and withdrawals (`BatchesHoldProviderEvents`, from
`EventsMatchRows` and the query), that their wallet exists (`RowsWellFormed`), and that the
payment log agrees with the status (`TerminalMatchesLog`); then the unique log row makes
`settle` and `fail` act on open transactions only, which is `HistoryIsFinal` and the closing
half of the refinement. The induction has one lemma per action; the five commits share
`CommitKeeps`, settlement and reversal share `CloseKeeps`. The action properties and the
refinement rest on three lemmas: only commits and closings write balances or rows, a commit
writes a free key and its own locked wallets, a closing meets an open transaction and an
unlocked wallet.

**Accounting.** The balances are compared with sums over all transactions, so the proof needs to
know what a sum over a finite set is. `FiniteSums` derives that from the definition of the
community module's fold: the sum does not depend on the set the fold was started from, adding or
removing one element changes it by that element's value, and it bounds each of its terms. Each
lemma takes a smallest set that would refute it (the strict subsets of a finite set are well
founded), which needs no induction rule with an operator as parameter. `AccountInv` then says that
finitely many transactions exist, that each row has exactly the ledger entries its type, provider
and status ask for (`LedgerMatchesRows`), that an INTERNAL deposit or withdrawal is never closed,
since no adapter answers for one (`InternalStaysOpen`; without it a settlement would post its entry
a second time), and that balances and ledger agree with the rows. Every step that moves money
writes one row, and moves each balance by what the new row adds less what the old row added
(`BalancesMove`); the sums move by the same amount. `AnswerInv` gives the two properties about
answers: the row of a created call exists, so a second call with its key conflicts, and an answer
`done` that an instance still holds is of an event whose money has moved.

**Composition.** Each step over the pool and next to closures is a step of `PaymentSystem` or
changes nothing of it. `ClosureInv` says what a closure's check established and what outlasts the
time between check and write: transactions the check could see are closed (the balances are zero
and, by `BalancesByRows` and positive amounts, back no open transaction), and the wallet is empty
unless a later transaction names it.

**Sessions.** `SessionIsOneChain` needs that a token with a successor is not live and shares its
session (`RowsOK`); replays need that the cache holds what its key was rotated into (`CacheOK`);
the properties of revocation need, for each call from its reading to its answer, that none of the
rows it saw is live once it has committed (`SnapOK`, `AskedOK`), and that a live token of a session
it saw is one of those rows, or the call has missed a rotation of that session (`EndedOK`): a row
it saw can be rotated only while it is live, hence before the commit. Of a step these invariants only need to know that rows grow older or that
one token is issued, from a login or from a live parent that is revoked in the same step (`Evolves`),
so the many actions that issue nothing share one argument. `BoundInv` counts: only one login at a
time is between counting and inserting, for each user (the advisory lock), and what it counted
still bounds the active sessions, up to the rotations remembered in `raced`.

**Stripe Connect.** What the column, a call or a webhook has in hand is its own user's account. A
call that is about to persist an account holds one that nobody else holds and that was never
persisted (`InHandIsFresh`), which is why it cannot bring back an account that was cleared. For
`LinkLostToOverlap` the induction keeps, for each call that is about to write, that the link its
user has now was stored after the call came in, or is the one it is there to clear
(`StoredMeanwhile`).

**Lists.** Neither property of the keyset walk is inductive: `CursorSplits` says why they hold,
namely that between two pages nothing shown follows the cursor and everything still owed does.
`CursorMoves` carries it over a page: the row the new cursor is made of comes after the page's
other rows and before all that was left, and, as the order is total, after whatever did not
follow the old cursor; a row that is being inserted is not visible, so no row of the walk changes
its place. For numbered pages `ShownIsHead` says that what has been shown is the head that the
next query skips: with distinct dates there is one head of each length (`OneHead`), and the walk
ends when page number times limit reaches the total (`LastPage`).

All inductive invariants were first checked with TLC on the instances of section 3.

Model-checked only: liveness (`EveryCallAnswered`, `WaitersServed`, `EventsDrained`, `WalkEnds`),
because fairness and ENABLED are outside the prover; and the refutations of section 5, which are
counterexamples.

## 5. Where the code and its documentation differ

* `InitiatedIsClosed` (`payment.controller.ts:107`): accepted payouts and Stripe deposits wait
  for a webhook that no code handles, and an event out of retries is dropped; the transaction
  stays INITIATED and its funds pending or locked.
* `FailedPayoutDidNotGoThrough` (`payment-settlement.service.ts:334`): a lost answer is taken
  for a failure; the provider may have paid what is given back. The catch is the same for Stripe
  (`stripe.provider.ts:262`) and PayPal (`paypal.provider.ts:336`).
* `PayoutMadeOnce` (`src/README.md:603`): a retried event makes the payout again; the adapters
  send no idempotency key that survives the retry.
* `ClosedWithoutFunds` (`users.service.ts:167`, `users.repository.ts:221`): the closing
  transaction is neither serializable nor does it lock the wallet row; a transfer that commits
  after the balances were read leaves a closed account with funds, whose owner cannot log in.

Differences that no `claim_` run is about, met while modelling. Each is a behaviour of the
modules; for the races among them a passing run and a theorem say exactly which overlap they need:

* `payment-processor.service.ts:40` says that the Redis lock prevents concurrent processing; the
  key's TTL is not renewed, the provider calls have no timeout, and `finally` deletes whatever
  key exists (`ExpireOverrun`).
* `payment-provider.registry.ts:17` says that INTERNAL never enters the outbox as pending;
  `TransactionService.deposit` and `withdraw` put such events there, and they fail to resolve
  until they are dead letters.
* `auth.repository.ts:172` describes an eviction that keeps to the session maximum; when the
  chosen session is rotated before the eviction, which goes by row id, its successor stays
  active and the user has one session too many. `SessionsBounded` counts exactly these rotations,
  and those that renew a token that expired under them; nothing else exceeds the maximum.
* `auth.controller.ts:107` says that logout-all revokes every active session; a refresh that
  commits while its UPDATE runs leaves a successor that the UPDATE does not see, on a closed
  account too when the operation is a closure. `SurvivorsRaced` says that nothing else survives.
* A walk by page number shows a row twice when another one commits between two pages, and may
  show one twice and another never when two share a millisecond (`orderBy` has no tie-breaker);
  `ExactWhenQuiet` is what remains.
* The handlers assert `Wallet.status`, which a closure or suspension does not change: a call
  admitted before it goes through after it.
* `auth.controller.ts:86` says that logout revokes the session; a refresh between its lookup and
  its revocation moves the session on. `SurvivorsRaced` says so of logout too: no refresh before
  the look-up or after the revocation does.
* `stripe-connect.service.ts:38` says that accounts must not be duplicated per user; two
  onboarding calls that both read none create two, and the second write replaces the first link.
* `stripe-connect-webhook.service.ts:149` clears by user what it found by account: an account
  stored in between is unlinked although it is connected. `LinkLostToOverlap` says that these two
  overlaps are the only ways to lose the link of an account that is still connected.
* A client whose refresh was answered with a lost response gets its pair again only while the
  rotation cache has it; when the entry was never stored, or another retry has cleared it, the
  retry is refused and the client logs in again. `ReplayIsTheSuccessor` excludes a wrong answer,
  not a missing one.
* `stripe-connect-webhook.service.ts:91` says that completion is audited once; nothing
  remembers that it was.

## 6. Not modelled

`createDepositIntent` writes nothing. PayPal's OAuth token cache is one value, fetched again a
minute before it ends, and overlapping fetches each use their own: the only question is one of
real time. Amounts go to Stripe as `Math.round(amount * 100)` and to clients with two
decimals: one rounding of one number, at most half a cent off the four decimals of the database
and no matter of state or order. The lists filtered by a user's status, which rows can leave
between two pages, promise nothing to check. Repository methods without a caller
(`TransactionRepository.settleDeposit`, `updateStatus`, `findPendingOutboxEvents`,
`markOutboxDelivered`, `incrementOutboxRetry`) are left out. `User.braintreeCustomerId` is
represented only by the failure its unique constraint can cause in a settlement
(`WriteThrows`). `getAccountStatus`, `account.updated` and the profile update have no
state to protect beyond a single read, audit record or write. `Wallet.status` and `Wallet.currency` are constants: no code writes them
after creation. Validation, formatting, logging, audit, health checks, crypto and wiring hold
no protocol state.

## 7. Plan

Done: the money flow with its contract, the pool and the closure around it, sessions, Stripe
Connect, the paged lists. Every part of the application that keeps or changes state has a module,
and every safety property that a run checks is proved. Next:

1. Facts that several proofs derive by hand become lemmas of their own: what is left of the row of
   a call's key between its steps, and the shape of a step of `AuthSession`.
2. Stronger statements where the proofs show that more is true: money is conserved over all wallets
   between deposits and withdrawals; a keyset walk without commits shows exactly the list, in order.
3. The safety half of the liveness properties: the retry count of an event only grows, and the
   cursor of a walk only moves down, so that a walk over finitely many rows has a bound.
