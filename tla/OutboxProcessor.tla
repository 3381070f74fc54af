-------------------------- MODULE OutboxProcessor --------------------------
(***************************************************************************)
(* PaymentProcessorService.processOutbox, run by the cron of every         *)
(* instance, and PaymentSettlementService.settle and fail.                 *)
(*                                                                         *)
(* An instance takes a Redis key (SET NX EX) that carries no owner, reads  *)
(* a batch of pending events and processes them one by one: it calls the   *)
(* provider, outside any database transaction, and then writes what the    *)
(* answer asks for. Nothing after the fetch looks at the event or at the   *)
(* transaction's status again; PaymentLog.transactionId @unique is what    *)
(* stops a second settlement.                                              *)
(***************************************************************************)
EXTENDS WalletStore, FiniteSets

CONSTANTS
    Procs,          \* application instances, each with its cron
    BatchSize,      \* findPendingProviderEvents' limit (100 in the code)
    NoKey,          \* "no event in hand"
    MaxFaults       \* bound on crashes, batch aborts and lock overruns

ASSUME ProcessorAssumption ==
    /\ BatchSize \in Nat \ {0}
    /\ NoKey \notin Keys
    /\ MaxFaults \in Nat

VARIABLES
    lockKey,        \* the Redis key locks:payment_processor exists
    ppc,            \* where each instance's processOutbox is
    batch,          \* events it fetched and has not finished
    event,          \* the event whose provider answer it holds
    result,         \* that answer
    moved,          \* external: times the provider moved the money of a key
    faults          \* crashes, aborts and overruns so far

processorVars == <<lockKey, ppc, batch, event, result, moved, faults>>

\* ProviderResult, by what the processor's branches tell apart:
\* "accepted" is success with requiresWebhook, "done" success without it,
\* "failed" is success = false.
Results == {"none", "accepted", "done", "failed"}

ProcessorTypeOK ==
    /\ lockKey \in BOOLEAN
    /\ ppc \in [Procs -> {"idle", "polling", "running", "answered"}]
    /\ batch \in [Procs -> SUBSET Keys]
    /\ event \in [Procs -> Keys \union {NoKey}]
    /\ result \in [Procs -> Results]
    /\ moved \in [Keys -> Nat]
    /\ faults \in 0..MaxFaults

ProcessorInit ==
    /\ lockKey = FALSE
    /\ ppc = [p \in Procs |-> "idle"]
    /\ batch = [p \in Procs |-> {}]
    /\ event = [p \in Procs |-> NoKey]
    /\ result = [p \in Procs |-> "none"]
    /\ moved = [k \in Keys |-> 0]
    /\ faults = 0

-----------------------------------------------------------------------------
(* The provider adapters: what a call can end in, as the answer the adapter *)
(* returns and whether the provider moved the money. An adapter turns every *)
(* thrown error, a lost answer included, into success = false.             *)

\* Only retrieves the intent; the customer's bank debit is not its doing.
StripeConfirmDeposit == {<<"accepted", FALSE>>, <<"failed", FALSE>>}

StripeCreatePayout == {<<"accepted", TRUE>>, <<"failed", FALSE>>, <<"failed", TRUE>>}

\* Braintree's sale: the answer is final.
PaypalConfirmDeposit == {<<"done", TRUE>>, <<"failed", FALSE>>, <<"failed", TRUE>>}

PaypalCreatePayout == {<<"accepted", TRUE>>, <<"failed", FALSE>>, <<"failed", TRUE>>}

\* resolve(provider).process(payload, type)
Process(provider, type) ==
    IF provider = "STRIPE"
    THEN IF type = "DEPOSIT" THEN StripeConfirmDeposit ELSE StripeCreatePayout
    ELSE IF type = "DEPOSIT" THEN PaypalConfirmDeposit ELSE PaypalCreatePayout

-----------------------------------------------------------------------------
(* processOutbox and processBatch *)

Acquire(p) ==
    /\ ppc[p] = "idle"
    /\ ~ lockKey
    /\ lockKey' = TRUE
    /\ ppc' = [ppc EXCEPT ![p] = "polling"]
    /\ UNCHANGED <<storeVars, batch, event, result, moved, faults>>

Pending == {k \in Keys : PendingEvent(k)}

\* createdAt is set when a row is inserted and rows become visible at commit,
\* so the oldest visible events may be any of the pending ones.
Fetch(p) ==
    /\ ppc[p] = "polling"
    /\ \E B \in SUBSET Pending :
          /\ B = Pending \/ Cardinality(B) = BatchSize
          /\ Cardinality(B) <= BatchSize
          /\ batch' = [batch EXCEPT ![p] = B]
    /\ ppc' = [ppc EXCEPT ![p] = "running"]
    /\ UNCHANGED <<storeVars, lockKey, event, result, moved, faults>>

\* finally { redis.del(key) }: whoever owns the key by now.
Stop(p) ==
    /\ lockKey' = FALSE
    /\ ppc' = [ppc EXCEPT ![p] = "idle"]
    /\ batch' = [batch EXCEPT ![p] = {}]
    /\ event' = [event EXCEPT ![p] = NoKey]
    /\ result' = [result EXCEPT ![p] = "none"]

BatchDone(p) ==
    /\ ppc[p] = "running"
    /\ batch[p] = {}
    /\ Stop(p)
    /\ UNCHANGED <<storeVars, moved, faults>>

-----------------------------------------------------------------------------
(* processEvent *)

\* Mutant: a thrown event is left as it was.
MutRetried(p, k) == outbox' = outbox

\* catch { incrementRetry }
Retried(p, k) == outbox' = IncrementRetry(outbox, k)

NextEvent(p, k) ==
    /\ ppc' = [ppc EXCEPT ![p] = "running"]
    /\ batch' = [batch EXCEPT ![p] = @ \ {k}]
    /\ event' = [event EXCEPT ![p] = NoKey]
    /\ result' = [result EXCEPT ![p] = "none"]
    /\ UNCHANGED <<lockKey, moved, faults>>

\* registry.resolve throws for INTERNAL: no adapter is registered for it.
\* Reading the transaction may also throw (the database is away).
ResolveThrows(p, k) ==
    /\ ppc[p] = "running"
    /\ k \in batch[p]
    /\ Retried(p, k)
    /\ NextEvent(p, k)
    /\ UNCHANGED <<wallet, txn, ledger, paymentLog, locks>>

CallProvider(p, k) ==
    /\ ppc[p] = "running"
    /\ k \in batch[p]
    /\ txn[k].provider \in Providers
    /\ \E o \in Process(txn[k].provider, txn[k].type) :
          /\ result' = [result EXCEPT ![p] = o[1]]
          /\ moved' = IF o[2] THEN [moved EXCEPT ![k] = @ + 1] ELSE moved
    /\ event' = [event EXCEPT ![p] = k]
    /\ ppc' = [ppc EXCEPT ![p] = "answered"]
    /\ UNCHANGED <<storeVars, lockKey, batch, faults>>

\* success and requiresWebhook: the event is delivered, the transaction waits.
AcceptAsync(p) ==
    /\ ppc[p] = "answered"
    /\ result[p] = "accepted"
    /\ outbox' = MarkDelivered(outbox, event[p])
    /\ NextEvent(p, event[p])
    /\ UNCHANGED <<wallet, txn, ledger, paymentLog, locks>>

\* Mutant: PaymentLog.transactionId is not unique.
MutLogFree(k) == TRUE

\* createPaymentLog does not break the unique constraint.
LogFree(k) == paymentLog[k] = "NONE"

\* Mutant: a failure writes no payment log.
MutCloseNoLog(p, k, ws, status, entries) ==
    /\ RowFree(WalletOf(k))
    /\ LogFree(k)
    /\ wallet' = ws
    /\ txn' = [txn EXCEPT ![k].status = status]
    /\ ledger' = [ledger EXCEPT ![k] = @ \o entries]
    /\ paymentLog' =
          IF status = "SETTLED" THEN [paymentLog EXCEPT ![k] = status] ELSE paymentLog
    /\ outbox' = MarkDelivered(outbox, k)
    /\ NextEvent(p, k)
    /\ UNCHANGED locks

\* Mutant: the event is not marked delivered with the settlement.
MutCloseUndelivered(p, k, ws, status, entries) ==
    /\ RowFree(WalletOf(k))
    /\ LogFree(k)
    /\ wallet' = ws
    /\ txn' = [txn EXCEPT ![k].status = status]
    /\ ledger' = [ledger EXCEPT ![k] = @ \o entries]
    /\ paymentLog' = [paymentLog EXCEPT ![k] = status]
    /\ outbox' = outbox
    /\ NextEvent(p, k)
    /\ UNCHANGED locks

\* The writes settle() and fail() share, in one database transaction that
\* first waits for the wallet's row.
Close(p, k, ws, status, entries) ==
    /\ RowFree(WalletOf(k))
    /\ LogFree(k)
    /\ wallet' = ws
    /\ txn' = [txn EXCEPT ![k].status = status]
    /\ ledger' = [ledger EXCEPT ![k] = @ \o entries]
    /\ paymentLog' = [paymentLog EXCEPT ![k] = status]
    /\ outbox' = MarkDelivered(outbox, k)
    /\ NextEvent(p, k)
    /\ UNCHANGED locks

\* Balances after settleDeposit: pending to available; after
\* settleWithdrawal: out of locked.
SettledBalances(k) ==
    IF txn[k].type = "DEPOSIT"
    THEN SettlePending(wallet, txn[k].receiver, txn[k].amount)
    ELSE SettleLocked(wallet, txn[k].sender, txn[k].amount)

SettlementEntry(k, ws) ==
    IF txn[k].type = "DEPOSIT"
    THEN Entry(txn[k].receiver, "CREDIT", txn[k].amount, ws[txn[k].receiver].available)
    ELSE Entry(txn[k].sender, "DEBIT", txn[k].amount, ws[txn[k].sender].locked)

\* Mutant: a failed withdrawal's funds are taken out of locked, not given back.
MutReversedBalances(k) ==
    IF txn[k].type = "DEPOSIT"
    THEN ReversePending(wallet, txn[k].receiver, txn[k].amount)
    ELSE SettleLocked(wallet, txn[k].sender, txn[k].amount)

\* Balances after failDeposit and failWithdrawal.
ReversedBalances(k) ==
    IF txn[k].type = "DEPOSIT"
    THEN ReversePending(wallet, txn[k].receiver, txn[k].amount)
    ELSE ReverseLocked(wallet, txn[k].sender, txn[k].amount)

\* Mutant: the success flag is not looked at.
MutSettle(p) ==
    LET k == event[p]
        ws == SettledBalances(k)
    IN  /\ ppc[p] = "answered"
        /\ result[p] \in {"done", "failed"}
        /\ Close(p, k, ws, "SETTLED", <<SettlementEntry(k, ws)>>)

\* success without requiresWebhook: settle(). No adapter answers a payout
\* this way, so its WITHDRAWAL branch is never taken.
Settle(p) ==
    LET k == event[p]
        ws == SettledBalances(k)
    IN  /\ ppc[p] = "answered"
        /\ result[p] = "done"
        /\ Close(p, k, ws, "SETTLED", <<SettlementEntry(k, ws)>>)

\* success = false: fail().
Fail(p) ==
    LET k == event[p]
    IN  /\ ppc[p] = "answered"
        /\ result[p] = "failed"
        /\ Close(p, k, ReversedBalances(k), "FAILED", <<>>)

\* The write after the answer throws: the unique log row exists already
\* (P2002), Braintree's customer id belongs to another user, or the database
\* is away. What it wrote is rolled back and the event is retried.
WriteThrows(p) ==
    /\ ppc[p] = "answered"
    /\ Retried(p, event[p])
    /\ NextEvent(p, event[p])
    /\ UNCHANGED <<wallet, txn, ledger, paymentLog, locks>>

-----------------------------------------------------------------------------
(* Faults *)

\* incrementRetry, or the fetch, throws too: the error leaves processBatch,
\* is logged, and the key is deleted.
BatchAborts(p) ==
    /\ ppc[p] # "idle"
    /\ faults < MaxFaults
    /\ faults' = faults + 1
    /\ Stop(p)
    /\ UNCHANGED <<storeVars, moved>>

\* The instance dies, or redis.del fails: the key is left to its TTL.
Crash(p) ==
    /\ ppc[p] # "idle"
    /\ faults < MaxFaults
    /\ faults' = faults + 1
    /\ ppc' = [ppc EXCEPT ![p] = "idle"]
    /\ batch' = [batch EXCEPT ![p] = {}]
    /\ event' = [event EXCEPT ![p] = NoKey]
    /\ result' = [result EXCEPT ![p] = "none"]
    /\ UNCHANGED <<storeVars, lockKey, moved>>

\* The TTL ends with nobody processing.
ExpireOrphan ==
    /\ lockKey
    /\ \A p \in Procs : ppc[p] = "idle"
    /\ lockKey' = FALSE
    /\ UNCHANGED <<storeVars, ppc, batch, event, result, moved, faults>>

\* The TTL ends while an instance still works on its batch: no call in the
\* loop is bounded in time, and the key is never renewed.
ExpireOverrun ==
    /\ lockKey
    /\ \E p \in Procs : ppc[p] # "idle"
    /\ faults < MaxFaults
    /\ faults' = faults + 1
    /\ lockKey' = FALSE
    /\ UNCHANGED <<storeVars, ppc, batch, event, result, moved>>

-----------------------------------------------------------------------------

\* The steps an instance takes by itself while it holds a batch.
Work(p) ==
    \/ Fetch(p)
    \/ \E k \in Keys : ResolveThrows(p, k) \/ CallProvider(p, k)
    \/ AcceptAsync(p)
    \/ Settle(p)
    \/ Fail(p)
    \/ WriteThrows(p)
    \/ BatchDone(p)

ProcessorNext ==
    \/ \E p \in Procs : Acquire(p) \/ Work(p) \/ BatchAborts(p) \/ Crash(p)
    \/ ExpireOrphan
    \/ ExpireOverrun

=============================================================================
