--------------------------- MODULE PaymentSystem ---------------------------
(***************************************************************************)
(* The money path of the whole application: the handlers and the outbox    *)
(* processors of several instances over one database.                      *)
(***************************************************************************)
EXTENDS WalletRequests, OutboxProcessor

vars == <<storeVars, requestVars, processorVars>>

TypeOK == StoreTypeOK /\ RequestTypeOK /\ ProcessorTypeOK

Init == StoreInit /\ RequestInit /\ ProcessorInit

Next ==
    \/ RequestNext /\ UNCHANGED processorVars
    \/ ProcessorNext /\ UNCHANGED requestVars

Spec == Init /\ [][Next]_vars

\* What the runtime gives: PostgreSQL serves the waiters of a row lock, the
\* event loop runs a handler that can go on, the cron of every instance fires
\* every 30 seconds, Redis expires the key. Arrivals, aborts and faults are
\* nobody's duty.
RequestFairness ==
    \A r \in Reqs :
        /\ SF_vars(LockWallet(r) /\ UNCHANGED processorVars)
        /\ WF_vars(Resolve(r) /\ UNCHANGED processorVars)
        /\ WF_vars(Finish(r) /\ UNCHANGED processorVars)

ProcessorFairness ==
    /\ \A p \in Procs :
          /\ WF_vars(Acquire(p) /\ UNCHANGED requestVars)
          /\ WF_vars(Work(p) /\ UNCHANGED requestVars)
    /\ WF_vars(ExpireOrphan /\ UNCHANGED requestVars)

FairSpec == Spec /\ RequestFairness /\ ProcessorFairness

-----------------------------------------------------------------------------
(* Safety *)

\* The available balance of a wallet is never negative: whatever calls,
\* settlements and reversals interleave, a spend is checked against the
\* balance it takes from (assertSufficientBalance under lockWallet).
NoOverdraft == \A w \in Wallets : wallet[w].available >= 0

\* A key is answered "created" to one call only, and the row it names is the
\* one that call asked for, however many retries with this key race
\* (findByIdempotencyKey outside the transaction, @unique inside).
CreatedOnce ==
    \A r \in Reqs :
        pc[r] = "created" =>
            LET in == input[r]
                row == txn[in.key]
            IN  /\ row.amount = in.amount
                /\ in.user \in {row.sender, row.receiver}
                /\ row.provider = in.provider
                /\ \A q \in Reqs \ {r} :
                      pc[q] = "created" => input[q].key # in.key

\* A deposit or withdrawal is SETTLED or FAILED exactly when a payment log
\* with that status exists: the log row is the only guard against a second
\* settlement, so the two must never come apart.
TerminalMatchesLog ==
    \A k \in Keys :
        /\ txn[k].type \in {"DEPOSIT", "WITHDRAWAL"} =>
              paymentLog[k] = IF txn[k].status = "INITIATED" THEN "NONE"
                              ELSE txn[k].status
        /\ txn[k].type \in {"NONE", "TRANSFER"} => paymentLog[k] = "NONE"

\* An event still pending belongs to a transaction still INITIATED: a closed
\* transaction is never fetched again, so its provider is not called anew by
\* a later batch (markDelivered inside the settlement transaction).
PendingStillInitiated ==
    \A k \in Keys : PendingEvent(k) => txn[k].status = "INITIATED"

\* A deposit is spendable only after a provider took the money.
SettledDepositWasPaid ==
    \A k \in Keys :
        txn[k].type = "DEPOSIT" /\ txn[k].status = "SETTLED" => moved[k] > 0

\* A transaction row never changes once SETTLED or FAILED, and an existing
\* row never changes anything but its status.
HistoryIsFinal ==
    [][\A k \in Keys :
          /\ txn[k].status \in {"SETTLED", "FAILED"} => txn'[k] = txn[k]
          /\ KeyTaken(k) => [txn'[k] EXCEPT !.status = txn[k].status] = txn[k]]_vars

\* The row locks of an open call shield its wallets: nobody else changes a
\* balance of a wallet while a call holds its row.
LocksShield ==
    [][\A r \in Reqs : \A w \in locks[r] :
          wallet'[w] # wallet[w] => pc[r] = "open" /\ pc'[r] = "created"]_vars

-----------------------------------------------------------------------------
(* Liveness *)

\* A call that opened its database transaction is answered: waiting for row
\* locks in id order never ends in a cycle.
EveryCallAnswered == \A r \in Reqs : pc[r] = "open" ~> pc[r] # "open"

\* Every provider event is delivered or becomes a dead letter after
\* MaxRetries, whatever instances crash or lose the lock on the way.
EventsDrained == \A k \in Keys : PendingEvent(k) ~> ~ PendingEvent(k)

-----------------------------------------------------------------------------
(* Refinement *)

\* The transaction rows as the contract sees them.
OperationOf(row) ==
    [type |-> row.type, status |-> row.status, amount |-> row.amount,
     sender |-> row.sender, receiver |-> row.receiver]

Contract ==
    INSTANCE FundsContract
        WITH funds <- wallet, operation <- [k \in Keys |-> OperationOf(txn[k])]

\* Locks, snapshots, retries, crashes and racing instances show nothing to
\* the users that the contract does not allow.
ImplementsContract == Contract!FundsSpec

=============================================================================
