------------------------ MODULE PaymentSystemProofs ------------------------
(***************************************************************************)
(* Theorems about PaymentSystem for any number of wallets, keys, calls and *)
(* processor runs, and for any requests, retries and faults.               *)
(***************************************************************************)
EXTENDS PaymentSystem, TLAPS

\* A row is absent as a whole, a transfer is born settled, and the wallet a
\* deposit or a withdrawal moves money on exists.
RowsWellFormed ==
    \A k \in Keys :
        /\ txn[k].status = "ABSENT" => txn[k] = NoTransaction
        /\ txn[k].type = "NONE" => txn[k].status = "ABSENT"
        /\ txn[k].type = "DEPOSIT" => txn[k].receiver \in Wallets
        /\ txn[k].type = "WITHDRAWAL" => txn[k].sender \in Wallets
        /\ txn[k].type = "TRANSFER" => txn[k].status = "SETTLED"
        /\ txn[k].status # "ABSENT" => txn[k].amount \in Amounts

\* An event has the type of its transaction, and a closed transaction's
\* event is delivered.
EventsMatchRows ==
    \A k \in Keys :
        /\ outbox[k].eventType = "DEPOSIT_INITIATED" => txn[k].type = "DEPOSIT"
        /\ outbox[k].eventType = "WITHDRAWAL_INITIATED" => txn[k].type = "WITHDRAWAL"
        /\ txn[k].type \in {"DEPOSIT", "WITHDRAWAL"} /\ txn[k].status # "INITIATED" =>
              outbox[k].delivered

\* Only provider transactions are in a batch; an answer is of an event in it.
BatchesHoldProviderEvents ==
    \A p \in Procs :
        /\ \A k \in batch[p] : txn[k].type \in {"DEPOSIT", "WITHDRAWAL"}
        /\ ppc[p] = "answered" => event[p] \in batch[p]

\* Row locks belong to open calls, on the rows their request names.
LocksBelongToOpenCalls ==
    \A r \in Reqs :
        /\ pc[r] # "open" => locks[r] = {}
        /\ locks[r] \subseteq LockTargets(input[r])
        /\ pc[r] = "open" => /\ input[r] \in Inputs
                             /\ ~ SelfTransfer(input[r])
                             /\ ~ UnknownRecipient(input[r])

LocksExclude ==
    \A r, q \in Reqs : r # q => locks[r] \intersect locks[q] = {}

\* While a call holds the payer's row, its snapshot is the row.
SnapshotsFresh ==
    \A r \in Reqs :
        input[r].user \in locks[r] => seen[r] = wallet[input[r].user].available

IndInv ==
    /\ TypeOK
    /\ RowsWellFormed
    /\ EventsMatchRows
    /\ BatchesHoldProviderEvents
    /\ LocksBelongToOpenCalls
    /\ LocksExclude
    /\ SnapshotsFresh
    /\ TerminalMatchesLog
    /\ NoOverdraft

-----------------------------------------------------------------------------
(* The balance updates keep the type of the wallet rows. *)

\* An UPDATE of one balance column leaves a table of wallet rows.
LEMMA ColumnUpdatesTyped ==
    ASSUME NEW ws \in [Wallets -> Balances], NEW w \in Wallets, NEW a \in Nat
    PROVE  /\ CreditAvailable(ws, w, a) \in [Wallets -> Balances]
           /\ DebitAvailable(ws, w, a) \in [Wallets -> Balances]
           /\ CreditLocked(ws, w, a) \in [Wallets -> Balances]
           /\ CreditPending(ws, w, a) \in [Wallets -> Balances]
           /\ SettleLocked(ws, w, a) \in [Wallets -> Balances]
           /\ ReversePending(ws, w, a) \in [Wallets -> Balances]
  BY DEF Balances, CreditAvailable, DebitAvailable, CreditLocked, CreditPending,
         SettleLocked, ReversePending

\* So does an UPDATE of two columns.
LEMMA BalanceUpdatesTyped ==
    ASSUME NEW ws \in [Wallets -> Balances], NEW w \in Wallets, NEW a \in Nat
    PROVE  /\ DebitAvailableAndLock(ws, w, a) \in [Wallets -> Balances]
           /\ SettlePending(ws, w, a) \in [Wallets -> Balances]
           /\ ReverseLocked(ws, w, a) \in [Wallets -> Balances]
  BY ColumnUpdatesTyped DEF DebitAvailableAndLock, SettlePending, ReverseLocked

\* What an update does to the available balance, and to other wallets.
LEMMA ColumnUpdatesEffect ==
    ASSUME NEW ws \in [Wallets -> Balances], NEW w \in Wallets, NEW a \in Nat,
           NEW v \in Wallets
    PROVE  /\ v # w => /\ CreditAvailable(ws, w, a)[v] = ws[v]
                       /\ DebitAvailable(ws, w, a)[v] = ws[v]
                       /\ CreditLocked(ws, w, a)[v] = ws[v]
                       /\ CreditPending(ws, w, a)[v] = ws[v]
                       /\ SettleLocked(ws, w, a)[v] = ws[v]
                       /\ ReversePending(ws, w, a)[v] = ws[v]
           /\ CreditAvailable(ws, w, a)[w].available = ws[w].available + a
           /\ DebitAvailable(ws, w, a)[w].available = ws[w].available - a
           /\ CreditLocked(ws, w, a)[w].available = ws[w].available
           /\ CreditPending(ws, w, a)[w].available = ws[w].available
           /\ SettleLocked(ws, w, a)[w].available = ws[w].available
           /\ ReversePending(ws, w, a)[w].available = ws[w].available
  BY DEF Balances, CreditAvailable, DebitAvailable, CreditLocked, CreditPending,
         SettleLocked, ReversePending

\* The same for the updates of two columns.
LEMMA BalanceUpdatesEffect ==
    ASSUME NEW ws \in [Wallets -> Balances], NEW w \in Wallets, NEW a \in Nat,
           NEW v \in Wallets
    PROVE  /\ v # w => /\ DebitAvailableAndLock(ws, w, a)[v] = ws[v]
                       /\ SettlePending(ws, w, a)[v] = ws[v]
                       /\ ReverseLocked(ws, w, a)[v] = ws[v]
           /\ DebitAvailableAndLock(ws, w, a)[w].available = ws[w].available - a
           /\ SettlePending(ws, w, a)[w].available = ws[w].available + a
           /\ ReverseLocked(ws, w, a)[w].available = ws[w].available + a
  <1>1. /\ v # w => DebitAvailableAndLock(ws, w, a)[v] = ws[v]
        /\ DebitAvailableAndLock(ws, w, a)[w].available = ws[w].available - a
    <2> DEFINE mid == DebitAvailable(ws, w, a)
    <2>1. mid \in [Wallets -> Balances]
      BY ColumnUpdatesTyped
    <2>2. (v # w => mid[v] = ws[v]) /\ mid[w].available = ws[w].available - a
      BY ColumnUpdatesEffect
    <2> HIDE DEF mid
    <2>3. /\ v # w => CreditLocked(mid, w, a)[v] = mid[v]
          /\ CreditLocked(mid, w, a)[w].available = mid[w].available
      BY <2>1, ColumnUpdatesEffect
    <2> QED
      BY <2>2, <2>3 DEF DebitAvailableAndLock, mid
  <1>2. /\ v # w => SettlePending(ws, w, a)[v] = ws[v]
        /\ SettlePending(ws, w, a)[w].available = ws[w].available + a
    <2> DEFINE mid == ReversePending(ws, w, a)
    <2>1. mid \in [Wallets -> Balances]
      BY ColumnUpdatesTyped
    <2>2. (v # w => mid[v] = ws[v]) /\ mid[w].available = ws[w].available
      BY ColumnUpdatesEffect
    <2> HIDE DEF mid
    <2>3. /\ v # w => CreditAvailable(mid, w, a)[v] = mid[v]
          /\ CreditAvailable(mid, w, a)[w].available = mid[w].available + a
      BY <2>1, ColumnUpdatesEffect
    <2> QED
      BY <2>2, <2>3 DEF SettlePending, mid
  <1>3. /\ v # w => ReverseLocked(ws, w, a)[v] = ws[v]
        /\ ReverseLocked(ws, w, a)[w].available = ws[w].available + a
    <2> DEFINE mid == SettleLocked(ws, w, a)
    <2>1. mid \in [Wallets -> Balances]
      BY ColumnUpdatesTyped
    <2>2. (v # w => mid[v] = ws[v]) /\ mid[w].available = ws[w].available
      BY ColumnUpdatesEffect
    <2> HIDE DEF mid
    <2>3. /\ v # w => CreditAvailable(mid, w, a)[v] = mid[v]
          /\ CreditAvailable(mid, w, a)[w].available = mid[w].available + a
      BY <2>1, ColumnUpdatesEffect
    <2> QED
      BY <2>2, <2>3 DEF ReverseLocked, mid
  <1> QED
    BY <1>1, <1>2, <1>3

\* The rows the handlers insert are transaction rows.
LEMMA NewRowsTyped ==
    ASSUME NEW w \in Wallets, NEW v \in Wallets, NEW a \in Nat,
           NEW provider \in Providers \union {"INTERNAL"}
    PROVE  /\ DepositRow(w, a, provider) \in Transaction
           /\ WithdrawalRow(w, a, provider) \in Transaction
           /\ TransferRow(w, v, a) \in Transaction
  BY DEF DepositRow, WithdrawalRow, TransferRow, Transaction, Providers

\* What a call that is ready to commit knows of its request.
LEMMA LockedCall ==
    ASSUME IndInv, NEW r \in Reqs, Locked(r)
    PROVE  /\ pc[r] = "open"
           /\ input[r] \in Inputs
           /\ input[r].user \in Wallets
           /\ input[r].amount \in Nat
           /\ input[r].amount \in Amounts
           /\ input[r].key \in Keys
           /\ input[r].provider \in Providers \union {"INTERNAL"}
           /\ locks[r] = LockTargets(input[r])
           /\ input[r].user \in locks[r]
           /\ input[r].op = "transfer" => /\ input[r].peer \in Wallets
                                          /\ input[r].peer \in locks[r]
                                          /\ input[r].peer # input[r].user
  BY StoreAssumption, RequestAssumption
     DEF IndInv, LocksBelongToOpenCalls, Locked, Unlocked, LockTargets, Request,
         SelfTransfer, UnknownRecipient

\* What a processor run knows of an event in its batch.
LEMMA BatchEvent ==
    ASSUME IndInv, NEW p \in Procs, NEW k \in batch[p]
    PROVE  /\ k \in Keys
           /\ txn[k] \in Transaction
           /\ txn[k].type \in {"DEPOSIT", "WITHDRAWAL"}
           /\ txn[k].status # "ABSENT"
           /\ txn[k].amount \in Nat
           /\ txn[k].amount \in Amounts
           /\ WalletOf(k) \in Wallets
           /\ txn[k].type = "DEPOSIT" => WalletOf(k) = txn[k].receiver
           /\ txn[k].type = "WITHDRAWAL" => WalletOf(k) = txn[k].sender
  <1>1. k \in Keys /\ txn[k] \in Transaction
    BY DEF IndInv, TypeOK, ProcessorTypeOK, StoreTypeOK
  <1>2. txn[k].type \in {"DEPOSIT", "WITHDRAWAL"}
    BY DEF IndInv, BatchesHoldProviderEvents
  <1>3. txn[k].status # "ABSENT"
    BY <1>1, <1>2 DEF IndInv, RowsWellFormed, NoTransaction
  <1> QED
    BY <1>1, <1>2, <1>3 DEF IndInv, RowsWellFormed, WalletOf, Transaction

-----------------------------------------------------------------------------
(* What a step leaves alone keeps its part of the invariant. *)

\* Steps that write no row keep what IndInv says of rows.
LEMMA RowsFrame ==
    ASSUME IndInv, UNCHANGED <<txn, outbox, paymentLog>>
    PROVE  RowsWellFormed' /\ EventsMatchRows' /\ TerminalMatchesLog'
  BY DEF IndInv, RowsWellFormed, EventsMatchRows, TerminalMatchesLog

\* Steps of the handlers keep what IndInv says of batches, if they write no
\* transaction row.
LEMMA BatchFrame ==
    ASSUME IndInv, UNCHANGED <<txn, processorVars>>
    PROVE  BatchesHoldProviderEvents'
  BY DEF IndInv, BatchesHoldProviderEvents, processorVars

\* Steps of the processor keep what IndInv says of locks and snapshots, if
\* they change no balance.
LEMMA LocksFrame ==
    ASSUME IndInv, UNCHANGED <<wallet, locks, requestVars>>
    PROVE  /\ LocksBelongToOpenCalls'
           /\ LocksExclude'
           /\ SnapshotsFresh'
           /\ NoOverdraft'
  BY DEF IndInv, LocksBelongToOpenCalls, LocksExclude, SnapshotsFresh, NoOverdraft,
         requestVars, LockTargets, SelfTransfer, UnknownRecipient

-----------------------------------------------------------------------------
(* The handlers *)

\* A call that comes in and takes no lock: RefuseEarly, Replay, Open.
LEMMA ArrivalKeeps ==
    ASSUME IndInv, NEW r \in Reqs, NEW in \in Inputs,
           RefuseEarly(r, in) \/ Replay(r, in) \/ Open(r, in),
           UNCHANGED processorVars
    PROVE  IndInv'
  <1> USE DEF RefuseEarly, Replay, Open, storeVars
  <1>1. TypeOK'
    BY DEF IndInv, TypeOK, StoreTypeOK, RequestTypeOK, ProcessorTypeOK, Answers,
           processorVars
  <1>2. locks[r] = {} /\ locks'[r] = {}
    BY DEF IndInv, LocksBelongToOpenCalls
  <1>3. LocksBelongToOpenCalls'
    BY <1>2 DEF IndInv, TypeOK, RequestTypeOK, LocksBelongToOpenCalls, LockTargets,
                SelfTransfer, UnknownRecipient
  <1>4. LocksExclude' /\ NoOverdraft'
    BY DEF IndInv, LocksExclude, NoOverdraft
  <1>5. SnapshotsFresh'
    BY <1>2 DEF IndInv, TypeOK, RequestTypeOK, SnapshotsFresh
  <1> QED
    BY <1>1, <1>3, <1>4, <1>5, RowsFrame, BatchFrame DEF IndInv

\* SELECT ... FOR UPDATE takes a free row and a fresh snapshot of it.
LEMMA LockWalletKeeps ==
    ASSUME IndInv, NEW r \in Reqs, LockWallet(r), UNCHANGED processorVars
    PROVE  IndInv'
  <1>1. PICK w \in Unlocked(r) :
            /\ RowFree(w)
            /\ locks' = [locks EXCEPT ![r] = @ \union {w}]
            /\ seen' = IF w = input[r].user
                       THEN [seen EXCEPT ![r] = wallet[w].available] ELSE seen
    BY DEF LockWallet
  <1>2. /\ pc[r] = "open"
        /\ UNCHANGED <<wallet, txn, ledger, outbox, paymentLog, pc, input>>
    BY DEF LockWallet
  <1>3. /\ input[r] \in Inputs
        /\ w \in Wallets
        /\ w \in LockTargets(input[r])
    BY <1>2, RequestAssumption
       DEF IndInv, LocksBelongToOpenCalls, Unlocked, LockTargets, Request,
           UnknownRecipient
  <1>4. TypeOK'
    BY <1>1, <1>2, <1>3
       DEF IndInv, TypeOK, StoreTypeOK, RequestTypeOK, ProcessorTypeOK, Balances,
           processorVars
  <1>5. LocksBelongToOpenCalls'
    BY <1>1, <1>2, <1>3
       DEF IndInv, TypeOK, StoreTypeOK, LocksBelongToOpenCalls, LockTargets,
           SelfTransfer, UnknownRecipient
  <1>6. LocksExclude'
    BY <1>1 DEF IndInv, TypeOK, StoreTypeOK, LocksExclude, RowFree
  <1>7. SnapshotsFresh'
    BY <1>1, <1>2 DEF IndInv, TypeOK, StoreTypeOK, RequestTypeOK, SnapshotsFresh
  <1>8. NoOverdraft'
    BY <1>2 DEF IndInv, NoOverdraft
  <1> QED
    BY <1>2, <1>4, <1>5, <1>6, <1>7, <1>8, RowsFrame, BatchFrame DEF IndInv

\* A call that ends keeps what IndInv says of types and locks.
LEMMA AnswerReleases ==
    ASSUME IndInv, NEW r \in Reqs, NEW answer \in Answers, Answer(r, answer)
    PROVE  /\ RequestTypeOK'
           /\ locks' \in [Reqs -> SUBSET Wallets]
           /\ LocksBelongToOpenCalls'
           /\ LocksExclude'
  <1> USE DEF Answer
  <1>1. RequestTypeOK' /\ locks' \in [Reqs -> SUBSET Wallets]
    BY DEF IndInv, TypeOK, StoreTypeOK, RequestTypeOK, Answers
  <1>2. LocksBelongToOpenCalls'
    BY DEF IndInv, TypeOK, StoreTypeOK, RequestTypeOK, LocksBelongToOpenCalls,
           LockTargets, SelfTransfer, UnknownRecipient, Answers
  <1>3. LocksExclude'
    BY DEF IndInv, TypeOK, StoreTypeOK, LocksExclude
  <1> QED
    BY <1>1, <1>2, <1>3

\* A refused, conflicting or aborted call releases its rows and writes nothing.
LEMMA RollBackKeeps ==
    ASSUME IndInv, NEW r \in Reqs, NEW answer \in Answers, RollBack(r, answer),
           UNCHANGED processorVars
    PROVE  IndInv'
  <1>1. Answer(r, answer) /\ UNCHANGED <<wallet, txn, ledger, outbox, paymentLog>>
    BY DEF RollBack
  <1>2. TypeOK'
    BY <1>1, AnswerReleases
       DEF IndInv, TypeOK, StoreTypeOK, ProcessorTypeOK, processorVars
  <1>3. SnapshotsFresh'
    BY <1>1 DEF IndInv, TypeOK, StoreTypeOK, SnapshotsFresh, Answer
  <1>4. NoOverdraft'
    BY <1>1 DEF IndInv, NoOverdraft
  <1> QED
    BY <1>1, <1>2, <1>3, <1>4, AnswerReleases, RowsFrame, BatchFrame DEF IndInv

\* An answered call that ends holds no row.
LEMMA FinishKeeps ==
    ASSUME IndInv, NEW r \in Reqs, Finish(r), UNCHANGED processorVars
    PROVE  IndInv'
  <1> USE DEF Finish, storeVars
  <1>1. TypeOK'
    BY DEF IndInv, TypeOK, StoreTypeOK, RequestTypeOK, ProcessorTypeOK, processorVars
  <1>2. locks[r] = {} /\ locks'[r] = {}
    BY DEF IndInv, LocksBelongToOpenCalls, Answers
  <1>3. LocksBelongToOpenCalls'
    BY <1>2 DEF IndInv, TypeOK, RequestTypeOK, LocksBelongToOpenCalls, LockTargets,
                SelfTransfer, UnknownRecipient
  <1>4. LocksExclude' /\ NoOverdraft'
    BY DEF IndInv, LocksExclude, NoOverdraft
  <1>5. SnapshotsFresh'
    BY <1>2 DEF IndInv, TypeOK, RequestTypeOK, SnapshotsFresh
  <1> QED
    BY <1>1, <1>3, <1>4, <1>5, RowsFrame, BatchFrame DEF IndInv

\* A row a handler may insert, with the event that goes with it.
FreshRow(row, eventType) ==
    /\ row \in Transaction
    /\ row.amount \in Amounts
    /\ \/ /\ row.type = "DEPOSIT" /\ eventType = "DEPOSIT_INITIATED"
          /\ row.status = "INITIATED" /\ row.receiver \in Wallets
       \/ /\ row.type = "WITHDRAWAL" /\ eventType = "WITHDRAWAL_INITIATED"
          /\ row.status = "INITIATED" /\ row.sender \in Wallets
       \/ /\ row.type = "TRANSFER" /\ eventType = "TRANSFER_SETTLED"
          /\ row.status = "SETTLED"

\* A commit that inserts a fresh row and leaves no available balance negative
\* keeps the invariant, if it changes only wallets whose row it holds.
LEMMA CommitKeeps ==
    ASSUME IndInv, NEW r \in Reqs, NEW op, NEW ws \in [Wallets -> Balances],
           NEW row, NEW entries \in Seq(LedgerEntry), NEW eventType,
           Commit(r, op, ws, row, entries, eventType),
           FreshRow(row, eventType),
           \A w \in Wallets \ locks[r] : ws[w] = wallet[w],
           \A w \in Wallets : ws[w].available >= 0,
           UNCHANGED processorVars
    PROVE  IndInv'
  <1> DEFINE k == input[r].key
  <1>1. /\ Locked(r)
        /\ wallet' = ws
        /\ CreateTransaction(k, row, entries, eventType)
        /\ Answer(r, "created")
        /\ UNCHANGED paymentLog
    BY DEF Commit
  <1>2. /\ txn[k].status = "ABSENT"
        /\ txn' = [txn EXCEPT ![k] = row]
        /\ ledger' = [ledger EXCEPT ![k] = entries]
        /\ outbox' = [outbox EXCEPT ![k] = NewEvent(eventType)]
    BY <1>1 DEF CreateTransaction, KeyTaken
  <1>3. k \in Keys /\ txn[k].type = "NONE"
    BY <1>1, <1>2, LockedCall DEF IndInv, RowsWellFormed, NoTransaction
  <1> HIDE DEF k
  <1>4. TypeOK'
    <2>1. NewEvent(eventType) \in OutboxEvent
      BY DEF FreshRow, NewEvent, OutboxEvent
    <2>2. RequestTypeOK' /\ locks' \in [Reqs -> SUBSET Wallets]
      BY <1>1, AnswerReleases DEF Answers
    <2>3. StoreTypeOK'
      BY <1>1, <1>2, <2>1, <2>2 DEF IndInv, TypeOK, StoreTypeOK, FreshRow
    <2> QED
      BY <2>2, <2>3 DEF IndInv, TypeOK, ProcessorTypeOK, processorVars
  <1>5. RowsWellFormed'
    BY <1>2, <1>3 DEF IndInv, TypeOK, StoreTypeOK, RowsWellFormed, FreshRow
  <1>6. EventsMatchRows'
    BY <1>2, <1>3 DEF IndInv, TypeOK, StoreTypeOK, EventsMatchRows, FreshRow, NewEvent
  <1>7. BatchesHoldProviderEvents'
    <2>1. \A p \in Procs : k \notin batch[p]
      BY <1>3 DEF IndInv, BatchesHoldProviderEvents
    <2> QED
      BY <1>2, <2>1 DEF IndInv, TypeOK, StoreTypeOK, ProcessorTypeOK,
                        BatchesHoldProviderEvents, processorVars
  <1>8. LocksBelongToOpenCalls' /\ LocksExclude'
    BY <1>1, AnswerReleases DEF Answers
  <1>9. SnapshotsFresh'
    <2> SUFFICES ASSUME NEW q \in Reqs, (input[q].user \in locks[q])'
                 PROVE  (seen[q] = wallet[input[q].user].available)'
      BY DEF SnapshotsFresh
    <2>1. q # r /\ locks'[q] = locks[q] /\ input' = input /\ seen' = seen
      BY <1>1 DEF IndInv, TypeOK, StoreTypeOK, Answer
    <2>2. input[q].user \in Wallets \ locks[r]
      BY <2>1 DEF IndInv, TypeOK, StoreTypeOK, LocksExclude
    <2> QED
      BY <1>1, <2>1, <2>2 DEF IndInv, SnapshotsFresh
  <1>10. TerminalMatchesLog'
    <2>1. paymentLog[k] = "NONE"
      BY <1>3 DEF IndInv, TerminalMatchesLog
    <2> QED
      BY <1>1, <1>2, <1>3, <2>1
         DEF IndInv, TypeOK, StoreTypeOK, TerminalMatchesLog, FreshRow
  <1>11. NoOverdraft'
    BY <1>1 DEF NoOverdraft
  <1> QED
    BY <1>4, <1>5, <1>6, <1>7, <1>8, <1>9, <1>10, <1>11 DEF IndInv

\* A spend that passed its check is covered by the row as it is now.
LEMMA SpendIsCovered ==
    ASSUME IndInv, NEW r \in Reqs, Locked(r), Asserts(r), Spends(input[r])
    PROVE  wallet[input[r].user].available >= input[r].amount
  BY LockedCall DEF IndInv, SnapshotsFresh, Asserts, AssertSufficientBalance

\* An entry with the balance an update leaves is a ledger entry.
LEMMA EntryTyped ==
    ASSUME NEW w \in Wallets, NEW a \in Nat, NEW b \in Int,
           NEW direction \in {"DEBIT", "CREDIT"}
    PROVE  Entry(w, direction, a, b) \in LedgerEntry
  BY DEF Entry, LedgerEntry

\* TransactionService.deposit adds to pending only.
LEMMA DepositKeeps ==
    ASSUME IndInv, NEW r \in Reqs, Deposit(r), UNCHANGED processorVars
    PROVE  IndInv'
  <1> DEFINE w == input[r].user
             a == input[r].amount
             ws == CreditPending(wallet, w, a)
             row == DepositRow(w, a, "INTERNAL")
             entries == <<Entry(w, "CREDIT", a, ws[w].pending)>>
  <1>1. Commit(r, "deposit", ws, row, entries, "DEPOSIT_INITIATED")
    BY DEF Deposit
  <1>2. w \in Wallets /\ a \in Nat /\ a \in Amounts /\ w \in locks[r]
    BY <1>1, LockedCall DEF Commit
  <1>3. wallet \in [Wallets -> Balances]
    BY DEF IndInv, TypeOK, StoreTypeOK
  <1>4. ws \in [Wallets -> Balances]
    BY <1>2, <1>3, ColumnUpdatesTyped
  <1>5. entries \in Seq(LedgerEntry)
    BY <1>2, <1>4, EntryTyped DEF Balances
  <1>6. FreshRow(row, "DEPOSIT_INITIATED")
    BY <1>2, NewRowsTyped DEF FreshRow, DepositRow
  <1>7. \A v \in Wallets \ locks[r] : ws[v] = wallet[v]
    BY <1>2, <1>3, ColumnUpdatesEffect
  <1>8. \A v \in Wallets : ws[v].available >= 0
    BY <1>2, <1>3, ColumnUpdatesEffect DEF IndInv, NoOverdraft
  <1> HIDE DEF ws, row, entries
  <1> QED
    BY <1>1, <1>4, <1>5, <1>6, <1>7, <1>8, CommitKeeps

\* TransactionService.withdraw spends what it checked.
LEMMA WithdrawKeeps ==
    ASSUME IndInv, NEW r \in Reqs, Withdraw(r), UNCHANGED processorVars
    PROVE  IndInv'
  <1> DEFINE w == input[r].user
             a == input[r].amount
             ws == DebitAvailableAndLock(wallet, w, a)
             row == WithdrawalRow(w, a, "INTERNAL")
             entries == <<Entry(w, "DEBIT", a, ws[w].locked)>>
  <1>1. Commit(r, "withdraw", ws, row, entries, "WITHDRAWAL_INITIATED")
    BY DEF Withdraw
  <1>2. /\ w \in Wallets /\ a \in Nat /\ a \in Amounts /\ w \in locks[r]
        /\ input[r].provider \in Providers \union {"INTERNAL"}
    BY <1>1, LockedCall DEF Commit
  <1>3. wallet \in [Wallets -> Balances]
    BY DEF IndInv, TypeOK, StoreTypeOK
  <1>4. ws \in [Wallets -> Balances]
    BY <1>2, <1>3, BalanceUpdatesTyped
  <1>5. entries \in Seq(LedgerEntry)
    BY <1>2, <1>4, EntryTyped DEF Balances
  <1>6. FreshRow(row, "WITHDRAWAL_INITIATED")
    BY <1>2, NewRowsTyped DEF FreshRow, WithdrawalRow
  <1>7. \A v \in Wallets \ locks[r] : ws[v] = wallet[v]
    BY <1>2, <1>3, BalanceUpdatesEffect
  <1>8. \A v \in Wallets : ws[v].available >= 0
    <2>1. wallet[w].available >= a
      BY <1>1, SpendIsCovered DEF Commit, Spends
    <2>2. ws[w].available = wallet[w].available - a
      BY <1>2, <1>3, BalanceUpdatesEffect
    <2>3. wallet[w].available \in Int /\ ws[w].available >= 0
      BY <1>2, <1>3, <2>1, <2>2 DEF Balances
    <2>4. \A v \in Wallets : v # w => ws[v] = wallet[v]
      BY <1>2, <1>3, BalanceUpdatesEffect
    <2> QED
      BY <2>3, <2>4 DEF IndInv, NoOverdraft
  <1> HIDE DEF ws, row, entries
  <1> QED
    BY <1>1, <1>4, <1>5, <1>6, <1>7, <1>8, CommitKeeps

\* PaymentService.confirmDeposit adds to pending only.
LEMMA ConfirmDepositKeeps ==
    ASSUME IndInv, NEW r \in Reqs, ConfirmDeposit(r), UNCHANGED processorVars
    PROVE  IndInv'
  <1> DEFINE w == input[r].user
             a == input[r].amount
             ws == CreditPending(wallet, w, a)
             row == DepositRow(w, a, input[r].provider)
             entries == <<>>
  <1>1. Commit(r, "confirmDeposit", ws, row, entries, "DEPOSIT_INITIATED")
    BY DEF ConfirmDeposit
  <1>2. /\ w \in Wallets /\ a \in Nat /\ a \in Amounts /\ w \in locks[r]
        /\ input[r].provider \in Providers \union {"INTERNAL"}
    BY <1>1, LockedCall DEF Commit
  <1>3. wallet \in [Wallets -> Balances]
    BY DEF IndInv, TypeOK, StoreTypeOK
  <1>4. ws \in [Wallets -> Balances]
    BY <1>2, <1>3, ColumnUpdatesTyped
  <1>5. entries \in Seq(LedgerEntry)
    BY DEF entries
  <1>6. FreshRow(row, "DEPOSIT_INITIATED")
    BY <1>2, NewRowsTyped DEF FreshRow, DepositRow
  <1>7. \A v \in Wallets \ locks[r] : ws[v] = wallet[v]
    BY <1>2, <1>3, ColumnUpdatesEffect
  <1>8. \A v \in Wallets : ws[v].available >= 0
    BY <1>2, <1>3, ColumnUpdatesEffect DEF IndInv, NoOverdraft
  <1> HIDE DEF ws, row, entries
  <1> QED
    BY <1>1, <1>4, <1>5, <1>6, <1>7, <1>8, CommitKeeps

\* PaymentService.createPayout spends what it checked.
LEMMA CreatePayoutKeeps ==
    ASSUME IndInv, NEW r \in Reqs, CreatePayout(r), UNCHANGED processorVars
    PROVE  IndInv'
  <1> DEFINE w == input[r].user
             a == input[r].amount
             ws == DebitAvailableAndLock(wallet, w, a)
             row == WithdrawalRow(w, a, input[r].provider)
             entries == <<>>
  <1>1. Commit(r, "createPayout", ws, row, entries, "WITHDRAWAL_INITIATED")
    BY DEF CreatePayout
  <1>2. /\ w \in Wallets /\ a \in Nat /\ a \in Amounts /\ w \in locks[r]
        /\ input[r].provider \in Providers \union {"INTERNAL"}
    BY <1>1, LockedCall DEF Commit
  <1>3. wallet \in [Wallets -> Balances]
    BY DEF IndInv, TypeOK, StoreTypeOK
  <1>4. ws \in [Wallets -> Balances]
    BY <1>2, <1>3, BalanceUpdatesTyped
  <1>5. entries \in Seq(LedgerEntry)
    BY DEF entries
  <1>6. FreshRow(row, "WITHDRAWAL_INITIATED")
    BY <1>2, NewRowsTyped DEF FreshRow, WithdrawalRow
  <1>7. \A v \in Wallets \ locks[r] : ws[v] = wallet[v]
    BY <1>2, <1>3, BalanceUpdatesEffect
  <1>8. \A v \in Wallets : ws[v].available >= 0
    <2>1. wallet[w].available >= a
      BY <1>1, SpendIsCovered DEF Commit, Spends
    <2>2. ws[w].available = wallet[w].available - a
      BY <1>2, <1>3, BalanceUpdatesEffect
    <2>3. wallet[w].available \in Int /\ ws[w].available >= 0
      BY <1>2, <1>3, <2>1, <2>2 DEF Balances
    <2>4. \A v \in Wallets : v # w => ws[v] = wallet[v]
      BY <1>2, <1>3, BalanceUpdatesEffect
    <2> QED
      BY <2>3, <2>4 DEF IndInv, NoOverdraft
  <1> HIDE DEF ws, row, entries
  <1> QED
    BY <1>1, <1>4, <1>5, <1>6, <1>7, <1>8, CommitKeeps

\* TransactionService.transfer spends what it checked, from another wallet
\* than the one it credits.
LEMMA TransferKeeps ==
    ASSUME IndInv, NEW r \in Reqs, Transfer(r), UNCHANGED processorVars
    PROVE  IndInv'
  <1> DEFINE from == input[r].user
             to == input[r].peer
             a == input[r].amount
             mid == DebitAvailable(wallet, from, a)
             ws == CreditAvailable(mid, to, a)
             row == TransferRow(from, to, a)
             entries == <<Entry(from, "DEBIT", a, ws[from].available),
                          Entry(to, "CREDIT", a, ws[to].available)>>
  <1>1. Commit(r, "transfer", ws, row, entries, "TRANSFER_SETTLED")
    BY DEF Transfer
  <1>2. /\ from \in Wallets /\ from \in locks[r]
        /\ to \in Wallets /\ to \in locks[r]
        /\ a \in Nat /\ a \in Amounts /\ to # from
    BY <1>1, LockedCall DEF Commit
  <1>3. wallet \in [Wallets -> Balances]
    BY DEF IndInv, TypeOK, StoreTypeOK
  <1>4. /\ mid \in [Wallets -> Balances]
        /\ mid[from].available = wallet[from].available - a
        /\ \A v \in Wallets : v # from => mid[v] = wallet[v]
    BY <1>2, <1>3, ColumnUpdatesTyped, ColumnUpdatesEffect
  <1> HIDE DEF mid
  <1>5. /\ ws \in [Wallets -> Balances]
        /\ ws[to].available = mid[to].available + a
        /\ \A v \in Wallets : v # to => ws[v] = mid[v]
    BY <1>2, <1>4, ColumnUpdatesTyped, ColumnUpdatesEffect
  <1>6. entries \in Seq(LedgerEntry)
    <2>1. ws[from].available \in Int /\ ws[to].available \in Int
      BY <1>2, <1>5 DEF Balances
    <2>2. /\ Entry(from, "DEBIT", a, ws[from].available) \in LedgerEntry
          /\ Entry(to, "CREDIT", a, ws[to].available) \in LedgerEntry
      BY <1>2, <2>1, EntryTyped
    <2> QED
      BY <2>2
  <1>7. FreshRow(row, "TRANSFER_SETTLED")
    BY <1>2, NewRowsTyped DEF FreshRow, TransferRow, Providers
  <1>8. \A v \in Wallets \ locks[r] : ws[v] = wallet[v]
    BY <1>2, <1>4, <1>5
  <1>9. \A v \in Wallets : ws[v].available >= 0
    <2>1. wallet[from].available >= a
      BY <1>1, SpendIsCovered DEF Commit, Spends
    <2>2. wallet[from].available \in Int /\ wallet[to].available \in Int
      BY <1>2, <1>3 DEF Balances
    <2>3. ws[from].available >= 0
      BY <1>2, <1>4, <1>5, <2>1, <2>2
    <2>4. ws[to].available >= 0
      BY <1>2, <1>4, <1>5, <2>2 DEF IndInv, NoOverdraft
    <2>5. \A v \in Wallets : v # from /\ v # to => ws[v] = wallet[v]
      BY <1>4, <1>5
    <2> QED
      BY <2>3, <2>4, <2>5 DEF IndInv, NoOverdraft
  <1> HIDE DEF ws, row, entries
  <1> QED
    BY <1>1, <1>5, <1>6, <1>7, <1>8, <1>9, CommitKeeps DEF mid

-----------------------------------------------------------------------------
(* The processor *)

\* A run that drops an event from its batch, or ends.
LEMMA NextEventKeeps ==
    ASSUME IndInv, NEW p \in Procs, NEW k \in Keys, NextEvent(p, k),
           \A j \in Keys : txn[j].type \in {"DEPOSIT", "WITHDRAWAL"} =>
                              txn'[j].type = txn[j].type
    PROVE  ProcessorTypeOK' /\ BatchesHoldProviderEvents'
  <1>1. ProcessorTypeOK'
    BY DEF IndInv, TypeOK, ProcessorTypeOK, NextEvent, Results
  <1>2. BatchesHoldProviderEvents'
    BY DEF IndInv, TypeOK, ProcessorTypeOK, BatchesHoldProviderEvents, NextEvent
  <1> QED
    BY <1>1, <1>2

\* The two outbox updates keep the type, the kind and the delivery of events.
LEMMA OutboxUpdates ==
    ASSUME NEW ob \in [Keys -> OutboxEvent], NEW k \in Keys,
           NEW new, new = MarkDelivered(ob, k) \/ new = IncrementRetry(ob, k)
    PROVE  /\ new \in [Keys -> OutboxEvent]
           /\ \A j \in Keys : /\ new[j].eventType = ob[j].eventType
                              /\ ob[j].delivered => new[j].delivered
  <1>1. CASE new = MarkDelivered(ob, k)
    BY <1>1 DEF OutboxEvent, MarkDelivered
  <1>2. CASE new = IncrementRetry(ob, k)
    BY <1>2 DEF OutboxEvent, IncrementRetry
  <1> QED
    BY <1>1, <1>2

\* Marking an event delivered or counting a retry: ResolveThrows, WriteThrows
\* and AcceptAsync.
LEMMA OutboxStepKeeps ==
    ASSUME IndInv, NEW p \in Procs, NEW k \in Keys, NextEvent(p, k),
           outbox' = MarkDelivered(outbox, k) \/ outbox' = IncrementRetry(outbox, k),
           UNCHANGED <<wallet, txn, ledger, paymentLog, locks, requestVars>>
    PROVE  IndInv'
  <1> outbox \in [Keys -> OutboxEvent]
    BY DEF IndInv, TypeOK, StoreTypeOK
  <1>1. outbox' \in [Keys -> OutboxEvent]
    BY OutboxUpdates
  <1>2. ProcessorTypeOK' /\ BatchesHoldProviderEvents'
    BY NextEventKeeps
  <1>3. TypeOK'
    BY <1>1, <1>2 DEF IndInv, TypeOK, StoreTypeOK, RequestTypeOK, requestVars
  <1>4. \A j \in Keys : /\ outbox'[j].eventType = outbox[j].eventType
                        /\ outbox[j].delivered => outbox'[j].delivered
    BY OutboxUpdates
  <1>5. EventsMatchRows'
    BY <1>4 DEF IndInv, EventsMatchRows
  <1>6. RowsWellFormed' /\ TerminalMatchesLog'
    BY DEF IndInv, RowsWellFormed, TerminalMatchesLog
  <1> QED
    BY <1>2, <1>3, <1>5, <1>6, LocksFrame DEF IndInv

\* A step of the processor that touches neither rows nor batches' contents.
LEMMA ControlKeeps ==
    ASSUME IndInv, UNCHANGED <<storeVars, requestVars>>,
           ProcessorTypeOK', BatchesHoldProviderEvents'
    PROVE  IndInv'
  <1>1. TypeOK'
    BY DEF IndInv, TypeOK, StoreTypeOK, RequestTypeOK, storeVars, requestVars
  <1> QED
    BY <1>1, RowsFrame, LocksFrame DEF IndInv, storeVars

\* Taking the Redis key touches nothing else.
LEMMA AcquireKeeps ==
    ASSUME IndInv, NEW p \in Procs, Acquire(p), UNCHANGED requestVars
    PROVE  IndInv'
  <1>1. ProcessorTypeOK'
    BY DEF IndInv, TypeOK, ProcessorTypeOK, Acquire
  <1>2. BatchesHoldProviderEvents'
    BY DEF IndInv, TypeOK, ProcessorTypeOK, BatchesHoldProviderEvents, Acquire, storeVars
  <1> QED
    BY <1>1, <1>2, ControlKeeps DEF Acquire

\* findPendingProviderEvents returns provider events only.
LEMMA FetchKeeps ==
    ASSUME IndInv, NEW p \in Procs, Fetch(p), UNCHANGED requestVars
    PROVE  IndInv'
  <1>1. PICK B \in SUBSET Pending : batch' = [batch EXCEPT ![p] = B]
    BY DEF Fetch
  <1>2. \A k \in B : k \in Keys /\ txn[k].type \in {"DEPOSIT", "WITHDRAWAL"}
    BY DEF IndInv, EventsMatchRows, Pending, PendingEvent
  <1>3. ProcessorTypeOK'
    BY <1>1, <1>2 DEF IndInv, TypeOK, ProcessorTypeOK, Fetch
  <1>4. BatchesHoldProviderEvents'
    BY <1>1, <1>2 DEF IndInv, TypeOK, ProcessorTypeOK, BatchesHoldProviderEvents, Fetch,
                      storeVars
  <1> QED
    BY <1>3, <1>4, ControlKeeps DEF Fetch

\* A provider call writes no row; its answer is of an event of the batch.
LEMMA CallProviderKeeps ==
    ASSUME IndInv, NEW p \in Procs, NEW k \in Keys, CallProvider(p, k),
           UNCHANGED requestVars
    PROVE  IndInv'
  <1>1. k \in batch[p]
    BY DEF CallProvider
  <1>2. PICK o \in Process(txn[k].provider, txn[k].type) :
            /\ result' = [result EXCEPT ![p] = o[1]]
            /\ moved' = IF o[2] THEN [moved EXCEPT ![k] = @ + 1] ELSE moved
    BY DEF CallProvider
  <1>3. o[1] \in Results
    <2>1. o \in StripeConfirmDeposit \union StripeCreatePayout
                \union PaypalConfirmDeposit \union PaypalCreatePayout
      BY DEF Process
    <2>2. \/ o = <<"accepted", FALSE>> \/ o = <<"accepted", TRUE>>
          \/ o = <<"done", TRUE>> \/ o = <<"failed", FALSE>> \/ o = <<"failed", TRUE>>
      BY <2>1 DEF StripeConfirmDeposit, StripeCreatePayout, PaypalConfirmDeposit,
                  PaypalCreatePayout
    <2>3. \A x, y : <<x, y>>[1] = x
      OBVIOUS
    <2>4. o[1] = "accepted" \/ o[1] = "done" \/ o[1] = "failed"
      BY <2>2, <2>3, Zenon
    <2> QED
      BY <2>4 DEF Results
  <1>4. moved' \in [Keys -> Nat]
    BY <1>2 DEF IndInv, TypeOK, ProcessorTypeOK
  <1>5. ProcessorTypeOK'
    BY <1>2, <1>3, <1>4 DEF IndInv, TypeOK, ProcessorTypeOK, CallProvider
  <1>6. BatchesHoldProviderEvents'
    BY <1>1 DEF IndInv, TypeOK, ProcessorTypeOK, BatchesHoldProviderEvents, CallProvider,
                storeVars
  <1> QED
    BY <1>5, <1>6, ControlKeeps DEF CallProvider

\* The steps that end a run drop its batch.
LEMMA StopKeeps ==
    ASSUME IndInv, NEW p \in Procs, BatchDone(p) \/ BatchAborts(p) \/ Crash(p),
           UNCHANGED requestVars
    PROVE  IndInv'
  <1>1. ProcessorTypeOK'
    <2>1. faults' \in 0..MaxFaults
      BY ProcessorAssumption
         DEF IndInv, TypeOK, ProcessorTypeOK, BatchDone, BatchAborts, Crash
    <2>2. lockKey' \in BOOLEAN /\ moved' \in [Keys -> Nat]
      BY DEF IndInv, TypeOK, ProcessorTypeOK, BatchDone, BatchAborts, Crash, Stop
    <2>3. /\ ppc' = [ppc EXCEPT ![p] = "idle"]
          /\ batch' = [batch EXCEPT ![p] = {}]
          /\ event' = [event EXCEPT ![p] = NoKey]
          /\ result' = [result EXCEPT ![p] = "none"]
      BY DEF BatchDone, BatchAborts, Crash, Stop
    <2> QED
      BY <2>1, <2>2, <2>3 DEF IndInv, TypeOK, ProcessorTypeOK, Results
  <1>2. BatchesHoldProviderEvents'
    BY DEF IndInv, TypeOK, ProcessorTypeOK, BatchesHoldProviderEvents, BatchDone,
           BatchAborts, Crash, Stop, storeVars
  <1> QED
    BY <1>1, <1>2, ControlKeeps DEF BatchDone, BatchAborts, Crash

\* The end of the key's TTL.
LEMMA ExpireKeeps ==
    ASSUME IndInv, ExpireOrphan \/ ExpireOverrun, UNCHANGED requestVars
    PROVE  IndInv'
  <1>1. ProcessorTypeOK'
    <2>1. faults' \in 0..MaxFaults
      BY ProcessorAssumption
         DEF IndInv, TypeOK, ProcessorTypeOK, ExpireOrphan, ExpireOverrun
    <2>2. lockKey' = FALSE /\ UNCHANGED <<ppc, batch, event, result, moved>>
      BY DEF ExpireOrphan, ExpireOverrun
    <2> QED
      BY <2>1, <2>2 DEF IndInv, TypeOK, ProcessorTypeOK
  <1>2. BatchesHoldProviderEvents'
    BY DEF IndInv, BatchesHoldProviderEvents, ExpireOrphan, ExpireOverrun, storeVars
  <1> QED
    BY <1>1, <1>2, ControlKeeps DEF ExpireOrphan, ExpireOverrun

\* Closing a transaction of the batch, with balances that change its wallet
\* only and lower no available balance.
LEMMA CloseKeeps ==
    ASSUME IndInv, NEW p \in Procs, ppc[p] = "answered",
           NEW ws \in [Wallets -> Balances], NEW status \in {"SETTLED", "FAILED"},
           NEW entries \in Seq(LedgerEntry),
           Close(p, event[p], ws, status, entries),
           \A w \in Wallets : w # WalletOf(event[p]) => ws[w] = wallet[w],
           \A w \in Wallets : ws[w].available >= wallet[w].available,
           UNCHANGED requestVars
    PROVE  IndInv'
  <1> DEFINE k == event[p]
  <1>1. k \in batch[p]
    BY DEF IndInv, BatchesHoldProviderEvents
  <1>2. /\ k \in Keys
        /\ txn[k] \in Transaction
        /\ txn[k].type \in {"DEPOSIT", "WITHDRAWAL"}
        /\ txn[k].status # "ABSENT"
        /\ txn[k].amount \in Amounts
        /\ WalletOf(k) \in Wallets
    BY <1>1, BatchEvent
  <1>3. /\ RowFree(WalletOf(k))
        /\ wallet' = ws
        /\ txn' = [txn EXCEPT ![k].status = status]
        /\ ledger' = [ledger EXCEPT ![k] = @ \o entries]
        /\ paymentLog' = [paymentLog EXCEPT ![k] = status]
        /\ outbox' = MarkDelivered(outbox, k)
        /\ NextEvent(p, k)
        /\ UNCHANGED locks
    BY DEF Close
  <1> HIDE DEF k
  <1>4. /\ txn' \in [Keys -> Transaction]
        /\ \A j \in Keys : j # k => txn'[j] = txn[j]
        /\ txn'[k].type = txn[k].type
        /\ txn'[k].status = status
        /\ txn'[k].amount = txn[k].amount
        /\ txn'[k].sender = txn[k].sender
        /\ txn'[k].receiver = txn[k].receiver
    BY <1>2, <1>3 DEF IndInv, TypeOK, StoreTypeOK, Transaction
  <1>5. /\ outbox' \in [Keys -> OutboxEvent]
        /\ outbox'[k].delivered
        /\ \A j \in Keys : /\ outbox'[j].eventType = outbox[j].eventType
                           /\ outbox[j].delivered => outbox'[j].delivered
    BY <1>2, <1>3 DEF IndInv, TypeOK, StoreTypeOK, OutboxEvent, MarkDelivered
  <1>6. ProcessorTypeOK' /\ BatchesHoldProviderEvents'
    BY <1>2, <1>3, <1>4, NextEventKeeps
  <1>7. TypeOK'
    <2>1. ledger' \in [Keys -> Seq(LedgerEntry)]
      BY <1>2, <1>3 DEF IndInv, TypeOK, StoreTypeOK
    <2>2. paymentLog' \in [Keys -> {"NONE", "SETTLED", "FAILED"}]
      BY <1>2, <1>3 DEF IndInv, TypeOK, StoreTypeOK
    <2>3. StoreTypeOK'
      BY <1>3, <1>4, <1>5, <2>1, <2>2 DEF IndInv, TypeOK, StoreTypeOK
    <2> QED
      BY <1>6, <2>3 DEF IndInv, TypeOK, RequestTypeOK, requestVars
  <1>8. RowsWellFormed'
    BY <1>2, <1>4 DEF IndInv, RowsWellFormed
  <1>9. EventsMatchRows'
    BY <1>2, <1>4, <1>5 DEF IndInv, EventsMatchRows
  <1>10. LocksBelongToOpenCalls' /\ LocksExclude'
    BY <1>3 DEF IndInv, LocksBelongToOpenCalls, LocksExclude, requestVars, LockTargets,
                SelfTransfer, UnknownRecipient
  <1>11. SnapshotsFresh'
    <2> SUFFICES ASSUME NEW q \in Reqs, (input[q].user \in locks[q])'
                 PROVE  (seen[q] = wallet[input[q].user].available)'
      BY DEF SnapshotsFresh
    <2>1. input' = input /\ seen' = seen /\ locks' = locks
      BY <1>3 DEF requestVars
    <2>2. input[q].user \in Wallets /\ input[q].user # WalletOf(k)
      BY <1>3, <2>1 DEF IndInv, TypeOK, StoreTypeOK, RowFree
    <2>3. wallet'[input[q].user] = wallet[input[q].user]
      BY <1>3, <2>2 DEF k
    <2> QED
      BY <2>1, <2>3 DEF IndInv, SnapshotsFresh
  <1>12. TerminalMatchesLog'
    BY <1>2, <1>3, <1>4 DEF IndInv, TypeOK, StoreTypeOK, TerminalMatchesLog
  <1>13. NoOverdraft'
    BY <1>3 DEF IndInv, TypeOK, StoreTypeOK, Balances, NoOverdraft
  <1> QED
    BY <1>6, <1>7, <1>8, <1>9, <1>10, <1>11, <1>12, <1>13 DEF IndInv

\* Settlement moves the funds of the transaction's own wallet.
LEMMA SettleKeeps ==
    ASSUME IndInv, NEW p \in Procs, Settle(p), UNCHANGED requestVars
    PROVE  IndInv'
  <1> DEFINE k == event[p]
             ws == SettledBalances(k)
             entries == <<SettlementEntry(k, ws)>>
  <1>1. ppc[p] = "answered" /\ Close(p, k, ws, "SETTLED", entries)
    BY DEF Settle
  <1>2. k \in batch[p]
    BY <1>1 DEF IndInv, BatchesHoldProviderEvents
  <1>3. /\ k \in Keys
        /\ txn[k].type \in {"DEPOSIT", "WITHDRAWAL"}
        /\ txn[k].amount \in Nat
        /\ WalletOf(k) \in Wallets
        /\ txn[k].type = "DEPOSIT" => WalletOf(k) = txn[k].receiver
        /\ txn[k].type = "WITHDRAWAL" => WalletOf(k) = txn[k].sender
    BY <1>2, BatchEvent
  <1>4. wallet \in [Wallets -> Balances]
    BY DEF IndInv, TypeOK, StoreTypeOK
  <1>5. \/ ws = SettlePending(wallet, WalletOf(k), txn[k].amount)
        \/ ws = SettleLocked(wallet, WalletOf(k), txn[k].amount)
    BY <1>3 DEF SettledBalances
  <1> HIDE DEF ws, k
  <1>6. ws \in [Wallets -> Balances]
    BY <1>3, <1>4, <1>5, ColumnUpdatesTyped, BalanceUpdatesTyped
  <1>7. entries \in Seq(LedgerEntry)
    <2>1. ws[WalletOf(k)].available \in Int /\ ws[WalletOf(k)].locked \in Int
      BY <1>3, <1>6 DEF Balances
    <2>2. SettlementEntry(k, ws) \in LedgerEntry
      BY <1>3, <2>1, EntryTyped DEF SettlementEntry
    <2> QED
      BY <2>2
  <1>8. \A w \in Wallets : w # WalletOf(k) => ws[w] = wallet[w]
    BY <1>3, <1>4, <1>5, ColumnUpdatesEffect, BalanceUpdatesEffect
  <1>9. \A w \in Wallets : ws[w].available >= wallet[w].available
    <2>1. ws[WalletOf(k)].available \in {wallet[WalletOf(k)].available,
              wallet[WalletOf(k)].available + txn[k].amount}
      BY <1>3, <1>4, <1>5, ColumnUpdatesEffect, BalanceUpdatesEffect
    <2> QED
      BY <1>3, <1>4, <1>8, <2>1 DEF Balances
  <1> HIDE DEF entries
  <1> QED
    BY <1>1, <1>6, <1>7, <1>8, <1>9, CloseKeeps DEF k

\* So does a reversal.
LEMMA FailKeeps ==
    ASSUME IndInv, NEW p \in Procs, Fail(p), UNCHANGED requestVars
    PROVE  IndInv'
  <1> DEFINE k == event[p]
             ws == ReversedBalances(k)
  <1>1. ppc[p] = "answered" /\ Close(p, k, ws, "FAILED", <<>>)
    BY DEF Fail
  <1>2. k \in batch[p]
    BY <1>1 DEF IndInv, BatchesHoldProviderEvents
  <1>3. /\ k \in Keys
        /\ txn[k].type \in {"DEPOSIT", "WITHDRAWAL"}
        /\ txn[k].amount \in Nat
        /\ WalletOf(k) \in Wallets
        /\ txn[k].type = "DEPOSIT" => WalletOf(k) = txn[k].receiver
        /\ txn[k].type = "WITHDRAWAL" => WalletOf(k) = txn[k].sender
    BY <1>2, BatchEvent
  <1>4. wallet \in [Wallets -> Balances]
    BY DEF IndInv, TypeOK, StoreTypeOK
  <1>5. \/ ws = ReversePending(wallet, WalletOf(k), txn[k].amount)
        \/ ws = ReverseLocked(wallet, WalletOf(k), txn[k].amount)
    BY <1>3 DEF ReversedBalances
  <1> HIDE DEF ws, k
  <1>6. ws \in [Wallets -> Balances]
    BY <1>3, <1>4, <1>5, ColumnUpdatesTyped, BalanceUpdatesTyped
  <1>7. \A w \in Wallets : w # WalletOf(k) => ws[w] = wallet[w]
    BY <1>3, <1>4, <1>5, ColumnUpdatesEffect, BalanceUpdatesEffect
  <1>8. \A w \in Wallets : ws[w].available >= wallet[w].available
    <2>1. ws[WalletOf(k)].available \in {wallet[WalletOf(k)].available,
              wallet[WalletOf(k)].available + txn[k].amount}
      BY <1>3, <1>4, <1>5, ColumnUpdatesEffect, BalanceUpdatesEffect
    <2> QED
      BY <1>3, <1>4, <1>7, <2>1 DEF Balances
  <1>9. <<>> \in Seq(LedgerEntry)
    OBVIOUS
  <1> QED
    BY <1>1, <1>6, <1>7, <1>8, <1>9, CloseKeeps DEF k

-----------------------------------------------------------------------------
(* The invariant *)

\* The invariant holds of the empty tables.
LEMMA InitEstablishes == Init => IndInv
  <1> SUFFICES ASSUME Init PROVE IndInv
    OBVIOUS
  <1> USE DEF Init, StoreInit, RequestInit, ProcessorInit
  <1>1. wallet \in [Wallets -> Balances] /\ NoOverdraft
    BY StoreAssumption DEF Balances, NoOverdraft
  <1>2. txn \in [Keys -> Transaction] /\ outbox \in [Keys -> OutboxEvent]
    BY DEF NoTransaction, Transaction, NewEvent, OutboxEvent
  <1>3. StoreTypeOK
    BY <1>1, <1>2 DEF StoreTypeOK
  <1>4. RequestTypeOK
    BY DEF RequestTypeOK
  <1>5. ProcessorTypeOK
    <2>1. faults \in 0..MaxFaults
      BY ProcessorAssumption
    <2>2. lockKey \in BOOLEAN
      OBVIOUS
    <2> QED
      BY <2>1, <2>2 DEF ProcessorTypeOK, Results
  <1>6. RowsWellFormed /\ TerminalMatchesLog
    BY DEF RowsWellFormed, TerminalMatchesLog, NoTransaction
  <1>7. EventsMatchRows
    BY DEF EventsMatchRows, NoTransaction, NewEvent
  <1>8. BatchesHoldProviderEvents
    BY DEF BatchesHoldProviderEvents
  <1>9. LocksBelongToOpenCalls /\ LocksExclude /\ SnapshotsFresh
    BY DEF LocksBelongToOpenCalls, LocksExclude, SnapshotsFresh
  <1> QED
    BY <1>1, <1>3, <1>4, <1>5, <1>6, <1>7, <1>8, <1>9 DEF IndInv, TypeOK

\* Every step of every handler and processor keeps the invariant.
LEMMA NextKeeps == IndInv /\ [Next]_vars => IndInv'
  <1> SUFFICES ASSUME IndInv, [Next]_vars PROVE IndInv'
    OBVIOUS
  <1>1. CASE RequestNext /\ UNCHANGED processorVars
    <2>1. PICK r \in Reqs :
              \/ \E in \in Inputs : RefuseEarly(r, in) \/ Replay(r, in) \/ Open(r, in)
              \/ LockWallet(r)
              \/ Resolve(r)
              \/ Abort(r)
              \/ Finish(r)
      BY <1>1 DEF RequestNext
    <2>2. CASE \E in \in Inputs : RefuseEarly(r, in) \/ Replay(r, in) \/ Open(r, in)
      BY <1>1, <2>2, ArrivalKeeps
    <2>3. CASE LockWallet(r)
      BY <1>1, <2>3, LockWalletKeeps
    <2>4. CASE Refuse(r) \/ NoDestination(r)
      BY <1>1, <2>4, RollBackKeeps DEF Refuse, NoDestination, Answers
    <2>5. CASE Conflict(r)
      BY <1>1, <2>5, RollBackKeeps DEF Conflict, Answers
    <2>6. CASE Abort(r)
      BY <1>1, <2>6, RollBackKeeps DEF Abort, Answers
    <2>7. CASE Commits(r)
      BY <1>1, <2>7, DepositKeeps, WithdrawKeeps, TransferKeeps, ConfirmDepositKeeps,
         CreatePayoutKeeps DEF Commits
    <2>8. CASE Finish(r)
      BY <1>1, <2>8, FinishKeeps
    <2> QED
      BY <2>1, <2>2, <2>3, <2>4, <2>5, <2>6, <2>7, <2>8 DEF Resolve
  <1>2. CASE ProcessorNext /\ UNCHANGED requestVars
    <2>1. CASE ExpireOrphan \/ ExpireOverrun
      BY <1>2, <2>1, ExpireKeeps
    <2>2. ASSUME NEW p \in Procs,
                 Acquire(p) \/ Work(p) \/ BatchAborts(p) \/ Crash(p)
          PROVE  IndInv'
      <3>1. CASE Acquire(p)
        BY <1>2, <3>1, AcquireKeeps
      <3>2. CASE BatchAborts(p) \/ Crash(p) \/ BatchDone(p)
        BY <1>2, <3>2, StopKeeps
      <3>3. CASE Fetch(p)
        BY <1>2, <3>3, FetchKeeps
      <3>4. CASE \E k \in Keys : ResolveThrows(p, k)
        BY <1>2, <3>4, OutboxStepKeeps DEF ResolveThrows, Retried
      <3>5. CASE \E k \in Keys : CallProvider(p, k)
        BY <1>2, <3>5, CallProviderKeeps
      <3>6. CASE AcceptAsync(p) \/ WriteThrows(p)
        <4>1. event[p] \in Keys
          BY <3>6, BatchEvent
             DEF AcceptAsync, WriteThrows, IndInv, BatchesHoldProviderEvents
        <4> QED
          BY <1>2, <3>6, <4>1, OutboxStepKeeps DEF AcceptAsync, WriteThrows, Retried
      <3>7. CASE Settle(p)
        BY <1>2, <3>7, SettleKeeps
      <3>8. CASE Fail(p)
        BY <1>2, <3>8, FailKeeps
      <3> QED
        BY <2>2, <3>1, <3>2, <3>3, <3>4, <3>5, <3>6, <3>7, <3>8 DEF Work
    <2> QED
      BY <1>2, <2>1, <2>2 DEF ProcessorNext
  <1>3. CASE UNCHANGED vars
    <2>1. UNCHANGED <<storeVars, requestVars>>
      BY <1>3 DEF vars
    <2>2. ProcessorTypeOK' /\ BatchesHoldProviderEvents'
      BY <1>3 DEF IndInv, TypeOK, ProcessorTypeOK, BatchesHoldProviderEvents, vars,
                  storeVars, processorVars
    <2> QED
      BY <2>1, <2>2, ControlKeeps
  <1> QED
    BY <1>1, <1>2, <1>3 DEF Next

\* The inductive invariant holds in every state the system reaches.
THEOREM Invariance == Spec => []IndInv
  BY InitEstablishes, NextKeeps, PTL DEF Spec

\* Every variable keeps its type: PaymentSystem!TypeOK.
THEOREM TypeCorrect == Spec => []TypeOK
  BY Invariance, PTL DEF IndInv

\* However calls, settlements, retries and faults interleave, no available
\* balance goes below zero: assertSufficientBalance under lockWallet suffices.
THEOREM Solvency == Spec => []NoOverdraft
  BY Invariance, PTL DEF IndInv

\* The payment log, the only guard of a settlement, always agrees with the
\* status of the transaction.
THEOREM LogGuardsStatus == Spec => []TerminalMatchesLog
  BY Invariance, PTL DEF IndInv

\* An event that can still be fetched belongs to an open transaction.
THEOREM PendingIsOpen == Spec => []PendingStillInitiated
  <1>1. IndInv => PendingStillInitiated
    <2> SUFFICES ASSUME IndInv, NEW k \in Keys, PendingEvent(k)
                 PROVE  txn[k].status = "INITIATED"
      BY DEF PendingStillInitiated
    <2> QED
      BY DEF IndInv, EventsMatchRows, PendingEvent
  <1> QED
    BY <1>1, Invariance, PTL

-----------------------------------------------------------------------------
(* What a step may never do *)

\* A commit inserts a row under a free key and leaves the other rows alone.
LEMMA CommitWritesFreshKey ==
    ASSUME IndInv, NEW r \in Reqs, Commits(r)
    PROVE  /\ pc[r] = "open" /\ pc'[r] = "created"
           /\ \A k \in Keys : KeyTaken(k) => txn'[k] = txn[k]
           /\ \A w \in Wallets \ locks[r] : wallet'[w] = wallet[w]
  <1>1. PICK op, ws, row, entries, eventType :
            Commit(r, op, ws, row, entries, eventType)
    BY DEF Commits, Deposit, Withdraw, Transfer, ConfirmDeposit, CreatePayout
  <1>2. Locked(r) /\ Answer(r, "created")
        /\ CreateTransaction(input[r].key, row, entries, eventType)
    BY <1>1 DEF Commit
  <1>3. pc[r] = "open" /\ pc'[r] = "created"
    BY <1>2 DEF Locked, Answer, IndInv, TypeOK, RequestTypeOK
  <1>4. \A k \in Keys : KeyTaken(k) => txn'[k] = txn[k]
    BY <1>2 DEF CreateTransaction, KeyTaken, IndInv, TypeOK, StoreTypeOK
  <1>5. \A w \in Wallets \ locks[r] : wallet'[w] = wallet[w]
    <2>1. /\ input[r].user \in Wallets /\ input[r].user \in locks[r]
          /\ input[r].amount \in Nat
          /\ input[r].op = "transfer" => /\ input[r].peer \in Wallets
                                         /\ input[r].peer \in locks[r]
      BY <1>2, LockedCall
    <2>2. wallet \in [Wallets -> Balances]
      BY DEF IndInv, TypeOK, StoreTypeOK
    <2>3. CASE Deposit(r) \/ ConfirmDeposit(r)
      <3>1. wallet' = CreditPending(wallet, input[r].user, input[r].amount)
        BY <2>3 DEF Deposit, ConfirmDeposit, Commit
      <3> QED
        BY <2>1, <2>2, <3>1, ColumnUpdatesEffect
    <2>4. CASE Withdraw(r) \/ CreatePayout(r)
      <3>1. wallet' = DebitAvailableAndLock(wallet, input[r].user, input[r].amount)
        BY <2>4 DEF Withdraw, CreatePayout, Commit
      <3> QED
        BY <2>1, <2>2, <3>1, BalanceUpdatesEffect
    <2>5. CASE Transfer(r)
      <3> DEFINE mid == DebitAvailable(wallet, input[r].user, input[r].amount)
      <3>1. /\ wallet' = CreditAvailable(mid, input[r].peer, input[r].amount)
            /\ input[r].op = "transfer"
        BY <2>5 DEF Transfer, Commit
      <3>2. mid \in [Wallets -> Balances]
        BY <2>1, <2>2, ColumnUpdatesTyped
      <3>3. \A w \in Wallets \ locks[r] : mid[w] = wallet[w]
        BY <2>1, <2>2, ColumnUpdatesEffect
      <3> HIDE DEF mid
      <3> QED
        BY <2>1, <3>1, <3>2, <3>3, ColumnUpdatesEffect
    <2> QED
      BY <2>3, <2>4, <2>5 DEF Commits
  <1> QED
    BY <1>3, <1>4, <1>5

\* A settlement or reversal closes an open transaction, and changes the
\* balances of a wallet nobody has locked.
LEMMA CloseClosesOpenTransaction ==
    ASSUME IndInv, NEW p \in Procs, Settle(p) \/ Fail(p)
    PROVE  /\ event[p] \in Keys
           /\ txn[event[p]].status = "INITIATED"
           /\ \E status \in {"SETTLED", "FAILED"} :
                 txn' = [txn EXCEPT ![event[p]].status = status]
           /\ RowFree(WalletOf(event[p]))
           /\ \A w \in Wallets : w # WalletOf(event[p]) => wallet'[w] = wallet[w]
  <1> DEFINE k == event[p]
             w == WalletOf(k)
             a == txn[k].amount
  <1>1. /\ ppc[p] = "answered"
        /\ RowFree(w)
        /\ paymentLog[k] = "NONE"
        /\ \E status \in {"SETTLED", "FAILED"} :
              txn' = [txn EXCEPT ![k].status = status]
        /\ wallet' \in {SettledBalances(k), ReversedBalances(k)}
    BY DEF Settle, Fail, Close, LogFree
  <1>2. k \in batch[p]
    BY <1>1 DEF IndInv, BatchesHoldProviderEvents
  <1>3. /\ k \in Keys
        /\ txn[k].type \in {"DEPOSIT", "WITHDRAWAL"}
        /\ txn[k].status # "ABSENT"
        /\ txn[k] \in Transaction
        /\ a \in Nat
        /\ w \in Wallets
        /\ txn[k].type = "DEPOSIT" => w = txn[k].receiver
        /\ txn[k].type = "WITHDRAWAL" => w = txn[k].sender
    BY <1>2, BatchEvent
  <1>4. txn[k].status = "INITIATED"
    BY <1>1, <1>3 DEF IndInv, TerminalMatchesLog, Transaction
  <1>5. wallet \in [Wallets -> Balances]
    BY DEF IndInv, TypeOK, StoreTypeOK
  <1>6. \/ wallet' = SettlePending(wallet, w, a)
        \/ wallet' = SettleLocked(wallet, w, a)
        \/ wallet' = ReversePending(wallet, w, a)
        \/ wallet' = ReverseLocked(wallet, w, a)
    BY <1>1, <1>3 DEF SettledBalances, ReversedBalances
  <1> HIDE DEF w, a
  <1>7. \A v \in Wallets : v # w => wallet'[v] = wallet[v]
    BY <1>3, <1>5, <1>6, ColumnUpdatesEffect, BalanceUpdatesEffect
  <1> QED
    BY <1>1, <1>3, <1>4, <1>7 DEF w

\* Every other step leaves the balances, the transaction rows and the
\* ledger alone.
LEMMA OnlyCommitAndCloseWrite ==
    ASSUME [Next]_vars
    PROVE  \/ \E r \in Reqs : Commits(r)
           \/ \E p \in Procs : Settle(p) \/ Fail(p)
           \/ UNCHANGED <<wallet, txn, ledger>>
  <1>1. CASE RequestNext
    <2>1. PICK r \in Reqs :
              \/ \E in \in Inputs : RefuseEarly(r, in) \/ Replay(r, in) \/ Open(r, in)
              \/ LockWallet(r)
              \/ Resolve(r)
              \/ Abort(r)
              \/ Finish(r)
      BY <1>1 DEF RequestNext
    <2>2. CASE Commits(r)
      BY <2>2
    <2>3. CASE ~ Commits(r)
      BY <2>1, <2>3 DEF Resolve, RefuseEarly, Replay, Open, LockWallet, Refuse,
            NoDestination, Conflict, Abort, RollBack, Finish, storeVars
    <2> QED
      BY <2>2, <2>3
  <1>2. CASE ProcessorNext
    BY <1>2 DEF ProcessorNext, Work, Acquire, Fetch, BatchDone, ResolveThrows,
          CallProvider, AcceptAsync, WriteThrows, BatchAborts, Crash, ExpireOrphan,
          ExpireOverrun, storeVars
  <1>3. CASE UNCHANGED vars
    BY <1>3 DEF vars, storeVars
  <1> QED
    BY <1>1, <1>2, <1>3 DEF Next

\* No step rewrites a closed transaction, or more than the status of an open
\* one, although settle and fail never read the status: PaymentLog's unique
\* transactionId and TerminalMatchesLog stop the second run.
THEOREM HistoryNeverChanges == Spec => HistoryIsFinal
  <1> DEFINE Final == \A k \in Keys :
          /\ txn[k].status \in {"SETTLED", "FAILED"} => txn'[k] = txn[k]
          /\ KeyTaken(k) => [txn'[k] EXCEPT !.status = txn[k].status] = txn[k]
  <1>1. IndInv /\ [Next]_vars => Final
    <2> SUFFICES ASSUME IndInv, [Next]_vars PROVE Final
      OBVIOUS
    <2>1. \A k \in Keys : txn[k] \in Transaction
      BY DEF IndInv, TypeOK, StoreTypeOK
    <2>2. ASSUME NEW k \in Keys, txn'[k] = txn[k]
          PROVE  [txn'[k] EXCEPT !.status = txn[k].status] = txn[k]
      BY <2>1, <2>2 DEF Transaction
    <2>3. CASE \E r \in Reqs : Commits(r)
      <3>1. \A k \in Keys : KeyTaken(k) => txn'[k] = txn[k]
        BY <2>3, CommitWritesFreshKey
      <3> QED
        BY <2>2, <3>1 DEF KeyTaken
    <2>4. CASE \E p \in Procs : Settle(p) \/ Fail(p)
      <3>1. PICK p \in Procs : Settle(p) \/ Fail(p)
        BY <2>4
      <3> DEFINE c == event[p]
      <3>2. c \in Keys /\ txn[c].status = "INITIATED"
        BY <3>1, CloseClosesOpenTransaction
      <3>3. PICK status \in {"SETTLED", "FAILED"} :
                txn' = [txn EXCEPT ![c].status = status]
        BY <3>1, CloseClosesOpenTransaction
      <3> HIDE DEF c
      <3>4. \A k \in Keys : k # c => txn'[k] = txn[k]
        BY <3>2, <3>3 DEF IndInv, TypeOK, StoreTypeOK
      <3>5. [txn'[c] EXCEPT !.status = txn[c].status] = txn[c]
        BY <2>1, <3>2, <3>3 DEF IndInv, TypeOK, StoreTypeOK, Transaction
      <3> QED
        BY <2>2, <3>2, <3>4, <3>5
    <2>5. CASE UNCHANGED <<wallet, txn>>
      BY <2>2, <2>5
    <2> QED
      BY <2>3, <2>4, <2>5, OnlyCommitAndCloseWrite
  <1> QED
    BY <1>1, Invariance, PTL DEF Spec, HistoryIsFinal

\* Nobody changes a balance of a wallet while a call holds its row, except
\* that call when it commits: the snapshot it checked is still the row.
THEOREM LocksShieldBalances == Spec => LocksShield
  <1> DEFINE Shield == \A r \in Reqs : \A w \in locks[r] :
          wallet'[w] # wallet[w] => pc[r] = "open" /\ pc'[r] = "created"
  <1>1. IndInv /\ [Next]_vars => Shield
    <2> SUFFICES ASSUME IndInv, [Next]_vars, NEW r \in Reqs, NEW w \in locks[r],
                        wallet'[w] # wallet[w]
                 PROVE  pc[r] = "open" /\ pc'[r] = "created"
      OBVIOUS
    <2>1. w \in Wallets
      BY DEF IndInv, TypeOK, StoreTypeOK
    <2>2. ASSUME NEW q \in Reqs, Commits(q)
          PROVE  pc[r] = "open" /\ pc'[r] = "created"
      <3>1. w \in locks[q]
        BY <2>1, <2>2, CommitWritesFreshKey
      <3>2. q = r
        BY <3>1 DEF IndInv, LocksExclude
      <3> QED
        BY <2>2, <3>2, CommitWritesFreshKey
    <2>3. ASSUME NEW p \in Procs, Settle(p) \/ Fail(p)
          PROVE  FALSE
      BY <2>1, <2>3, CloseClosesOpenTransaction DEF RowFree
    <2> QED
      BY <2>2, <2>3, OnlyCommitAndCloseWrite
  <1> QED
    BY <1>1, Invariance, PTL DEF Spec, LocksShield

-----------------------------------------------------------------------------
(* The contract *)

\* The contract's column updates are the repository's.
LEMMA ContractColumns ==
    ASSUME NEW ws, NEW w, NEW a
    PROVE  /\ Contract!AddPending(ws, w, a) = CreditPending(ws, w, a)
           /\ Contract!AddLocked(Contract!SubAvailable(ws, w, a), w, a)
                  = DebitAvailableAndLock(ws, w, a)
           /\ Contract!AddAvailable(Contract!SubPending(ws, w, a), w, a)
                  = SettlePending(ws, w, a)
           /\ Contract!SubPending(ws, w, a) = ReversePending(ws, w, a)
           /\ Contract!SubLocked(ws, w, a) = SettleLocked(ws, w, a)
           /\ Contract!AddAvailable(Contract!SubLocked(ws, w, a), w, a)
                  = ReverseLocked(ws, w, a)
           /\ Contract!SubAvailable(ws, w, a) = DebitAvailable(ws, w, a)
           /\ Contract!AddAvailable(ws, w, a) = CreditAvailable(ws, w, a)
  BY DEF Contract!AddPending, Contract!AddLocked, Contract!SubAvailable,
         Contract!AddAvailable, Contract!SubPending, Contract!SubLocked,
         CreditPending, DebitAvailableAndLock, CreditLocked, DebitAvailable,
         SettlePending, ReversePending, SettleLocked, ReverseLocked, CreditAvailable

\* The empty tables are the initial state of the contract.
LEMMA ContractInit == Init => Contract!FundsInit
  BY DEF Init, StoreInit, Contract!FundsInit, Contract!Unused, Contract!Operation,
         Contract!Nobody, OperationOf, NoTransaction, NullWallet

\* Inserting a row uses its key in the contract.
LEMMA InsertUsesKey ==
    ASSUME IndInv, NEW k \in Keys, NEW row, txn[k].status = "ABSENT",
           txn' = [txn EXCEPT ![k] = row]
    PROVE  Contract!UseOnce(k, OperationOf(row))
  <1>1. OperationOf(txn[k]) = Contract!Unused
    BY DEF IndInv, RowsWellFormed, NoTransaction, OperationOf, Contract!Unused,
           Contract!Operation, Contract!Nobody, NullWallet
  <1>2. [j \in Keys |-> OperationOf(txn'[j])] =
            [[j \in Keys |-> OperationOf(txn[j])] EXCEPT ![k] = OperationOf(row)]
    BY DEF IndInv, TypeOK, StoreTypeOK
  <1> QED
    BY <1>1, <1>2 DEF Contract!UseOnce

\* Every commit of a handler is a step of the contract.
LEMMA CommitIsContractStep ==
    ASSUME IndInv, NEW r \in Reqs, Commits(r)
    PROVE  Contract!FundsNext
  <1> DEFINE k == input[r].key
             w == input[r].user
             a == input[r].amount
  <1>1. Locked(r) /\ Asserts(r)
    BY DEF Commits, Deposit, Withdraw, Transfer, ConfirmDeposit, CreatePayout, Commit
  <1>2. /\ k \in Keys /\ w \in Wallets /\ a \in Amounts
        /\ input[r].op = "transfer" => /\ input[r].peer \in Wallets
                                       /\ input[r].peer # w
    BY <1>1, LockedCall
  <1>3. CASE Deposit(r) \/ ConfirmDeposit(r)
    <2>1. PICK provider :
              /\ wallet' = CreditPending(wallet, w, a)
              /\ txn[k].status = "ABSENT"
              /\ txn' = [txn EXCEPT ![k] = DepositRow(w, a, provider)]
      BY <1>3 DEF Deposit, ConfirmDeposit, Commit, CreateTransaction, KeyTaken
    <2>2. OperationOf(DepositRow(w, a, provider)) =
              Contract!Operation("DEPOSIT", "INITIATED", a, Contract!Nobody, w)
      BY DEF OperationOf, DepositRow, Contract!Operation, Contract!Nobody, NullWallet
    <2>3. Contract!StartDeposit(k, w, a)
      BY <1>2, <2>1, <2>2, InsertUsesKey, ContractColumns DEF Contract!StartDeposit
    <2> QED
      BY <1>2, <2>3 DEF Contract!FundsNext
  <1>4. CASE Withdraw(r) \/ CreatePayout(r)
    <2>1. PICK provider :
              /\ wallet' = DebitAvailableAndLock(wallet, w, a)
              /\ txn[k].status = "ABSENT"
              /\ txn' = [txn EXCEPT ![k] = WithdrawalRow(w, a, provider)]
      BY <1>4 DEF Withdraw, CreatePayout, Commit, CreateTransaction, KeyTaken
    <2>2. wallet[w].available >= a
      BY <1>1, <1>4, SpendIsCovered DEF Withdraw, CreatePayout, Commit, Spends
    <2>3. OperationOf(WithdrawalRow(w, a, provider)) =
              Contract!Operation("WITHDRAWAL", "INITIATED", a, w, Contract!Nobody)
      BY DEF OperationOf, WithdrawalRow, Contract!Operation, Contract!Nobody, NullWallet
    <2>4. Contract!StartWithdrawal(k, w, a)
      BY <1>2, <2>1, <2>2, <2>3, InsertUsesKey, ContractColumns
         DEF Contract!StartWithdrawal
    <2> QED
      BY <1>2, <2>4 DEF Contract!FundsNext
  <1>5. CASE Transfer(r)
    <2> DEFINE to == input[r].peer
    <2>1. /\ wallet' = CreditAvailable(DebitAvailable(wallet, w, a), to, a)
          /\ txn[k].status = "ABSENT"
          /\ txn' = [txn EXCEPT ![k] = TransferRow(w, to, a)]
          /\ input[r].op = "transfer"
      BY <1>5 DEF Transfer, Commit, CreateTransaction, KeyTaken
    <2>2. wallet[w].available >= a
      BY <1>1, <2>1, SpendIsCovered DEF Spends
    <2>3. OperationOf(TransferRow(w, to, a)) =
              Contract!Operation("TRANSFER", "SETTLED", a, w, to)
      BY DEF OperationOf, TransferRow, Contract!Operation
    <2>4. Contract!MoveFunds(k, w, to, a)
      BY <1>2, <2>1, <2>2, <2>3, InsertUsesKey, ContractColumns DEF Contract!MoveFunds
    <2> QED
      BY <1>2, <2>1, <2>4 DEF Contract!FundsNext
  <1> QED
    BY <1>3, <1>4, <1>5 DEF Commits

\* So is every settlement and every reversal.
LEMMA CloseIsContractStep ==
    ASSUME IndInv, NEW p \in Procs, Settle(p) \/ Fail(p)
    PROVE  Contract!FundsNext
  <1> DEFINE k == event[p]
             a == txn[k].amount
             w == WalletOf(k)
             status == IF Settle(p) THEN "SETTLED" ELSE "FAILED"
             op == [j \in Keys |-> OperationOf(txn[j])]
  <1>1. /\ k \in Keys
        /\ txn[k].status = "INITIATED"
    BY CloseClosesOpenTransaction
  <1>2. ppc[p] = "answered" /\ k \in batch[p]
    BY DEF Settle, Fail, IndInv, BatchesHoldProviderEvents
  <1>3. /\ txn[k].type \in {"DEPOSIT", "WITHDRAWAL"}
        /\ txn[k] \in Transaction
        /\ a \in Amounts
        /\ w \in Wallets
        /\ txn[k].type = "DEPOSIT" => w = txn[k].receiver
        /\ txn[k].type = "WITHDRAWAL" => w = txn[k].sender
    BY <1>2, BatchEvent
  <1>4. /\ txn' = [txn EXCEPT ![k].status = status]
        /\ wallet' = IF Settle(p) THEN SettledBalances(k) ELSE ReversedBalances(k)
    BY DEF Settle, Fail, Close
  <1>5. /\ op[k].type = txn[k].type
        /\ op[k].status = "INITIATED"
        /\ op[k].amount = a
        /\ op[k].sender = txn[k].sender
        /\ op[k].receiver = txn[k].receiver
    BY <1>1 DEF OperationOf
  <1>6. [j \in Keys |-> OperationOf(txn'[j])] = [op EXCEPT ![k].status = status]
    <2>1. \A j \in Keys : j # k => txn'[j] = txn[j]
      BY <1>4 DEF IndInv, TypeOK, StoreTypeOK
    <2>2. OperationOf(txn'[k]) = [OperationOf(txn[k]) EXCEPT !.status = status]
      BY <1>1, <1>3, <1>4 DEF OperationOf, IndInv, TypeOK, StoreTypeOK, Transaction
    <2> QED
      BY <1>1, <2>1, <2>2
  <1> HIDE DEF w, a, k
  <1>7. CASE txn[k].type = "DEPOSIT" /\ Settle(p)
    <2>1. Contract!CloseOnce(k, "DEPOSIT", "SETTLED")
      BY <1>5, <1>6, <1>7 DEF Contract!CloseOnce
    <2>2. wallet' = SettlePending(wallet, w, a)
      BY <1>3, <1>4, <1>7 DEF SettledBalances, a
    <2>3. Contract!Arrived(k, w, a)
      BY <1>3, <1>5, <1>7, <2>1, <2>2, ContractColumns DEF Contract!Arrived
    <2> QED
      BY <1>1, <1>3, <2>3 DEF Contract!FundsNext
  <1>8. CASE txn[k].type = "DEPOSIT" /\ ~ Settle(p)
    <2>1. Contract!CloseOnce(k, "DEPOSIT", "FAILED")
      BY <1>5, <1>6, <1>8 DEF Contract!CloseOnce
    <2>2. wallet' = ReversePending(wallet, w, a)
      BY <1>3, <1>4, <1>8 DEF ReversedBalances, a
    <2>3. Contract!NeverArrived(k, w, a)
      BY <1>3, <1>5, <1>8, <2>1, <2>2, ContractColumns DEF Contract!NeverArrived
    <2> QED
      BY <1>1, <1>3, <2>3 DEF Contract!FundsNext
  <1>9. CASE txn[k].type = "WITHDRAWAL" /\ Settle(p)
    <2>1. Contract!CloseOnce(k, "WITHDRAWAL", "SETTLED")
      BY <1>5, <1>6, <1>9 DEF Contract!CloseOnce
    <2>2. wallet' = SettleLocked(wallet, w, a)
      BY <1>3, <1>4, <1>9 DEF SettledBalances, a
    <2>3. Contract!PaidOut(k, w, a)
      BY <1>3, <1>5, <1>9, <2>1, <2>2, ContractColumns DEF Contract!PaidOut
    <2> QED
      BY <1>1, <1>3, <2>3 DEF Contract!FundsNext
  <1>10. CASE txn[k].type = "WITHDRAWAL" /\ ~ Settle(p)
    <2>1. Contract!CloseOnce(k, "WITHDRAWAL", "FAILED")
      BY <1>5, <1>6, <1>10 DEF Contract!CloseOnce
    <2>2. wallet' = ReverseLocked(wallet, w, a)
      BY <1>3, <1>4, <1>10 DEF ReversedBalances, a
    <2>3. Contract!GivenBack(k, w, a)
      BY <1>3, <1>5, <1>10, <2>1, <2>2, ContractColumns DEF Contract!GivenBack
    <2> QED
      BY <1>1, <1>3, <2>3 DEF Contract!FundsNext
  <1> QED
    BY <1>3, <1>7, <1>8, <1>9, <1>10

\* The handlers and the processors of any number of instances, with their
\* locks, retries, crashes and lost answers, implement the funds contract:
\* each key is used once, each effect is one step, each operation is closed
\* at most once.
THEOREM Refinement == Spec => ImplementsContract
  <1>1. IndInv /\ [Next]_vars => [Contract!FundsNext]_(Contract!contractVars)
    <2> SUFFICES ASSUME IndInv, [Next]_vars, ~ Contract!FundsNext
                 PROVE  UNCHANGED Contract!contractVars
      OBVIOUS
    <2>1. UNCHANGED <<wallet, txn>>
      BY OnlyCommitAndCloseWrite, CommitIsContractStep, CloseIsContractStep
    <2> QED
      BY <2>1 DEF Contract!contractVars
  <1> QED
    BY <1>1, Invariance, ContractInit, PTL DEF Spec, ImplementsContract,
       Contract!FundsSpec

=============================================================================
