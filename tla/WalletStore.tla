---------------------------- MODULE WalletStore ----------------------------
(***************************************************************************)
(* The PostgreSQL rows that carry money, and the repository methods that   *)
(* write them: prisma/schema.prisma, wallet.repository.ts,                 *)
(* transaction.repository.ts, payment.repository.ts.                       *)
(*                                                                         *)
(* A user owns exactly one wallet, so a wallet stands for its owner too.   *)
(* An idempotency key is unique, so it stands for the transaction that     *)
(* carries it, and for that transaction's one outbox event.                *)
(***************************************************************************)
EXTENDS Integers, Sequences

CONSTANTS
    Wallets,        \* wallet ids, ordered as the UUIDs are
    Keys,           \* idempotency keys
    Amounts,        \* amounts a request may carry, in units of 0.0001
    Opening,        \* what earlier, settled history left in each wallet
    Reqs,           \* handler calls that can be in flight together
    MaxRetries      \* findPendingProviderEvents' maxRetries (5 in the code)

NullWallet == 0     \* a null senderWalletId or receiverWalletId

ASSUME StoreAssumption ==
    /\ Wallets \subseteq Nat \ {NullWallet}
    /\ Amounts \subseteq Nat \ {0}
    /\ Opening \in [Wallets -> Nat]
    /\ MaxRetries \in Nat \ {0}

Providers == {"STRIPE", "PAYPAL"}

VARIABLES
    wallet,         \* Wallet rows: the three balances
    txn,            \* Transaction rows, by idempotency key
    ledger,         \* LedgerEntry rows of each transaction, oldest first
    outbox,         \* OutboxEvent row of each transaction
    paymentLog,     \* PaymentLog row of each transaction
    locks           \* the wallet rows each handler call holds FOR UPDATE

storeVars == <<wallet, txn, ledger, outbox, paymentLog, locks>>

-----------------------------------------------------------------------------
(* Row types *)

Balances == [available : Int, locked : Int, pending : Int]

Transaction ==
    [type : {"NONE", "DEPOSIT", "WITHDRAWAL", "TRANSFER"},
     status : {"ABSENT", "INITIATED", "SETTLED", "FAILED"},
     amount : Nat,
     provider : Providers \union {"NONE", "INTERNAL"},
     sender : Wallets \union {NullWallet},
     receiver : Wallets \union {NullWallet}]

\* No row carries this key yet.
NoTransaction ==
    [type |-> "NONE", status |-> "ABSENT", amount |-> 0, provider |-> "NONE",
     sender |-> NullWallet, receiver |-> NullWallet]

LedgerEntry ==
    [wallet : Wallets, direction : {"DEBIT", "CREDIT"}, amount : Nat,
     balanceAfter : Int]

\* Mutant: debits are stored with their sign.
MutEntry(w, direction, amount, balanceAfter) ==
    [wallet |-> w, direction |-> direction,
     amount |-> IF direction = "DEBIT" THEN 0 - amount ELSE amount,
     balanceAfter |-> balanceAfter]

Entry(w, direction, amount, balanceAfter) ==
    [wallet |-> w, direction |-> direction, amount |-> amount,
     balanceAfter |-> balanceAfter]

OutboxEvent ==
    [eventType : {"NONE", "DEPOSIT_INITIATED", "WITHDRAWAL_INITIATED",
                  "TRANSFER_SETTLED"},
     delivered : BOOLEAN,
     retryCount : Nat]

NewEvent(eventType) ==
    [eventType |-> eventType, delivered |-> FALSE, retryCount |-> 0]

StoreTypeOK ==
    /\ wallet \in [Wallets -> Balances]
    /\ txn \in [Keys -> Transaction]
    /\ ledger \in [Keys -> Seq(LedgerEntry)]
    /\ outbox \in [Keys -> OutboxEvent]
    /\ paymentLog \in [Keys -> {"NONE", "SETTLED", "FAILED"}]
    /\ locks \in [Reqs -> SUBSET Wallets]

StoreInit ==
    /\ wallet = [w \in Wallets |->
                    [available |-> Opening[w], locked |-> 0, pending |-> 0]]
    /\ txn = [k \in Keys |-> NoTransaction]
    /\ ledger = [k \in Keys |-> <<>>]
    /\ outbox = [k \in Keys |-> NewEvent("NONE")]
    /\ paymentLog = [k \in Keys |-> "NONE"]
    /\ locks = [r \in Reqs |-> {}]

\* Mutant: SELECT without FOR UPDATE.
MutRowFree(w) == TRUE

\* Nobody holds the row: a SELECT ... FOR UPDATE or an UPDATE of it goes on.
RowFree(w) == \A r \in Reqs : w \notin locks[r]

-----------------------------------------------------------------------------
(* WalletRepository: each method is one UPDATE of one wallet row, relative *)
(* to the row's current value. *)

CreditAvailable(ws, w, a) == [ws EXCEPT ![w].available = @ + a]

DebitAvailable(ws, w, a) == [ws EXCEPT ![w].available = @ - a]

CreditLocked(ws, w, a) == [ws EXCEPT ![w].locked = @ + a]

DebitAvailableAndLock(ws, w, a) == CreditLocked(DebitAvailable(ws, w, a), w, a)

CreditPending(ws, w, a) == [ws EXCEPT ![w].pending = @ + a]

\* settleWithdrawal
SettleLocked(ws, w, a) == [ws EXCEPT ![w].locked = @ - a]

\* The reversals PaymentSettlementService writes inline.
ReversePending(ws, w, a) == [ws EXCEPT ![w].pending = @ - a]

ReverseLocked(ws, w, a) == CreditAvailable(SettleLocked(ws, w, a), w, a)

SettlePending(ws, w, a) == CreditAvailable(ReversePending(ws, w, a), w, a)

-----------------------------------------------------------------------------
(* TransactionRepository *)

\* findByIdempotencyKey finds a row.
KeyTaken(k) == txn[k].status # "ABSENT"

\* Mutant: idempotencyKey is not unique.
MutCreateTransaction(k, row, entries, eventType) ==
    /\ txn' = [txn EXCEPT ![k] = row]
    /\ ledger' = [ledger EXCEPT ![k] = entries]
    /\ outbox' = [outbox EXCEPT ![k] = NewEvent(eventType)]

\* Transaction, its ledger entries and its outbox event, inserted together.
\* idempotencyKey is @unique: the insert fails if the key is taken.
CreateTransaction(k, row, entries, eventType) ==
    /\ ~ KeyTaken(k)
    /\ txn' = [txn EXCEPT ![k] = row]
    /\ ledger' = [ledger EXCEPT ![k] = entries]
    /\ outbox' = [outbox EXCEPT ![k] = NewEvent(eventType)]

DepositRow(w, a, provider) ==
    [type |-> "DEPOSIT", status |-> "INITIATED", amount |-> a,
     provider |-> provider, sender |-> NullWallet, receiver |-> w]

WithdrawalRow(w, a, provider) ==
    [type |-> "WITHDRAWAL", status |-> "INITIATED", amount |-> a,
     provider |-> provider, sender |-> w, receiver |-> NullWallet]

TransferRow(from, to, a) ==
    [type |-> "TRANSFER", status |-> "SETTLED", amount |-> a,
     provider |-> "INTERNAL", sender |-> from, receiver |-> to]

-----------------------------------------------------------------------------
(* PaymentRepository *)

\* The WHERE clause of findPendingProviderEvents.
PendingEvent(k) ==
    /\ ~ outbox[k].delivered
    /\ outbox[k].retryCount < MaxRetries
    /\ outbox[k].eventType \in {"DEPOSIT_INITIATED", "WITHDRAWAL_INITIATED"}

MarkDelivered(ob, k) == [ob EXCEPT ![k].delivered = TRUE]

IncrementRetry(ob, k) == [ob EXCEPT ![k].retryCount = @ + 1]

\* The wallet a provider transaction moves money on.
WalletOf(k) ==
    IF txn[k].type = "DEPOSIT" THEN txn[k].receiver ELSE txn[k].sender

=============================================================================
