--------------------------- MODULE WalletRequests ---------------------------
(***************************************************************************)
(* The five money handlers: TransactionService.deposit, withdraw and       *)
(* transfer, PaymentService.confirmDeposit and createPayout, run by         *)
(* concurrent calls against the store.                                     *)
(*                                                                         *)
(* A call looks its idempotency key up outside any database transaction,   *)
(* opens one, locks its wallet rows FOR UPDATE in id order, runs its       *)
(* asserts on the rows it read under the lock and commits all its writes.  *)
(* Isolation is READ COMMITTED: a call sees what is committed when each    *)
(* of its statements runs, and only the row locks keep others away.        *)
(***************************************************************************)
EXTENDS WalletStore

CONSTANTS
    Inputs,         \* the requests clients may send (a retry sends it again)
    Active,         \* wallets whose status is ACTIVE; no code writes status
    Currencies,
    CurrencyOf      \* Wallet.currency; no code writes it after creation

Operations == {"deposit", "withdraw", "transfer", "confirmDeposit", "createPayout"}

\* provider is what the handler writes on the row: the DTO's for the payment
\* handlers, INTERNAL for the others. peer is a transfer's recipient, or
\* NullWallet for a recipient who has no wallet.
Request ==
    [op : Operations, user : Wallets, peer : Wallets \union {NullWallet},
     amount : Amounts, currency : Currencies,
     provider : Providers \union {"INTERNAL"}, key : Keys]

NoInput ==
    [op |-> "none", user |-> NullWallet, peer |-> NullWallet, amount |-> 0,
     currency |-> "NONE", provider |-> "NONE", key |-> "NONE"]

ASSUME RequestAssumption ==
    /\ Inputs \subseteq Request
    /\ \A in \in Inputs :
          in.provider \in Providers <=> in.op \in {"confirmDeposit", "createPayout"}
    /\ Active \subseteq Wallets
    /\ CurrencyOf \in [Wallets -> Currencies]

VARIABLES
    pc,             \* where each handler call is, or how it was answered
    input,          \* the request it serves
    seen            \* availableBalance of the payer in its locked snapshot

requestVars == <<pc, input, seen>>

Answers == {"created", "replayed", "refused", "conflict", "aborted"}

RequestTypeOK ==
    /\ pc \in [Reqs -> {"idle", "open"} \union Answers]
    /\ input \in [Reqs -> Inputs \union {NoInput}]
    /\ seen \in [Reqs -> Int]

RequestInit ==
    /\ pc = [r \in Reqs |-> "idle"]
    /\ input = [r \in Reqs |-> NoInput]
    /\ seen = [r \in Reqs |-> 0]

-----------------------------------------------------------------------------
(* Before the database transaction *)

SelfTransfer(in) == in.op = "transfer" /\ in.peer = in.user

UnknownRecipient(in) == in.op = "transfer" /\ in.peer = NullWallet

\* transfer() refuses a self-transfer before the key lookup, and an unknown
\* recipient after it.
RefuseEarly(r, in) ==
    /\ pc[r] = "idle"
    /\ SelfTransfer(in) \/ (UnknownRecipient(in) /\ ~ KeyTaken(in.key))
    /\ pc' = [pc EXCEPT ![r] = "refused"]
    /\ input' = [input EXCEPT ![r] = in]
    /\ UNCHANGED <<storeVars, seen>>

\* The key is known: answer with the row it names.
Replay(r, in) ==
    /\ pc[r] = "idle"
    /\ ~ SelfTransfer(in)
    /\ KeyTaken(in.key)
    /\ pc' = [pc EXCEPT ![r] = "replayed"]
    /\ input' = [input EXCEPT ![r] = in]
    /\ UNCHANGED <<storeVars, seen>>

\* The key is free: open the database transaction.
Open(r, in) ==
    /\ pc[r] = "idle"
    /\ ~ SelfTransfer(in)
    /\ ~ UnknownRecipient(in)
    /\ ~ KeyTaken(in.key)
    /\ pc' = [pc EXCEPT ![r] = "open"]
    /\ input' = [input EXCEPT ![r] = in]
    /\ UNCHANGED <<storeVars, seen>>

-----------------------------------------------------------------------------
(* Inside the database transaction *)

LockTargets(in) == IF in.op = "transfer" THEN {in.user, in.peer} ELSE {in.user}

Unlocked(r) == LockTargets(input[r]) \ locks[r]

\* Mutant: the sender's row is always locked first.
MutLockNext(r, w) == input[r].user \in Unlocked(r) => w = input[r].user

\* Lower wallet id first.
LockNext(r, w) == \A v \in Unlocked(r) : w <= v

\* lockWallet: SELECT ... FOR UPDATE. The call waits while another holds the
\* row, then reads the committed row.
LockWallet(r) ==
    /\ pc[r] = "open"
    /\ \E w \in Unlocked(r) :
          /\ LockNext(r, w)
          /\ RowFree(w)
          /\ locks' = [locks EXCEPT ![r] = @ \union {w}]
          /\ seen' = IF w = input[r].user
                     THEN [seen EXCEPT ![r] = wallet[w].available] ELSE seen
    /\ UNCHANGED <<wallet, txn, ledger, outbox, paymentLog, pc, input>>

Locked(r) == pc[r] = "open" /\ Unlocked(r) = {}

\* Mutant: transfers are not checked.
MutSpends(in) == in.op \in {"withdraw", "createPayout"}

Spends(in) == in.op \in {"withdraw", "transfer", "createPayout"}

\* Mutant: an off-by-one in the balance comparison.
MutAssertSufficientBalance(r) == Spends(input[r]) => seen[r] + 1 >= input[r].amount

AssertSufficientBalance(r) == Spends(input[r]) => seen[r] >= input[r].amount

\* assertActive, assertCurrencyMatch on every locked row, then the balance.
Asserts(r) ==
    /\ LockTargets(input[r]) \subseteq Active
    /\ \A w \in LockTargets(input[r]) : CurrencyOf[w] = input[r].currency
    /\ AssertSufficientBalance(r)

\* The transaction ends, its row locks with it, and the client is answered.
Answer(r, answer) ==
    /\ pc' = [pc EXCEPT ![r] = answer]
    /\ locks' = [locks EXCEPT ![r] = {}]
    /\ UNCHANGED <<input, seen>>

RollBack(r, answer) ==
    /\ Answer(r, answer)
    /\ UNCHANGED <<wallet, txn, ledger, outbox, paymentLog>>

\* An assert throws: 403 or 422.
Refuse(r) ==
    /\ Locked(r)
    /\ ~ Asserts(r)
    /\ RollBack(r, "refused")

\* createPayout finds no Stripe Connect account or PayPal email (400). The
\* link is read outside this component and may come and go.
NoDestination(r) ==
    /\ Locked(r)
    /\ Asserts(r)
    /\ input[r].op = "createPayout"
    /\ RollBack(r, "refused")

\* The insert breaks the unique key (P2002, 409): another call with the same
\* key committed after this one's lookup.
Conflict(r) ==
    /\ Locked(r)
    /\ Asserts(r)
    /\ KeyTaken(input[r].key)
    /\ RollBack(r, "conflict")

\* The process dies, the connection drops or Prisma's transaction timeout
\* fires before the commit.
Abort(r) ==
    /\ pc[r] = "open"
    /\ RollBack(r, "aborted")

\* What the five handlers' committing paths share.
Commit(r, op, ws, row, entries, eventType) ==
    /\ Locked(r)
    /\ Asserts(r)
    /\ input[r].op = op
    /\ wallet' = ws
    /\ CreateTransaction(input[r].key, row, entries, eventType)
    /\ Answer(r, "created")
    /\ UNCHANGED paymentLog

Deposit(r) ==
    LET w == input[r].user
        a == input[r].amount
        ws == CreditPending(wallet, w, a)
    IN  Commit(r, "deposit", ws, DepositRow(w, a, "INTERNAL"),
               <<Entry(w, "CREDIT", a, ws[w].pending)>>, "DEPOSIT_INITIATED")

\* Mutant: the entry reports the balance of the locked snapshot.
MutWithdraw(r) ==
    LET w == input[r].user
        a == input[r].amount
    IN  Commit(r, "withdraw", DebitAvailableAndLock(wallet, w, a),
               WithdrawalRow(w, a, "INTERNAL"),
               <<Entry(w, "DEBIT", a, wallet[w].locked)>>, "WITHDRAWAL_INITIATED")

Withdraw(r) ==
    LET w == input[r].user
        a == input[r].amount
        ws == DebitAvailableAndLock(wallet, w, a)
    IN  Commit(r, "withdraw", ws, WithdrawalRow(w, a, "INTERNAL"),
               <<Entry(w, "DEBIT", a, ws[w].locked)>>, "WITHDRAWAL_INITIATED")

\* Mutant: the recipient's credit is forgotten.
MutTransfer(r) ==
    LET from == input[r].user
        to == input[r].peer
        a == input[r].amount
        ws == DebitAvailable(wallet, from, a)
    IN  Commit(r, "transfer", ws, TransferRow(from, to, a),
               <<Entry(from, "DEBIT", a, ws[from].available),
                 Entry(to, "CREDIT", a, ws[to].available)>>, "TRANSFER_SETTLED")

Transfer(r) ==
    LET from == input[r].user
        to == input[r].peer
        a == input[r].amount
        ws == CreditAvailable(DebitAvailable(wallet, from, a), to, a)
    IN  Commit(r, "transfer", ws, TransferRow(from, to, a),
               <<Entry(from, "DEBIT", a, ws[from].available),
                 Entry(to, "CREDIT", a, ws[to].available)>>, "TRANSFER_SETTLED")

\* Mutant: the deposit is posted when initiated, and again when settled.
MutConfirmDeposit(r) ==
    LET w == input[r].user
        a == input[r].amount
        ws == CreditPending(wallet, w, a)
    IN  Commit(r, "confirmDeposit", ws, DepositRow(w, a, input[r].provider),
               <<Entry(w, "CREDIT", a, ws[w].pending)>>, "DEPOSIT_INITIATED")

\* The payment handlers write no ledger entry: settlement writes it.
ConfirmDeposit(r) ==
    LET w == input[r].user
        a == input[r].amount
    IN  Commit(r, "confirmDeposit", CreditPending(wallet, w, a),
               DepositRow(w, a, input[r].provider), <<>>, "DEPOSIT_INITIATED")

CreatePayout(r) ==
    LET w == input[r].user
        a == input[r].amount
    IN  Commit(r, "createPayout", DebitAvailableAndLock(wallet, w, a),
               WithdrawalRow(w, a, input[r].provider), <<>>, "WITHDRAWAL_INITIATED")

\* The answered call ends and its slot can take another request.
Finish(r) ==
    /\ pc[r] \in Answers
    /\ pc' = [pc EXCEPT ![r] = "idle"]
    /\ input' = [input EXCEPT ![r] = NoInput]
    /\ seen' = [seen EXCEPT ![r] = 0]
    /\ UNCHANGED storeVars

-----------------------------------------------------------------------------

Commits(r) ==
    \/ Deposit(r)
    \/ Withdraw(r)
    \/ Transfer(r)
    \/ ConfirmDeposit(r)
    \/ CreatePayout(r)

\* The steps the handler takes by itself once its rows are locked.
Resolve(r) ==
    \/ Refuse(r)
    \/ NoDestination(r)
    \/ Conflict(r)
    \/ Commits(r)

RequestNext ==
    \E r \in Reqs :
        \/ \E in \in Inputs : RefuseEarly(r, in) \/ Replay(r, in) \/ Open(r, in)
        \/ LockWallet(r)
        \/ Resolve(r)
        \/ Abort(r)
        \/ Finish(r)

=============================================================================
