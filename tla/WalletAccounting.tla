-------------------------- MODULE WalletAccounting --------------------------
(***************************************************************************)
(* What an auditor of the database can recompute: the balances from the    *)
(* transaction rows, and from the ledger.                                  *)
(***************************************************************************)
EXTENDS WalletStore, Functions, SequencesExt

\* The sum of the amounts of the transactions in S.
AmountOf(S) == SumFunctionOnSet([k \in Keys |-> txn[k].amount], S)

DepositsTo(w, status) ==
    {k \in Keys : txn[k].type = "DEPOSIT" /\ txn[k].receiver = w /\ txn[k].status = status}

WithdrawalsFrom(w, status) ==
    {k \in Keys : txn[k].type = "WITHDRAWAL" /\ txn[k].sender = w /\ txn[k].status = status}

TransfersTo(w) == {k \in Keys : txn[k].type = "TRANSFER" /\ txn[k].receiver = w}

TransfersFrom(w) == {k \in Keys : txn[k].type = "TRANSFER" /\ txn[k].sender = w}

\* The three balance columns are at all times what the committed transaction
\* rows say: pending backs the INITIATED deposits, locked the INITIATED
\* withdrawals, and available is the rest. No lost update, no double
\* settlement, no reversal twice or never.
BalancesMatchTransactions ==
    \A w \in Wallets :
        /\ wallet[w].pending = AmountOf(DepositsTo(w, "INITIATED"))
        /\ wallet[w].locked = AmountOf(WithdrawalsFrom(w, "INITIATED"))
        /\ wallet[w].available =
              Opening[w] + AmountOf(DepositsTo(w, "SETTLED")) + AmountOf(TransfersTo(w))
              - AmountOf(TransfersFrom(w)) - AmountOf(WithdrawalsFrom(w, "SETTLED"))
              - AmountOf(WithdrawalsFrom(w, "INITIATED"))

Signed(w, e) ==
    IF e.wallet # w THEN 0 ELSE IF e.direction = "CREDIT" THEN e.amount ELSE - e.amount

\* What the entries of transaction k add to the wallet.
Posted(w, k) == SumFunction([i \in DOMAIN ledger[k] |-> Signed(w, ledger[k][i])])

LedgerTotal(w) == SumFunctionOnSet([k \in Keys |-> Posted(w, k)], {k \in Keys : KeyTaken(k)})

Internal(S) == {k \in S : txn[k].provider = "INTERNAL"}

\* The ledger explains each wallet's whole balance. Two kinds of open
\* transaction are posted at another time than they touch the balance, and
\* only they make a difference: a provider deposit is pending but posted when
\* settled, an INTERNAL withdrawal is posted when initiated but still locked.
LedgerReconciles ==
    \A w \in Wallets :
        LET deposits == DepositsTo(w, "INITIATED")
        IN  wallet[w].available + wallet[w].locked + wallet[w].pending =
                Opening[w] + LedgerTotal(w)
                + AmountOf(deposits \ Internal(deposits))
                + AmountOf(Internal(WithdrawalsFrom(w, "INITIATED")))

\* The balance column an entry's balanceAfter reports: transfers and settled
\* deposits report available, open deposits pending, withdrawals locked.
ReportedBalance(row, balances) ==
    IF row.type = "WITHDRAWAL" THEN balances.locked
    ELSE IF row.status = "INITIATED" THEN balances.pending
    ELSE balances.available

\* An entry is appended, never changed, and its balanceAfter is the balance
\* the same commit leaves in the row (UPDATE ... RETURNING), not one read
\* earlier.
LedgerIsAppendOnly ==
    [][\A k \in Keys :
          /\ IsPrefix(ledger[k], ledger'[k])
          /\ \A i \in DOMAIN ledger'[k] \ DOMAIN ledger[k] :
                LET e == ledger'[k][i]
                IN  e.balanceAfter = ReportedBalance(txn'[k], wallet'[e.wallet])]_storeVars

=============================================================================
