----------------------- MODULE WalletAccountingProofs -----------------------
(***************************************************************************)
(* The accounting theorems: for any wallets, keys, calls, instances and    *)
(* faults, and however many transactions there are, the balances are what  *)
(* the transaction rows say and what the ledger says.                      *)
(***************************************************************************)
EXTENDS PaymentSystemProofs, WalletAccounting, FiniteSums

\* The transactions that exist. Keys may be infinite; this set never is.
Taken == {k \in Keys : KeyTaken(k)}

\* The rows the sums of WalletAccounting range over.
DepositRows(w, status) ==
    {row \in Transaction : row.type = "DEPOSIT" /\ row.receiver = w /\ row.status = status}

WithdrawalRows(w, status) ==
    {row \in Transaction : row.type = "WITHDRAWAL" /\ row.sender = w /\ row.status = status}

TransferInRows(w) == {row \in Transaction : row.type = "TRANSFER" /\ row.receiver = w}

TransferOutRows(w) == {row \in Transaction : row.type = "TRANSFER" /\ row.sender = w}

ProviderDepositRows(w) ==
    {row \in DepositRows(w, "INITIATED") : row.provider # "INTERNAL"}

InternalWithdrawalRows(w) ==
    {row \in WithdrawalRows(w, "INITIATED") : row.provider = "INTERNAL"}

\* The transactions whose row is in R, and what one row adds to their sum.
RowsIn(R) == {k \in Keys : txn[k] \in R}

Part(R, row) == IF row \in R THEN row.amount ELSE 0

\* What a row adds to each balance of wallet w.
PendingPart(w, row) == Part(DepositRows(w, "INITIATED"), row)

LockedPart(w, row) == Part(WithdrawalRows(w, "INITIATED"), row)

AvailablePart(w, row) ==
    Part(DepositRows(w, "SETTLED"), row) + Part(TransferInRows(w), row)
    - Part(TransferOutRows(w), row) - Part(WithdrawalRows(w, "SETTLED"), row)
    - Part(WithdrawalRows(w, "INITIATED"), row)

\* A deposit or withdrawal with entries: the INTERNAL ones are posted when
\* initiated, the others when settled.
HasEntry(row) == row.provider = "INTERNAL" \/ row.status = "SETTLED"

Posts(e, w, direction, amount) ==
    e.wallet = w /\ e.direction = direction /\ e.amount = amount

\* The entries a row must have.
EntriesOf(row, entries) ==
    /\ row.type = "TRANSFER" =>
          /\ Len(entries) = 2
          /\ Posts(entries[1], row.sender, "DEBIT", row.amount)
          /\ Posts(entries[2], row.receiver, "CREDIT", row.amount)
    /\ row.type = "DEPOSIT" /\ HasEntry(row) =>
          Len(entries) = 1 /\ Posts(entries[1], row.receiver, "CREDIT", row.amount)
    /\ row.type = "WITHDRAWAL" /\ HasEntry(row) =>
          Len(entries) = 1 /\ Posts(entries[1], row.sender, "DEBIT", row.amount)
    /\ row.type # "TRANSFER" /\ ~ HasEntry(row) => entries = <<>>

LedgerMatchesRows == \A k \in Keys : EntriesOf(txn[k], ledger[k])

\* No adapter exists for INTERNAL, so an INTERNAL deposit or withdrawal is
\* never closed and no instance ever holds an answer for one.
InternalStaysOpen ==
    /\ \A k \in Keys :
          txn[k].provider = "INTERNAL" /\ txn[k].type \in {"DEPOSIT", "WITHDRAWAL"} =>
              txn[k].status = "INITIATED"
    /\ \A p \in Procs :
          ppc[p] = "answered" => txn[event[p]].provider \in Providers

\* A deposit has no sender and a withdrawal no receiver.
OneEnded(row) ==
    /\ row.type = "DEPOSIT" => row.sender = NullWallet
    /\ row.type = "WITHDRAWAL" => row.receiver = NullWallet

\* BalancesMatchTransactions and LedgerReconciles over rows.
BalancesByRows ==
    \A w \in Wallets :
        /\ wallet[w].pending = AmountOf(RowsIn(DepositRows(w, "INITIATED")))
        /\ wallet[w].locked = AmountOf(RowsIn(WithdrawalRows(w, "INITIATED")))
        /\ wallet[w].available =
              Opening[w] + AmountOf(RowsIn(DepositRows(w, "SETTLED")))
              + AmountOf(RowsIn(TransferInRows(w))) - AmountOf(RowsIn(TransferOutRows(w)))
              - AmountOf(RowsIn(WithdrawalRows(w, "SETTLED")))
              - AmountOf(RowsIn(WithdrawalRows(w, "INITIATED")))

LedgerByRows ==
    \A w \in Wallets :
        wallet[w].available + wallet[w].locked + wallet[w].pending =
            Opening[w] + LedgerTotal(w)
            + AmountOf(RowsIn(ProviderDepositRows(w)))
            + AmountOf(RowsIn(InternalWithdrawalRows(w)))

AccountInv ==
    /\ IsFiniteSet(Taken)
    /\ InternalStaysOpen
    /\ \A k \in Keys : OneEnded(txn[k])
    /\ LedgerMatchesRows
    /\ BalancesByRows
    /\ LedgerByRows

\* A final answer is of an event whose money the provider moved.
DoneWasPaid ==
    \A p \in Procs :
        ppc[p] = "answered" /\ result[p] = "done" => moved[event[p]] > 0

\* The row a created call answers with exists.
CreatedRowExists ==
    \A r \in Reqs : pc[r] = "created" => input[r].key \in Keys /\ KeyTaken(input[r].key)

AnswerInv == CreatedRowExists /\ CreatedOnce /\ DoneWasPaid /\ SettledDepositWasPaid

-----------------------------------------------------------------------------
(* The sums after a step that writes one transaction *)

\* The amounts of a set of transactions after the row of k was written and
\* k perhaps joined or left the set.
LEMMA AmountsChange ==
    ASSUME NEW t \in [Keys -> Transaction], NEW u \in [Keys -> Transaction],
           NEW k \in Keys, \A j \in Keys \ {k} : u[j] = t[j],
           NEW D \in SUBSET Keys, NEW E \in SUBSET Keys, IsFiniteSet(D),
           D \ {k} = E \ {k}
    PROVE  /\ SumFunctionOnSet([j \in Keys |-> t[j].amount], D) \in Int
           /\ SumFunctionOnSet([j \in Keys |-> u[j].amount], E) =
                 SumFunctionOnSet([j \in Keys |-> t[j].amount], D)
                 - (IF k \in D THEN t[k].amount ELSE 0)
                 + (IF k \in E THEN u[k].amount ELSE 0)
  <1> DEFINE f == [j \in Keys |-> t[j].amount]
             g == [j \in Keys |-> u[j].amount]
  <1>1. /\ \A x \in D : f[x] \in Int
        /\ \A x \in E : g[x] \in Int
        /\ \A x \in D \ {k} : f[x] = g[x]
        /\ f[k] = t[k].amount /\ g[k] = u[k].amount
    BY DEF Transaction
  <1> HIDE DEF f, g
  <1>2. /\ SumFunctionOnSet(f, D) \in Int
        /\ SumFunctionOnSet(g, E) =
              SumFunctionOnSet(f, D) - (IF k \in D THEN f[k] ELSE 0)
                                     + (IF k \in E THEN g[k] ELSE 0)
    BY <1>1, SumChange
  <1>3. /\ SumFunctionOnSet(f, D) \in Int
        /\ SumFunctionOnSet(g, E) =
              SumFunctionOnSet(f, D) - (IF k \in D THEN t[k].amount ELSE 0)
                                     + (IF k \in E THEN u[k].amount ELSE 0)
    BY <1>1, <1>2
  <1> QED
    BY <1>3 DEF f, g

\* Only the row of k is written.
WritesOnly(k) ==
    /\ \A j \in Keys \ {k} : txn'[j] = txn[j]
    /\ \A j \in Keys \ {k} : ledger'[j] = ledger[j]

LEMMA RowsMove ==
    ASSUME IndInv, IndInv', IsFiniteSet(Taken), NEW k \in Keys, WritesOnly(k),
           NEW R \in SUBSET Transaction, NoTransaction \notin R
    PROVE  /\ AmountOf(RowsIn(R)) \in Int
           /\ AmountOf(RowsIn(R))' =
                 AmountOf(RowsIn(R)) - Part(R, txn[k]) + Part(R, txn'[k])
  <1>1. txn \in [Keys -> Transaction] /\ txn' \in [Keys -> Transaction]
    BY DEF IndInv, TypeOK, StoreTypeOK
  <1>2. PICK D : D = RowsIn(R)
    OBVIOUS
  <1>3. PICK E : E = RowsIn(R)'
    OBVIOUS
  <1>4. D \in SUBSET Keys /\ E \in SUBSET Keys /\ D \ {k} = E \ {k}
    BY <1>2, <1>3 DEF RowsIn, WritesOnly
  <1>5. IsFiniteSet(D)
    <2>1. D \subseteq Taken
      BY <1>2 DEF RowsIn, Taken, KeyTaken, IndInv, RowsWellFormed
    <2> QED
      BY <2>1, FS_Subset
  <1>6. /\ (IF k \in D THEN txn[k].amount ELSE 0) = Part(R, txn[k])
        /\ (IF k \in E THEN txn'[k].amount ELSE 0) = Part(R, txn'[k])
    BY <1>2, <1>3 DEF RowsIn, Part
  <1>7. AmountOf(RowsIn(R)) = SumFunctionOnSet([j \in Keys |-> txn[j].amount], D)
    BY <1>2, Zenon DEF AmountOf
  <1>8. AmountOf(RowsIn(R))' = SumFunctionOnSet([j \in Keys |-> txn'[j].amount], E)
    BY <1>3, Zenon DEF AmountOf
  <1> QED
    BY <1>1, <1>4, <1>5, <1>6, <1>7, <1>8, AmountsChange DEF WritesOnly

\* The sets of WalletAccounting are the transactions with those rows.
LEMMA SetsAreRows ==
    ASSUME txn \in [Keys -> Transaction], NEW w \in Wallets
    PROVE  /\ \A status \in {"INITIATED", "SETTLED"} :
                 /\ DepositsTo(w, status) = RowsIn(DepositRows(w, status))
                 /\ WithdrawalsFrom(w, status) = RowsIn(WithdrawalRows(w, status))
           /\ TransfersTo(w) = RowsIn(TransferInRows(w))
           /\ TransfersFrom(w) = RowsIn(TransferOutRows(w))
           /\ DepositsTo(w, "INITIATED") \ Internal(DepositsTo(w, "INITIATED")) =
                 RowsIn(ProviderDepositRows(w))
           /\ Internal(WithdrawalsFrom(w, "INITIATED")) =
                 RowsIn(InternalWithdrawalRows(w))
  <1>1. \A k \in Keys : txn[k] \in Transaction
    OBVIOUS
  <1>2. \A status \in {"INITIATED", "SETTLED"} :
                 /\ DepositsTo(w, status) = RowsIn(DepositRows(w, status))
                 /\ WithdrawalsFrom(w, status) = RowsIn(WithdrawalRows(w, status))
    BY <1>1 DEF DepositsTo, WithdrawalsFrom, RowsIn, DepositRows, WithdrawalRows
  <1>3. /\ TransfersTo(w) = RowsIn(TransferInRows(w))
        /\ TransfersFrom(w) = RowsIn(TransferOutRows(w))
    BY <1>1 DEF TransfersTo, TransfersFrom, RowsIn, TransferInRows, TransferOutRows
  <1>4. DepositsTo(w, "INITIATED") \ Internal(DepositsTo(w, "INITIATED")) =
            RowsIn(ProviderDepositRows(w))
    BY <1>1 DEF DepositsTo, Internal, RowsIn, DepositRows, ProviderDepositRows
  <1>5. Internal(WithdrawalsFrom(w, "INITIATED")) = RowsIn(InternalWithdrawalRows(w))
    BY <1>1 DEF WithdrawalsFrom, Internal, RowsIn, WithdrawalRows, InternalWithdrawalRows
  <1> QED
    BY <1>2, <1>3, <1>4, <1>5

\* The sets of rows are sets of existing rows.
LEMMA RowSetsTyped ==
    ASSUME NEW w \in Wallets
    PROVE  /\ \A status \in {"INITIATED", "SETTLED"} :
                 /\ DepositRows(w, status) \in SUBSET Transaction
                 /\ NoTransaction \notin DepositRows(w, status)
                 /\ WithdrawalRows(w, status) \in SUBSET Transaction
                 /\ NoTransaction \notin WithdrawalRows(w, status)
           /\ TransferInRows(w) \in SUBSET Transaction
           /\ NoTransaction \notin TransferInRows(w)
           /\ TransferOutRows(w) \in SUBSET Transaction
           /\ NoTransaction \notin TransferOutRows(w)
           /\ ProviderDepositRows(w) \in SUBSET Transaction
           /\ NoTransaction \notin ProviderDepositRows(w)
           /\ InternalWithdrawalRows(w) \in SUBSET Transaction
           /\ NoTransaction \notin InternalWithdrawalRows(w)
  BY DEF DepositRows, WithdrawalRows, TransferInRows, TransferOutRows,
         ProviderDepositRows, InternalWithdrawalRows, NoTransaction

\* A part is an amount.
LEMMA PartTyped ==
    ASSUME NEW R, NEW row \in Transaction
    PROVE  Part(R, row) \in Nat
  BY DEF Part, Transaction

\* A step moves each balance by what the row of k says before and after.
BalancesMove(k) ==
    \A w \in Wallets :
        /\ wallet'[w].pending =
              wallet[w].pending - PendingPart(w, txn[k]) + PendingPart(w, txn'[k])
        /\ wallet'[w].locked =
              wallet[w].locked - LockedPart(w, txn[k]) + LockedPart(w, txn'[k])
        /\ wallet'[w].available =
              wallet[w].available - AvailablePart(w, txn[k]) + AvailablePart(w, txn'[k])

LEMMA BalancesFollowRows ==
    ASSUME IndInv, IndInv', IsFiniteSet(Taken), NEW k \in Keys, WritesOnly(k),
           BalancesMove(k), BalancesByRows
    PROVE  BalancesByRows'
  <1> SUFFICES ASSUME NEW w \in Wallets
      PROVE /\ wallet'[w].pending = AmountOf(RowsIn(DepositRows(w, "INITIATED")))'
            /\ wallet'[w].locked = AmountOf(RowsIn(WithdrawalRows(w, "INITIATED")))'
            /\ wallet'[w].available =
                  Opening[w] + AmountOf(RowsIn(DepositRows(w, "SETTLED")))'
                  + AmountOf(RowsIn(TransferInRows(w)))'
                  - AmountOf(RowsIn(TransferOutRows(w)))'
                  - AmountOf(RowsIn(WithdrawalRows(w, "SETTLED")))'
                  - AmountOf(RowsIn(WithdrawalRows(w, "INITIATED")))'
    BY DEF BalancesByRows
  <1>1. txn[k] \in Transaction /\ txn'[k] \in Transaction
    BY DEF IndInv, TypeOK, StoreTypeOK
  <1> DEFINE di == DepositRows(w, "INITIATED")
             ds == DepositRows(w, "SETTLED")
             wi == WithdrawalRows(w, "INITIATED")
             wd == WithdrawalRows(w, "SETTLED")
             ti == TransferInRows(w)
             to == TransferOutRows(w)
  <1>2. \A R \in {di, ds, wi, wd, ti, to} :
            R \in SUBSET Transaction /\ NoTransaction \notin R
    BY RowSetsTyped
  <1>3. /\ wallet'[w].pending = wallet[w].pending - Part(di, txn[k]) + Part(di, txn'[k])
        /\ wallet'[w].locked = wallet[w].locked - Part(wi, txn[k]) + Part(wi, txn'[k])
        /\ wallet'[w].available = wallet[w].available
              - (Part(ds, txn[k]) + Part(ti, txn[k]) - Part(to, txn[k])
                 - Part(wd, txn[k]) - Part(wi, txn[k]))
              + (Part(ds, txn'[k]) + Part(ti, txn'[k]) - Part(to, txn'[k])
                 - Part(wd, txn'[k]) - Part(wi, txn'[k]))
    BY DEF BalancesMove, PendingPart, LockedPart, AvailablePart
  <1>4. /\ wallet[w].pending = AmountOf(RowsIn(di))
        /\ wallet[w].locked = AmountOf(RowsIn(wi))
        /\ wallet[w].available =
              Opening[w] + AmountOf(RowsIn(ds)) + AmountOf(RowsIn(ti))
              - AmountOf(RowsIn(to)) - AmountOf(RowsIn(wd)) - AmountOf(RowsIn(wi))
    BY DEF BalancesByRows
  <1>5. Opening[w] \in Int
    BY StoreAssumption
  <1> HIDE DEF di, ds, wi, wd, ti, to
  <1>6. \A R \in {di, ds, wi, wd, ti, to} :
            /\ Part(R, txn[k]) \in Int /\ Part(R, txn'[k]) \in Int
            /\ AmountOf(RowsIn(R)) \in Int
            /\ AmountOf(RowsIn(R))' =
                  AmountOf(RowsIn(R)) - Part(R, txn[k]) + Part(R, txn'[k])
    BY <1>1, <1>2, RowsMove, PartTyped
  <1>7. /\ wallet'[w].pending = AmountOf(RowsIn(di))'
        /\ wallet'[w].locked = AmountOf(RowsIn(wi))'
        /\ wallet'[w].available =
              Opening[w] + AmountOf(RowsIn(ds))' + AmountOf(RowsIn(ti))'
              - AmountOf(RowsIn(to))' - AmountOf(RowsIn(wd))' - AmountOf(RowsIn(wi))'
    BY <1>3, <1>4, <1>5, <1>6
  <1> QED
    BY <1>7 DEF di, ds, wi, wd, ti, to

-----------------------------------------------------------------------------
(* The ledger's total *)

\* What the entries of a row add to wallet w.
PostedPart(w, row) ==
    IF row.type = "TRANSFER"
    THEN (IF row.receiver = w THEN row.amount ELSE 0)
         - (IF row.sender = w THEN row.amount ELSE 0)
    ELSE IF ~ HasEntry(row) THEN 0
    ELSE IF row.type = "DEPOSIT"
    THEN IF row.receiver = w THEN row.amount ELSE 0
    ELSE IF row.sender = w THEN 0 - row.amount ELSE 0

\* The rows that exist, and the one that stands for none, as far as the
\* ledger is concerned.
Accountable(row) ==
    /\ row.type = "NONE" => ~ HasEntry(row)
    /\ row.type \in {"DEPOSIT", "WITHDRAWAL"} => row.status # "ABSENT"
    /\ row.type \in {"DEPOSIT", "WITHDRAWAL"} /\ row.provider = "INTERNAL" =>
          row.status = "INITIATED"

LEMMA RowsAccountable ==
    /\ IndInv /\ InternalStaysOpen => \A k \in Keys : Accountable(txn[k])
    /\ IndInv' /\ InternalStaysOpen' => \A k \in Keys : Accountable(txn'[k])
  BY DEF IndInv, TypeOK, StoreTypeOK, RowsWellFormed, InternalStaysOpen, Accountable,
         HasEntry, NoTransaction

LEMMA PostedValue ==
    ASSUME NEW row \in Transaction, NEW entries \in Seq(LedgerEntry), Accountable(row),
           EntriesOf(row, entries), NEW w \in Wallets
    PROVE  /\ PostedPart(w, row) \in Int
           /\ SumFunction([i \in DOMAIN entries |-> Signed(w, entries[i])]) =
                 PostedPart(w, row)
  <1> DEFINE f == [i \in DOMAIN entries |-> Signed(w, entries[i])]
  <1>1. PostedPart(w, row) \in Int
    BY DEF PostedPart, Transaction
  <1>2. row.amount \in Nat
    BY DEF Transaction
  <1>3. CASE row.type = "TRANSFER"
    <2>1. Len(entries) = 2 /\ DOMAIN f = {1, 2}
      BY <1>3 DEF EntriesOf
    <2>2. /\ f[1] = IF row.sender = w THEN 0 - row.amount ELSE 0
          /\ f[2] = IF row.receiver = w THEN row.amount ELSE 0
      BY <1>2, <1>3, <2>1 DEF EntriesOf, Posts, Signed
    <2> HIDE DEF f
    <2>3. SumFunction(f) = f[1] + f[2]
      BY <1>2, <2>1, <2>2, SumOfShort
    <2>4. SumFunction(f) = PostedPart(w, row)
      BY <1>2, <1>3, <2>2, <2>3 DEF PostedPart
    <2> QED
      BY <1>1, <2>4 DEF f
  <1>4. CASE row.type # "TRANSFER" /\ ~ HasEntry(row)
    <2>1. DOMAIN f = {}
      BY <1>4 DEF EntriesOf
    <2>2. PostedPart(w, row) = 0
      BY <1>4 DEF PostedPart
    <2> HIDE DEF f
    <2>3. SumFunction(f) = PostedPart(w, row)
      BY <2>1, <2>2, SumOfShort
    <2> QED
      BY <1>1, <2>3 DEF f
  <1>5. CASE row.type # "TRANSFER" /\ HasEntry(row)
    <2>1. row.type \in {"DEPOSIT", "WITHDRAWAL"}
      BY <1>5 DEF Accountable, Transaction
    <2>2. Len(entries) = 1 /\ DOMAIN f = {1}
      BY <1>5, <2>1 DEF EntriesOf
    <2>3. f[1] = PostedPart(w, row)
      BY <1>2, <1>5, <2>1, <2>2 DEF EntriesOf, Posts, Signed, PostedPart
    <2> HIDE DEF f
    <2>4. SumFunction(f) = PostedPart(w, row)
      BY <1>1, <2>2, <2>3, SumOfShort
    <2> QED
      BY <1>1, <2>4 DEF f
  <1> QED
    BY <1>3, <1>4, <1>5

\* Row by row, the balances are what is posted and what is posted at another
\* time.
LEMMA RowReconciles ==
    ASSUME NEW row \in Transaction, Accountable(row), NEW w \in Wallets
    PROVE  PendingPart(w, row) + LockedPart(w, row) + AvailablePart(w, row) =
              PostedPart(w, row) + Part(ProviderDepositRows(w), row)
              + Part(InternalWithdrawalRows(w), row)
  <1>1. row.amount \in Nat /\ row.type \in {"NONE", "DEPOSIT", "WITHDRAWAL", "TRANSFER"}
        /\ row.status \in {"ABSENT", "INITIATED", "SETTLED", "FAILED"}
    BY DEF Transaction
  <1>2. CASE row.type = "NONE"
    BY <1>1, <1>2 DEF PendingPart, LockedPart, AvailablePart, Part, PostedPart, DepositRows,
       WithdrawalRows, TransferInRows, TransferOutRows, ProviderDepositRows,
       InternalWithdrawalRows, Accountable
  <1>3. CASE row.type = "TRANSFER"
    BY <1>1, <1>3 DEF PendingPart, LockedPart, AvailablePart, Part, PostedPart, DepositRows,
       WithdrawalRows, TransferInRows, TransferOutRows, ProviderDepositRows,
       InternalWithdrawalRows
  <1>4. CASE row.type = "DEPOSIT"
    BY <1>1, <1>4 DEF PendingPart, LockedPart, AvailablePart, Part, PostedPart, DepositRows,
       WithdrawalRows, TransferInRows, TransferOutRows, ProviderDepositRows,
       InternalWithdrawalRows, Accountable, HasEntry
  <1>5. CASE row.type = "WITHDRAWAL"
    BY <1>1, <1>5 DEF PendingPart, LockedPart, AvailablePart, Part, PostedPart, DepositRows,
       WithdrawalRows, TransferInRows, TransferOutRows, ProviderDepositRows,
       InternalWithdrawalRows, Accountable, HasEntry
  <1> QED
    BY <1>1, <1>2, <1>3, <1>4, <1>5

\* The ledger total changes by the entries of the transaction written.
LEMMA LedgerTotalMoves ==
    ASSUME IndInv, IndInv', IsFiniteSet(Taken), InternalStaysOpen, InternalStaysOpen',
           LedgerMatchesRows, LedgerMatchesRows', NEW k \in Keys, WritesOnly(k),
           NEW w \in Wallets
    PROVE  /\ IsFiniteSet(Taken')
           /\ LedgerTotal(w) \in Int
           /\ LedgerTotal(w)' =
                 LedgerTotal(w) - PostedPart(w, txn[k]) + PostedPart(w, txn'[k])
  <1>1. /\ \A j \in Keys : Accountable(txn[j])
        /\ \A j \in Keys : Accountable(txn'[j])
    BY RowsAccountable
  <1>2. /\ \A j \in Keys : txn[j] \in Transaction /\ ledger[j] \in Seq(LedgerEntry)
        /\ \A j \in Keys : txn'[j] \in Transaction /\ ledger'[j] \in Seq(LedgerEntry)
        /\ \A j \in Keys : EntriesOf(txn[j], ledger[j]) /\ EntriesOf(txn'[j], ledger'[j])
    BY DEF IndInv, TypeOK, StoreTypeOK, LedgerMatchesRows
  <1>3. PICK f : f = [j \in Keys |-> Posted(w, j)]
    OBVIOUS
  <1>4. PICK g : g = [j \in Keys |-> Posted(w, j)']
    OBVIOUS
  <1>5. \A j \in Keys : f[j] = PostedPart(w, txn[j]) /\ f[j] \in Int
    <2> SUFFICES ASSUME NEW j \in Keys
                 PROVE  f[j] = PostedPart(w, txn[j]) /\ f[j] \in Int
      OBVIOUS
    <2>1. f[j] = SumFunction([i \in DOMAIN ledger[j] |-> Signed(w, ledger[j][i])])
      BY <1>3 DEF Posted
    <2> QED
      BY <1>1, <1>2, <2>1, PostedValue
  <1>6. \A j \in Keys : g[j] = PostedPart(w, txn'[j]) /\ g[j] \in Int
    <2> SUFFICES ASSUME NEW j \in Keys
                 PROVE  g[j] = PostedPart(w, txn'[j]) /\ g[j] \in Int
      OBVIOUS
    <2>1. g[j] = SumFunction([i \in DOMAIN ledger'[j] |-> Signed(w, ledger'[j][i])])
      BY <1>4 DEF Posted
    <2> QED
      BY <1>1, <1>2, <2>1, PostedValue
  <1>7. PICK D : D = Taken
    OBVIOUS
  <1>8. PICK E : E = Taken'
    OBVIOUS
  <1>9. /\ IsFiniteSet(D) /\ D \subseteq Keys /\ E \subseteq Keys
        /\ D \ {k} = E \ {k}
        /\ \A x \in D \ {k} : f[x] = g[x]
    BY <1>5, <1>6, <1>7, <1>8 DEF Taken, KeyTaken, WritesOnly
  <1>10. /\ IsFiniteSet(E)
         /\ SumFunctionOnSet(f, D) \in Int
         /\ SumFunctionOnSet(g, E) =
               SumFunctionOnSet(f, D) - (IF k \in D THEN f[k] ELSE 0)
                                      + (IF k \in E THEN g[k] ELSE 0)
    <2>1. (\A x \in D : f[x] \in Int) /\ (\A x \in E : g[x] \in Int)
      BY <1>5, <1>6, <1>9
    <2> QED
      BY <1>9, <2>1, SumChange
  <1>11. /\ k \notin D => f[k] = 0
         /\ k \notin E => g[k] = 0
    BY <1>5, <1>6, <1>7, <1>8 DEF Taken, KeyTaken, IndInv, RowsWellFormed, NoTransaction,
       PostedPart, HasEntry
  <1>12. LedgerTotal(w) = SumFunctionOnSet(f, D)
    BY <1>3, <1>7, Zenon DEF LedgerTotal, Taken
  <1>13. LedgerTotal(w)' = SumFunctionOnSet(g, E)
    BY <1>4, <1>8, Zenon DEF LedgerTotal, Taken
  <1>14. /\ f[k] \in Int /\ f[k] = PostedPart(w, txn[k])
         /\ g[k] \in Int /\ g[k] = PostedPart(w, txn'[k])
    BY <1>5, <1>6
  <1>15. SumFunctionOnSet(g, E) = SumFunctionOnSet(f, D) - f[k] + g[k]
    BY <1>10, <1>11, <1>14
  <1> QED
    BY <1>8, <1>10, <1>12, <1>13, <1>14, <1>15

LEMMA LedgerFollowsRows ==
    ASSUME IndInv, IndInv', IsFiniteSet(Taken), InternalStaysOpen, InternalStaysOpen',
           LedgerMatchesRows, LedgerMatchesRows', NEW k \in Keys, WritesOnly(k),
           BalancesMove(k), LedgerByRows
    PROVE  LedgerByRows'
  <1> SUFFICES ASSUME NEW w \in Wallets
      PROVE wallet'[w].available + wallet'[w].locked + wallet'[w].pending =
                Opening[w] + LedgerTotal(w)'
                + AmountOf(RowsIn(ProviderDepositRows(w)))'
                + AmountOf(RowsIn(InternalWithdrawalRows(w)))'
    BY DEF LedgerByRows
  <1>1. txn[k] \in Transaction /\ txn'[k] \in Transaction
    BY DEF IndInv, TypeOK, StoreTypeOK
  <1>2. Accountable(txn[k]) /\ Accountable(txn'[k])
    BY RowsAccountable
  <1>3. \A R \in {ProviderDepositRows(w), InternalWithdrawalRows(w)} :
            /\ Part(R, txn[k]) \in Int /\ Part(R, txn'[k]) \in Int
            /\ AmountOf(RowsIn(R)) \in Int
            /\ AmountOf(RowsIn(R))' =
                  AmountOf(RowsIn(R)) - Part(R, txn[k]) + Part(R, txn'[k])
    <2> SUFFICES ASSUME NEW R \in {ProviderDepositRows(w), InternalWithdrawalRows(w)}
        PROVE  /\ Part(R, txn[k]) \in Int /\ Part(R, txn'[k]) \in Int
               /\ AmountOf(RowsIn(R)) \in Int
               /\ AmountOf(RowsIn(R))' =
                     AmountOf(RowsIn(R)) - Part(R, txn[k]) + Part(R, txn'[k])
      OBVIOUS
    <2>1. R \in SUBSET Transaction /\ NoTransaction \notin R
      BY RowSetsTyped
    <2> QED
      BY <1>1, <2>1, RowsMove, PartTyped
  <1>4. /\ LedgerTotal(w) \in Int
        /\ LedgerTotal(w)' =
              LedgerTotal(w) - PostedPart(w, txn[k]) + PostedPart(w, txn'[k])
    BY LedgerTotalMoves
  <1>5. ASSUME NEW row \in Transaction
        PROVE  /\ PendingPart(w, row) \in Int
               /\ LockedPart(w, row) \in Int
               /\ AvailablePart(w, row) \in Int
               /\ PostedPart(w, row) \in Int
    <2>1. \A R : Part(R, row) \in Int
      BY PartTyped
    <2>2. PostedPart(w, row) \in Int
      BY DEF PostedPart, Transaction
    <2> QED
      BY <2>1, <2>2 DEF PendingPart, LockedPart, AvailablePart
  <1>6. /\ PendingPart(w, txn[k]) + LockedPart(w, txn[k]) + AvailablePart(w, txn[k]) =
              PostedPart(w, txn[k]) + Part(ProviderDepositRows(w), txn[k])
              + Part(InternalWithdrawalRows(w), txn[k])
        /\ PendingPart(w, txn'[k]) + LockedPart(w, txn'[k]) + AvailablePart(w, txn'[k]) =
              PostedPart(w, txn'[k]) + Part(ProviderDepositRows(w), txn'[k])
              + Part(InternalWithdrawalRows(w), txn'[k])
    BY <1>1, <1>2, RowReconciles
  <1>7. wallet[w].available \in Int /\ wallet[w].locked \in Int /\ wallet[w].pending \in Int
    BY DEF IndInv, TypeOK, StoreTypeOK, Balances
  <1>8. /\ wallet'[w].pending =
              wallet[w].pending - PendingPart(w, txn[k]) + PendingPart(w, txn'[k])
        /\ wallet'[w].locked =
              wallet[w].locked - LockedPart(w, txn[k]) + LockedPart(w, txn'[k])
        /\ wallet'[w].available =
              wallet[w].available - AvailablePart(w, txn[k]) + AvailablePart(w, txn'[k])
    BY DEF BalancesMove
  <1>9. /\ wallet[w].available + wallet[w].locked + wallet[w].pending =
              Opening[w] + LedgerTotal(w) + AmountOf(RowsIn(ProviderDepositRows(w)))
              + AmountOf(RowsIn(InternalWithdrawalRows(w)))
        /\ Opening[w] \in Int
    BY StoreAssumption DEF LedgerByRows
  <1>10. /\ PendingPart(w, txn[k]) \in Int /\ PendingPart(w, txn'[k]) \in Int
         /\ LockedPart(w, txn[k]) \in Int /\ LockedPart(w, txn'[k]) \in Int
         /\ AvailablePart(w, txn[k]) \in Int /\ AvailablePart(w, txn'[k]) \in Int
         /\ PostedPart(w, txn[k]) \in Int /\ PostedPart(w, txn'[k]) \in Int
    BY <1>1, <1>5
  <1>11. PICK P : P = ProviderDepositRows(w)
    OBVIOUS
  <1>12. PICK I : I = InternalWithdrawalRows(w)
    OBVIOUS
  <1>13. /\ Part(P, txn[k]) \in Int /\ Part(P, txn'[k]) \in Int
         /\ Part(I, txn[k]) \in Int /\ Part(I, txn'[k]) \in Int
         /\ AmountOf(RowsIn(P)) \in Int /\ AmountOf(RowsIn(I)) \in Int
         /\ AmountOf(RowsIn(P))' =
               AmountOf(RowsIn(P)) - Part(P, txn[k]) + Part(P, txn'[k])
         /\ AmountOf(RowsIn(I))' =
               AmountOf(RowsIn(I)) - Part(I, txn[k]) + Part(I, txn'[k])
    BY <1>3, <1>11, <1>12
  <1>14. /\ PendingPart(w, txn[k]) + LockedPart(w, txn[k]) + AvailablePart(w, txn[k]) =
               PostedPart(w, txn[k]) + Part(P, txn[k]) + Part(I, txn[k])
         /\ PendingPart(w, txn'[k]) + LockedPart(w, txn'[k]) + AvailablePart(w, txn'[k]) =
               PostedPart(w, txn'[k]) + Part(P, txn'[k]) + Part(I, txn'[k])
         /\ wallet[w].available + wallet[w].locked + wallet[w].pending =
               Opening[w] + LedgerTotal(w) + AmountOf(RowsIn(P)) + AmountOf(RowsIn(I))
    BY <1>6, <1>9, <1>11, <1>12, Zenon
  <1>15. PICK old \in Int :
             /\ old = PendingPart(w, txn[k]) + LockedPart(w, txn[k]) + AvailablePart(w, txn[k])
             /\ old = PostedPart(w, txn[k]) + Part(P, txn[k]) + Part(I, txn[k])
    BY <1>10, <1>14
  <1>16. PICK new \in Int :
             /\ new = PendingPart(w, txn'[k]) + LockedPart(w, txn'[k]) + AvailablePart(w, txn'[k])
             /\ new = PostedPart(w, txn'[k]) + Part(P, txn'[k]) + Part(I, txn'[k])
    BY <1>10, <1>14
  <1>17. wallet'[w].available + wallet'[w].locked + wallet'[w].pending =
             (wallet[w].available + wallet[w].locked + wallet[w].pending) - old + new
    BY <1>7, <1>8, <1>10, <1>15, <1>16
  <1>18. Opening[w] + LedgerTotal(w)' + AmountOf(RowsIn(P))' + AmountOf(RowsIn(I))' =
             (Opening[w] + LedgerTotal(w) + AmountOf(RowsIn(P)) + AmountOf(RowsIn(I)))
             - old + new
    BY <1>4, <1>9, <1>10, <1>13, <1>15, <1>16
  <1>19. wallet'[w].available + wallet'[w].locked + wallet'[w].pending =
             Opening[w] + LedgerTotal(w)' + AmountOf(RowsIn(P))' + AmountOf(RowsIn(I))'
    BY <1>14, <1>17, <1>18
  <1> QED
    BY <1>11, <1>12, <1>19

-----------------------------------------------------------------------------
(* The writes move the balances as the rows say *)

\* The three columns of c are those of b, changed by these amounts.
Changed(b, c, available, locked, pending) ==
    /\ c.available = b.available + available
    /\ c.locked = b.locked + locked
    /\ c.pending = b.pending + pending

\* x if the wallet is the one written.
At(v, w, x) == IF v = w THEN x ELSE 0

\* The repository's updates, column by column.
LEMMA SingleColumns ==
    ASSUME NEW ws \in [Wallets -> Balances], NEW w \in Wallets, NEW a \in Nat,
           NEW v \in Wallets
    PROVE  /\ Changed(ws[v], CreditAvailable(ws, w, a)[v], At(v, w, a), 0, 0)
           /\ Changed(ws[v], DebitAvailable(ws, w, a)[v], 0 - At(v, w, a), 0, 0)
           /\ Changed(ws[v], CreditLocked(ws, w, a)[v], 0, At(v, w, a), 0)
           /\ Changed(ws[v], SettleLocked(ws, w, a)[v], 0, 0 - At(v, w, a), 0)
           /\ Changed(ws[v], CreditPending(ws, w, a)[v], 0, 0, At(v, w, a))
           /\ Changed(ws[v], ReversePending(ws, w, a)[v], 0, 0, 0 - At(v, w, a))
  BY DEF Balances, CreditAvailable, DebitAvailable, CreditLocked, CreditPending,
         SettleLocked, ReversePending, Changed, At

LEMMA Columns ==
    ASSUME NEW ws \in [Wallets -> Balances], NEW w \in Wallets, NEW a \in Nat,
           NEW v \in Wallets
    PROVE  /\ Changed(ws[v], DebitAvailableAndLock(ws, w, a)[v],
                      0 - At(v, w, a), At(v, w, a), 0)
           /\ Changed(ws[v], SettlePending(ws, w, a)[v], At(v, w, a), 0, 0 - At(v, w, a))
           /\ Changed(ws[v], ReverseLocked(ws, w, a)[v], At(v, w, a), 0 - At(v, w, a), 0)
           /\ \A u \in Wallets :
                 Changed(ws[v], CreditAvailable(DebitAvailable(ws, w, a), u, a)[v],
                         At(v, u, a) - At(v, w, a), 0, 0)
  <1>1. \A u \in Wallets : At(v, u, a) \in Int
    BY DEF At
  <1>2. /\ ws[v].available \in Int /\ ws[v].locked \in Int /\ ws[v].pending \in Int
    BY DEF Balances
  <1>3. PICK d \in [Wallets -> Balances] : d = DebitAvailable(ws, w, a)
    BY ColumnUpdatesTyped
  <1>4. PICK l \in [Wallets -> Balances] : l = SettleLocked(ws, w, a)
    BY ColumnUpdatesTyped
  <1>5. PICK p \in [Wallets -> Balances] : p = ReversePending(ws, w, a)
    BY ColumnUpdatesTyped
  <1>6. /\ Changed(ws[v], d[v], 0 - At(v, w, a), 0, 0)
        /\ Changed(ws[v], l[v], 0, 0 - At(v, w, a), 0)
        /\ Changed(ws[v], p[v], 0, 0, 0 - At(v, w, a))
    BY <1>3, <1>4, <1>5, SingleColumns
  <1>7. /\ Changed(d[v], CreditLocked(d, w, a)[v], 0, At(v, w, a), 0)
        /\ Changed(p[v], CreditAvailable(p, w, a)[v], At(v, w, a), 0, 0)
        /\ Changed(l[v], CreditAvailable(l, w, a)[v], At(v, w, a), 0, 0)
        /\ \A u \in Wallets : Changed(d[v], CreditAvailable(d, u, a)[v], At(v, u, a), 0, 0)
    BY SingleColumns
  <1>8. /\ Changed(ws[v], CreditLocked(d, w, a)[v], 0 - At(v, w, a), At(v, w, a), 0)
        /\ Changed(ws[v], CreditAvailable(p, w, a)[v], At(v, w, a), 0, 0 - At(v, w, a))
        /\ Changed(ws[v], CreditAvailable(l, w, a)[v], At(v, w, a), 0 - At(v, w, a), 0)
    <2>1. PICK x \in Int : x = At(v, w, a)
      BY <1>1
    <2>2. /\ Changed(d[v], CreditLocked(d, w, a)[v], 0, x, 0)
          /\ Changed(p[v], CreditAvailable(p, w, a)[v], x, 0, 0)
          /\ Changed(l[v], CreditAvailable(l, w, a)[v], x, 0, 0)
          /\ Changed(ws[v], d[v], 0 - x, 0, 0)
          /\ Changed(ws[v], l[v], 0, 0 - x, 0)
          /\ Changed(ws[v], p[v], 0, 0, 0 - x)
      BY <1>6, <1>7, <2>1
    <2>3. /\ Changed(ws[v], CreditLocked(d, w, a)[v], 0 - x, x, 0)
          /\ Changed(ws[v], CreditAvailable(p, w, a)[v], x, 0, 0 - x)
          /\ Changed(ws[v], CreditAvailable(l, w, a)[v], x, 0 - x, 0)
      BY <1>2, <2>2 DEF Changed
    <2> QED
      BY <2>1, <2>3
  <1>9. \A u \in Wallets :
            Changed(ws[v], CreditAvailable(d, u, a)[v], At(v, u, a) - At(v, w, a), 0, 0)
    <2> SUFFICES ASSUME NEW u \in Wallets
        PROVE Changed(ws[v], CreditAvailable(d, u, a)[v], At(v, u, a) - At(v, w, a), 0, 0)
      OBVIOUS
    <2>1. PICK x \in Int, y \in Int : x = At(v, w, a) /\ y = At(v, u, a)
      BY <1>1
    <2>2. /\ Changed(ws[v], d[v], 0 - x, 0, 0)
          /\ Changed(d[v], CreditAvailable(d, u, a)[v], y, 0, 0)
      BY <1>6, <1>7, <2>1
    <2>3. Changed(ws[v], CreditAvailable(d, u, a)[v], y - x, 0, 0)
      BY <1>2, <2>2 DEF Changed
    <2> QED
      BY <2>1, <2>3
  <1> QED
    BY <1>3, <1>4, <1>5, <1>8, <1>9 DEF DebitAvailableAndLock, SettlePending, ReverseLocked

\* What each row adds to the balances of wallet v.
LEMMA PartsOfRows ==
    ASSUME NEW w \in Wallets, NEW u \in Wallets, NEW v \in Wallets, NEW a \in Nat,
           NEW provider \in Providers \union {"INTERNAL"}
    PROVE  /\ PendingPart(v, NoTransaction) = 0
           /\ LockedPart(v, NoTransaction) = 0
           /\ AvailablePart(v, NoTransaction) = 0
           /\ PendingPart(v, DepositRow(w, a, provider)) = At(v, w, a)
           /\ LockedPart(v, DepositRow(w, a, provider)) = 0
           /\ AvailablePart(v, DepositRow(w, a, provider)) = 0
           /\ PendingPart(v, WithdrawalRow(w, a, provider)) = 0
           /\ LockedPart(v, WithdrawalRow(w, a, provider)) = At(v, w, a)
           /\ AvailablePart(v, WithdrawalRow(w, a, provider)) = 0 - At(v, w, a)
           /\ PendingPart(v, TransferRow(w, u, a)) = 0
           /\ LockedPart(v, TransferRow(w, u, a)) = 0
           /\ AvailablePart(v, TransferRow(w, u, a)) = At(v, u, a) - At(v, w, a)
  <1> USE DEF PendingPart, LockedPart, AvailablePart, Part, DepositRows, WithdrawalRows,
              TransferInRows, TransferOutRows, At
  <1>1. /\ PendingPart(v, NoTransaction) = 0
        /\ LockedPart(v, NoTransaction) = 0
        /\ AvailablePart(v, NoTransaction) = 0
    BY DEF NoTransaction
  <1>2. /\ DepositRow(w, a, provider) \in Transaction
        /\ WithdrawalRow(w, a, provider) \in Transaction
        /\ TransferRow(w, u, a) \in Transaction
    BY NewRowsTyped
  <1>3. /\ PendingPart(v, DepositRow(w, a, provider)) = At(v, w, a)
        /\ LockedPart(v, DepositRow(w, a, provider)) = 0
        /\ AvailablePart(v, DepositRow(w, a, provider)) = 0
    BY <1>2 DEF DepositRow
  <1>4. /\ PendingPart(v, WithdrawalRow(w, a, provider)) = 0
        /\ LockedPart(v, WithdrawalRow(w, a, provider)) = At(v, w, a)
        /\ AvailablePart(v, WithdrawalRow(w, a, provider)) = 0 - At(v, w, a)
    BY <1>2 DEF WithdrawalRow
  <1>5. /\ PendingPart(v, TransferRow(w, u, a)) = 0
        /\ LockedPart(v, TransferRow(w, u, a)) = 0
        /\ AvailablePart(v, TransferRow(w, u, a)) = At(v, u, a) - At(v, w, a)
    BY <1>2 DEF TransferRow
  <1> QED
    BY <1>1, <1>3, <1>4, <1>5

\* An inserted row moves the balances by its parts.
LEMMA InsertMoves ==
    ASSUME IndInv, NEW k \in Keys, NEW row \in Transaction, NEW entries,
           txn[k].status = "ABSENT", txn' = [txn EXCEPT ![k] = row],
           ledger' = [ledger EXCEPT ![k] = entries],
           \A v \in Wallets : Changed(wallet[v], wallet'[v], AvailablePart(v, row),
                                      LockedPart(v, row), PendingPart(v, row))
    PROVE  /\ WritesOnly(k) /\ BalancesMove(k)
           /\ txn[k] = NoTransaction /\ txn'[k] = row /\ ledger'[k] = entries
  <1>1. WritesOnly(k) /\ txn'[k] = row /\ ledger'[k] = entries
    BY DEF WritesOnly, IndInv, TypeOK, StoreTypeOK
  <1>2. txn[k] = NoTransaction
    BY DEF IndInv, RowsWellFormed
  <1>3. BalancesMove(k)
    <2> SUFFICES ASSUME NEW v \in Wallets
        PROVE /\ wallet'[v].pending =
                    wallet[v].pending - PendingPart(v, txn[k]) + PendingPart(v, txn'[k])
              /\ wallet'[v].locked =
                    wallet[v].locked - LockedPart(v, txn[k]) + LockedPart(v, txn'[k])
              /\ wallet'[v].available =
                    wallet[v].available - AvailablePart(v, txn[k]) + AvailablePart(v, txn'[k])
      BY DEF BalancesMove
    <2>1. /\ PendingPart(v, txn[k]) = 0
          /\ LockedPart(v, txn[k]) = 0
          /\ AvailablePart(v, txn[k]) = 0
      BY <1>2 DEF PendingPart, LockedPart, AvailablePart, Part, DepositRows,
         WithdrawalRows, TransferInRows, TransferOutRows, NoTransaction
    <2>2. wallet[v].available \in Int /\ wallet[v].locked \in Int /\ wallet[v].pending \in Int
      BY DEF IndInv, TypeOK, StoreTypeOK, Balances
    <2>3. Changed(wallet[v], wallet'[v], AvailablePart(v, txn'[k]),
                  LockedPart(v, txn'[k]), PendingPart(v, txn'[k]))
      BY <1>1
    <2> QED
      BY <2>1, <2>2, <2>3 DEF Changed
  <1> QED
    BY <1>1, <1>2, <1>3

\* Every entry of k reports the balance the step leaves.
ReportsBalances(k) ==
    \A i \in DOMAIN ledger'[k] :
        ledger'[k][i].balanceAfter = ReportedBalance(txn'[k], wallet'[ledger'[k][i].wallet])

\* A row a handler inserts is open or a transfer, with the entries it must
\* have.
InsertsAccountably(k) ==
    /\ WritesOnly(k)
    /\ BalancesMove(k)
    /\ txn[k] = NoTransaction
    /\ txn'[k].type \in {"DEPOSIT", "WITHDRAWAL"} => txn'[k].status = "INITIATED"
    /\ OneEnded(txn'[k])
    /\ EntriesOf(txn'[k], ledger'[k])
    /\ ReportsBalances(k)

LEMMA CommitMoves ==
    ASSUME IndInv, NEW r \in Reqs, Commits(r)
    PROVE  input[r].key \in Keys /\ InsertsAccountably(input[r].key)
  <1>1. PICK k, w, a, provider, u :
            /\ k = input[r].key /\ w = input[r].user /\ a = input[r].amount
            /\ provider = input[r].provider /\ u = input[r].peer
    OBVIOUS
  <1>2. Locked(r)
    BY DEF Commits, Deposit, Withdraw, Transfer, ConfirmDeposit, CreatePayout, Commit
  <1>3. /\ k \in Keys /\ w \in Wallets /\ a \in Nat
        /\ provider \in Providers \union {"INTERNAL"}
        /\ input[r] \in Inputs
        /\ input[r].op = "transfer" => u \in Wallets
    BY <1>1, <1>2, LockedCall
  <1>4. wallet \in [Wallets -> Balances] /\ "INTERNAL" \in Providers \union {"INTERNAL"}
    BY DEF IndInv, TypeOK, StoreTypeOK
  <1>5. CASE Deposit(r)
    <2>0. PICK e : e = Entry(w, "CREDIT", a, CreditPending(wallet, w, a)[w].pending)
      OBVIOUS
    <2>1. /\ wallet' = CreditPending(wallet, w, a)
          /\ txn[k].status = "ABSENT"
          /\ txn' = [txn EXCEPT ![k] = DepositRow(w, a, "INTERNAL")]
          /\ ledger' = [ledger EXCEPT ![k] = <<e>>]
          /\ Posts(e, w, "CREDIT", a)
      <3>1. /\ wallet' = CreditPending(wallet, w, a)
            /\ CreateTransaction(k, DepositRow(w, a, "INTERNAL"), <<e>>, "DEPOSIT_INITIATED")
        BY <1>1, <1>5, <2>0 DEF Deposit, Commit
      <3>2. Posts(e, w, "CREDIT", a)
        BY <2>0 DEF Posts, Entry
      <3> QED
        BY <3>1, <3>2 DEF CreateTransaction, KeyTaken
    <2>2. \A v \in Wallets :
              Changed(wallet[v], wallet'[v], AvailablePart(v, DepositRow(w, a, "INTERNAL")),
                      LockedPart(v, DepositRow(w, a, "INTERNAL")),
                      PendingPart(v, DepositRow(w, a, "INTERNAL")))
      BY <1>3, <1>4, <2>1, SingleColumns, PartsOfRows
    <2>3. /\ WritesOnly(k) /\ BalancesMove(k) /\ txn[k] = NoTransaction
          /\ txn'[k] = DepositRow(w, a, "INTERNAL") /\ ledger'[k] = <<e>>
      BY <1>3, <1>4, <2>1, <2>2, InsertMoves, NewRowsTyped
    <2>4. EntriesOf(DepositRow(w, a, "INTERNAL"), <<e>>)
      BY <2>1 DEF EntriesOf, DepositRow, HasEntry
    <2>5. e.wallet = w /\ e.balanceAfter = wallet'[w].pending
      BY <2>0, <2>1 DEF Entry
    <2>6. ReportsBalances(k)
      BY <2>3, <2>5 DEF ReportsBalances, ReportedBalance, DepositRow
    <2> QED
      BY <1>1, <1>3, <2>3, <2>4, <2>6 DEF InsertsAccountably, OneEnded, DepositRow
  <1>6. CASE Withdraw(r)
    <2>0. PICK e : e = Entry(w, "DEBIT", a, DebitAvailableAndLock(wallet, w, a)[w].locked)
      OBVIOUS
    <2>1. /\ wallet' = DebitAvailableAndLock(wallet, w, a)
          /\ txn[k].status = "ABSENT"
          /\ txn' = [txn EXCEPT ![k] = WithdrawalRow(w, a, "INTERNAL")]
          /\ ledger' = [ledger EXCEPT ![k] = <<e>>]
          /\ Posts(e, w, "DEBIT", a)
      <3>1. /\ wallet' = DebitAvailableAndLock(wallet, w, a)
            /\ CreateTransaction(k, WithdrawalRow(w, a, "INTERNAL"), <<e>>, "WITHDRAWAL_INITIATED")
        BY <1>1, <1>6, <2>0 DEF Withdraw, Commit
      <3>2. Posts(e, w, "DEBIT", a)
        BY <2>0 DEF Posts, Entry
      <3> QED
        BY <3>1, <3>2 DEF CreateTransaction, KeyTaken
    <2>2. \A v \in Wallets :
              Changed(wallet[v], wallet'[v], AvailablePart(v, WithdrawalRow(w, a, "INTERNAL")),
                      LockedPart(v, WithdrawalRow(w, a, "INTERNAL")),
                      PendingPart(v, WithdrawalRow(w, a, "INTERNAL")))
      BY <1>3, <1>4, <2>1, Columns, PartsOfRows
    <2>3. /\ WritesOnly(k) /\ BalancesMove(k) /\ txn[k] = NoTransaction
          /\ txn'[k] = WithdrawalRow(w, a, "INTERNAL") /\ ledger'[k] = <<e>>
      BY <1>3, <1>4, <2>1, <2>2, InsertMoves, NewRowsTyped
    <2>4. EntriesOf(WithdrawalRow(w, a, "INTERNAL"), <<e>>)
      BY <2>1 DEF EntriesOf, WithdrawalRow, HasEntry
    <2>5. e.wallet = w /\ e.balanceAfter = wallet'[w].locked
      BY <2>0, <2>1 DEF Entry
    <2>6. ReportsBalances(k)
      BY <2>3, <2>5 DEF ReportsBalances, ReportedBalance, WithdrawalRow
    <2> QED
      BY <1>1, <1>3, <2>3, <2>4, <2>6 DEF InsertsAccountably, OneEnded, WithdrawalRow
  <1>7. CASE Transfer(r)
    <2> DEFINE ws == CreditAvailable(DebitAvailable(wallet, w, a), u, a)
    <2>0. PICK d, c : /\ d = Entry(w, "DEBIT", a, ws[w].available)
                      /\ c = Entry(u, "CREDIT", a, ws[u].available)
      OBVIOUS
    <2>1. /\ wallet' = ws
          /\ txn[k].status = "ABSENT"
          /\ txn' = [txn EXCEPT ![k] = TransferRow(w, u, a)]
          /\ ledger' = [ledger EXCEPT ![k] = <<d, c>>]
          /\ Posts(d, w, "DEBIT", a) /\ Posts(c, u, "CREDIT", a)
      <3>1. /\ wallet' = ws
            /\ CreateTransaction(k, TransferRow(w, u, a), <<d, c>>, "TRANSFER_SETTLED")
        BY <1>1, <1>7, <2>0 DEF Transfer, Commit
      <3>2. Posts(d, w, "DEBIT", a) /\ Posts(c, u, "CREDIT", a)
        BY <2>0 DEF Posts, Entry
      <3> QED
        BY <3>1, <3>2 DEF CreateTransaction, KeyTaken
    <2>2. u \in Wallets
      BY <1>3, <1>7 DEF Transfer, Commit
    <2>3. \A v \in Wallets :
              Changed(wallet[v], wallet'[v], AvailablePart(v, TransferRow(w, u, a)),
                      LockedPart(v, TransferRow(w, u, a)), PendingPart(v, TransferRow(w, u, a)))
      <3> SUFFICES ASSUME NEW v \in Wallets
          PROVE Changed(wallet[v], wallet'[v], AvailablePart(v, TransferRow(w, u, a)),
                        LockedPart(v, TransferRow(w, u, a)), PendingPart(v, TransferRow(w, u, a)))
        OBVIOUS
      <3>1. Changed(wallet[v], ws[v], At(v, u, a) - At(v, w, a), 0, 0)
        BY <1>3, <1>4, <2>2, Columns
      <3>2. /\ PendingPart(v, TransferRow(w, u, a)) = 0
            /\ LockedPart(v, TransferRow(w, u, a)) = 0
            /\ AvailablePart(v, TransferRow(w, u, a)) = At(v, u, a) - At(v, w, a)
        BY <1>3, <1>4, <2>2, PartsOfRows
      <3> HIDE DEF ws
      <3> QED
        BY <2>1, <3>1, <3>2
    <2>4. /\ WritesOnly(k) /\ BalancesMove(k) /\ txn[k] = NoTransaction
          /\ txn'[k] = TransferRow(w, u, a) /\ ledger'[k] = <<d, c>>
      BY <1>3, <1>4, <2>1, <2>2, <2>3, InsertMoves, NewRowsTyped
    <2>5. EntriesOf(TransferRow(w, u, a), <<d, c>>)
      BY <2>1 DEF EntriesOf, TransferRow, HasEntry
    <2>6. /\ d.wallet = w /\ d.balanceAfter = wallet'[w].available
          /\ c.wallet = u /\ c.balanceAfter = wallet'[u].available
      BY <2>0, <2>1 DEF Entry
    <2> HIDE DEF ws
    <2>7. ReportsBalances(k)
      BY <2>4, <2>6 DEF ReportsBalances, ReportedBalance, TransferRow
    <2> QED
      BY <1>1, <1>3, <2>4, <2>5, <2>7 DEF InsertsAccountably, OneEnded, TransferRow
  <1>8. CASE ConfirmDeposit(r) \/ CreatePayout(r)
    <2>1. provider \in Providers
      BY <1>1, <1>3, <1>8, RequestAssumption DEF ConfirmDeposit, CreatePayout, Commit
    <2>2. PICK row :
                /\ txn[k].status = "ABSENT"
                /\ txn' = [txn EXCEPT ![k] = row]
                /\ ledger' = [ledger EXCEPT ![k] = <<>>]
                /\ \/ /\ row = DepositRow(w, a, provider)
                      /\ wallet' = CreditPending(wallet, w, a)
                   \/ /\ row = WithdrawalRow(w, a, provider)
                      /\ wallet' = DebitAvailableAndLock(wallet, w, a)
      BY <1>1, <1>8 DEF ConfirmDeposit, CreatePayout, Commit, CreateTransaction, KeyTaken
    <2>3. \A v \in Wallets :
              Changed(wallet[v], wallet'[v], AvailablePart(v, row), LockedPart(v, row),
                      PendingPart(v, row))
      BY <1>3, <1>4, <2>2, SingleColumns, Columns, PartsOfRows
    <2>4. /\ WritesOnly(k) /\ BalancesMove(k) /\ txn[k] = NoTransaction
          /\ txn'[k] = row /\ ledger'[k] = <<>>
      BY <1>3, <2>2, <2>3, InsertMoves, NewRowsTyped
    <2>5. /\ EntriesOf(row, <<>>)
          /\ row.status = "INITIATED"
          /\ OneEnded(row)
      BY <2>1, <2>2 DEF EntriesOf, DepositRow, WithdrawalRow, HasEntry, Providers, OneEnded
    <2>6. ReportsBalances(k)
      BY <2>4 DEF ReportsBalances
    <2> QED
      BY <1>1, <1>3, <2>4, <2>5, <2>6 DEF InsertsAccountably
  <1> QED
    BY <1>5, <1>6, <1>7, <1>8 DEF Commits

\* What closing a deposit or a withdrawal changes in its parts.
LEMMA PartsOfClosedRow ==
    ASSUME NEW row \in Transaction, row.status = "INITIATED", NEW v \in Wallets,
           NEW status \in {"SETTLED", "FAILED"}, NEW closed,
           closed = [row EXCEPT !.status = status]
    PROVE  /\ row.type = "DEPOSIT" =>
                 /\ PendingPart(v, row) = At(v, row.receiver, row.amount)
                 /\ LockedPart(v, row) = 0 /\ AvailablePart(v, row) = 0
                 /\ PendingPart(v, closed) = 0 /\ LockedPart(v, closed) = 0
                 /\ AvailablePart(v, closed) =
                       IF status = "SETTLED" THEN At(v, row.receiver, row.amount) ELSE 0
           /\ row.type = "WITHDRAWAL" =>
                 /\ LockedPart(v, row) = At(v, row.sender, row.amount)
                 /\ PendingPart(v, row) = 0
                 /\ AvailablePart(v, row) = 0 - At(v, row.sender, row.amount)
                 /\ PendingPart(v, closed) = 0 /\ LockedPart(v, closed) = 0
                 /\ AvailablePart(v, closed) =
                       IF status = "SETTLED" THEN 0 - At(v, row.sender, row.amount) ELSE 0
  <1>1. /\ closed \in Transaction
        /\ closed.type = row.type /\ closed.amount = row.amount
        /\ closed.sender = row.sender /\ closed.receiver = row.receiver
        /\ closed.status = status
        /\ row.amount \in Nat
    BY DEF Transaction
  <1>2. CASE row.type = "DEPOSIT"
    <2>1. /\ row \in DepositRows(v, "INITIATED") <=> v = row.receiver
          /\ row \notin DepositRows(v, "SETTLED")
          /\ closed \notin DepositRows(v, "INITIATED")
          /\ closed \in DepositRows(v, "SETTLED") <=> status = "SETTLED" /\ v = row.receiver
      BY <1>1, <1>2 DEF DepositRows
    <2>2. \A q \in {"INITIATED", "SETTLED"} :
              row \notin WithdrawalRows(v, q) /\ closed \notin WithdrawalRows(v, q)
      BY <1>1, <1>2 DEF WithdrawalRows
    <2>3. /\ row \notin TransferInRows(v) /\ row \notin TransferOutRows(v)
          /\ closed \notin TransferInRows(v) /\ closed \notin TransferOutRows(v)
      BY <1>1, <1>2 DEF TransferInRows, TransferOutRows
    <2> QED
      BY <1>1, <1>2, <2>1, <2>2, <2>3
         DEF PendingPart, LockedPart, AvailablePart, Part, At
  <1>3. CASE row.type = "WITHDRAWAL"
    <2>1. /\ row \in WithdrawalRows(v, "INITIATED") <=> v = row.sender
          /\ row \notin WithdrawalRows(v, "SETTLED")
          /\ closed \notin WithdrawalRows(v, "INITIATED")
          /\ closed \in WithdrawalRows(v, "SETTLED") <=> status = "SETTLED" /\ v = row.sender
      BY <1>1, <1>3 DEF WithdrawalRows
    <2>2. \A q \in {"INITIATED", "SETTLED"} :
              row \notin DepositRows(v, q) /\ closed \notin DepositRows(v, q)
      BY <1>1, <1>3 DEF DepositRows
    <2>3. /\ row \notin TransferInRows(v) /\ row \notin TransferOutRows(v)
          /\ closed \notin TransferInRows(v) /\ closed \notin TransferOutRows(v)
      BY <1>1, <1>3 DEF TransferInRows, TransferOutRows
    <2> QED
      BY <1>1, <1>3, <2>1, <2>2, <2>3
         DEF PendingPart, LockedPart, AvailablePart, Part, At
  <1> QED
    BY <1>2, <1>3

\* A closed row was a provider's and open, and has the entries it must have.
ClosesAccountably(k) ==
    /\ WritesOnly(k)
    /\ BalancesMove(k)
    /\ txn[k].status = "INITIATED"
    /\ txn[k].provider \in Providers
    /\ txn'[k].provider = txn[k].provider /\ txn'[k].type = txn[k].type
    /\ txn'[k].sender = txn[k].sender /\ txn'[k].receiver = txn[k].receiver
    /\ txn'[k].status \in {"SETTLED", "FAILED"}
    /\ EntriesOf(txn'[k], ledger'[k])
    /\ ReportsBalances(k)

LEMMA CloseMoves ==
    ASSUME IndInv, InternalStaysOpen, LedgerMatchesRows, NEW p \in Procs,
           Settle(p) \/ Fail(p)
    PROVE  event[p] \in Keys /\ ClosesAccountably(event[p])
  <1>1. PICK k : k = event[p]
    OBVIOUS
  <1>2. PICK row : row = txn[k]
    OBVIOUS
  <1>3. k \in Keys /\ row.status = "INITIATED"
    BY <1>1, <1>2, CloseClosesOpenTransaction
  <1>4. ppc[p] = "answered" /\ k \in batch[p] /\ row.provider \in Providers
    BY <1>1, <1>2 DEF Settle, Fail, IndInv, BatchesHoldProviderEvents, InternalStaysOpen
  <1>5. PICK w : w = WalletOf(k)
    OBVIOUS
  <1>6. PICK a : a = row.amount
    OBVIOUS
  <1>7. /\ row \in Transaction
        /\ row.type \in {"DEPOSIT", "WITHDRAWAL"}
        /\ a \in Nat
        /\ w \in Wallets
        /\ row.type = "DEPOSIT" => w = row.receiver
        /\ row.type = "WITHDRAWAL" => w = row.sender
    BY <1>2, <1>4, <1>5, <1>6, BatchEvent
  <1>a. PICK status \in {"SETTLED", "FAILED"} :
            /\ txn' = [txn EXCEPT ![k].status = status]
            /\ status = "SETTLED" =>
                  /\ wallet' = SettledBalances(k)
                  /\ ledger' = [ledger EXCEPT ![k] = @ \o <<SettlementEntry(k, wallet')>>]
            /\ status = "FAILED" =>
                  /\ wallet' = ReversedBalances(k)
                  /\ ledger' = [ledger EXCEPT ![k] = @ \o <<>>]
    <2>1. CASE Settle(p)
      BY <1>1, <2>1 DEF Settle, Close
    <2>2. CASE Fail(p)
      BY <1>1, <2>2 DEF Fail, Close
    <2> QED
      BY <2>1, <2>2
  <1>b. PICK entries :
            entries = IF status = "SETTLED" THEN <<SettlementEntry(k, wallet')>> ELSE <<>>
    OBVIOUS
  <1>8. /\ txn' = [txn EXCEPT ![k].status = status]
        /\ ledger' = [ledger EXCEPT ![k] = @ \o entries]
        /\ status = "SETTLED" =>
              wallet' = SettledBalances(k) /\ entries = <<SettlementEntry(k, wallet')>>
        /\ status = "FAILED" => wallet' = ReversedBalances(k) /\ entries = <<>>
    BY <1>a, <1>b
  <1>9. PICK closed : closed = [row EXCEPT !.status = status]
    OBVIOUS
  <1>10. /\ WritesOnly(k)
         /\ txn'[k] = closed
         /\ ledger'[k] = ledger[k] \o entries
         /\ closed.provider = row.provider /\ closed.type = row.type
         /\ closed.amount = row.amount /\ closed.status = status
         /\ closed.sender = row.sender /\ closed.receiver = row.receiver
    <2>1. /\ WritesOnly(k)
          /\ txn'[k] = closed
          /\ ledger'[k] = ledger[k] \o entries
      BY <1>2, <1>3, <1>8, <1>9 DEF IndInv, TypeOK, StoreTypeOK, WritesOnly
    <2> QED
      BY <1>7, <1>9, <2>1 DEF Transaction
  <1>11. /\ row.type = "DEPOSIT" /\ status = "SETTLED" => wallet' = SettlePending(wallet, w, a)
         /\ row.type = "WITHDRAWAL" /\ status = "SETTLED" => wallet' = SettleLocked(wallet, w, a)
         /\ row.type = "DEPOSIT" /\ status = "FAILED" => wallet' = ReversePending(wallet, w, a)
         /\ row.type = "WITHDRAWAL" /\ status = "FAILED" => wallet' = ReverseLocked(wallet, w, a)
    BY <1>2, <1>6, <1>7, <1>8 DEF SettledBalances, ReversedBalances
  <1>12. wallet \in [Wallets -> Balances]
    BY DEF IndInv, TypeOK, StoreTypeOK
  <1>13. BalancesMove(k)
    <2> SUFFICES ASSUME NEW v \in Wallets
        PROVE /\ wallet'[v].pending =
                    wallet[v].pending - PendingPart(v, row) + PendingPart(v, closed)
              /\ wallet'[v].locked =
                    wallet[v].locked - LockedPart(v, row) + LockedPart(v, closed)
              /\ wallet'[v].available =
                    wallet[v].available - AvailablePart(v, row) + AvailablePart(v, closed)
      BY <1>2, <1>10 DEF BalancesMove
    <2>1. PICK x \in Int : x = At(v, w, a)
      BY <1>7 DEF At
    <2>2. wallet[v].available \in Int /\ wallet[v].locked \in Int /\ wallet[v].pending \in Int
      BY <1>12 DEF Balances
    <2>3. /\ Changed(wallet[v], SettlePending(wallet, w, a)[v], x, 0, 0 - x)
          /\ Changed(wallet[v], ReverseLocked(wallet, w, a)[v], x, 0 - x, 0)
          /\ Changed(wallet[v], SettleLocked(wallet, w, a)[v], 0, 0 - x, 0)
          /\ Changed(wallet[v], ReversePending(wallet, w, a)[v], 0, 0, 0 - x)
      BY <1>7, <1>12, <2>1, SingleColumns, Columns
    <2>4. CASE row.type = "DEPOSIT"
      <3>1. /\ PendingPart(v, row) = x /\ LockedPart(v, row) = 0 /\ AvailablePart(v, row) = 0
            /\ PendingPart(v, closed) = 0 /\ LockedPart(v, closed) = 0
            /\ AvailablePart(v, closed) = IF status = "SETTLED" THEN x ELSE 0
        BY <1>3, <1>6, <1>7, <1>9, <2>1, <2>4, PartsOfClosedRow
      <3>2. Changed(wallet[v], wallet'[v], IF status = "SETTLED" THEN x ELSE 0, 0, 0 - x)
        BY <1>8, <1>11, <2>3, <2>4
      <3> QED
        BY <2>2, <3>1, <3>2 DEF Changed
    <2>5. CASE row.type = "WITHDRAWAL"
      <3>1. /\ PendingPart(v, row) = 0 /\ LockedPart(v, row) = x
            /\ AvailablePart(v, row) = 0 - x
            /\ PendingPart(v, closed) = 0 /\ LockedPart(v, closed) = 0
            /\ AvailablePart(v, closed) = IF status = "SETTLED" THEN 0 - x ELSE 0
        BY <1>3, <1>6, <1>7, <1>9, <2>1, <2>5, PartsOfClosedRow
      <3>2. Changed(wallet[v], wallet'[v], IF status = "SETTLED" THEN 0 ELSE x, 0 - x, 0)
        BY <1>8, <1>11, <2>3, <2>5
      <3> QED
        BY <2>2, <3>1, <3>2 DEF Changed
    <2> QED
      BY <1>7, <2>4, <2>5
  <1>14. EntriesOf(closed, ledger'[k]) /\ ReportsBalances(k)
    <2>1. ledger[k] = <<>>
      <3>1. EntriesOf(row, ledger[k])
        BY <1>2, <1>3 DEF LedgerMatchesRows
      <3> QED
        BY <1>3, <1>4, <1>7, <3>1 DEF EntriesOf, HasEntry, Providers
    <2>2. ledger'[k] = entries
      <3>1. entries = <<>> \/ \E e : entries = <<e>>
        BY <1>8
      <3> QED
        BY <1>10, <2>1, <3>1
    <2>3. CASE status = "SETTLED"
      <3>1. PICK e : e = SettlementEntry(k, wallet')
        OBVIOUS
      <3>2. /\ row.type = "DEPOSIT" => Posts(e, row.receiver, "CREDIT", row.amount)
            /\ row.type = "WITHDRAWAL" => Posts(e, row.sender, "DEBIT", row.amount)
        BY <1>2, <3>1 DEF SettlementEntry, Entry, Posts
      <3>3. ledger'[k] = <<e>>
        BY <1>8, <2>2, <2>3, <3>1
      <3>4. EntriesOf(closed, ledger'[k])
        BY <1>7, <1>10, <2>3, <3>2, <3>3 DEF EntriesOf, HasEntry
      <3>5. /\ row.type = "DEPOSIT" => e.balanceAfter = wallet'[w].available
            /\ row.type = "WITHDRAWAL" => e.balanceAfter = wallet'[w].locked
            /\ e.wallet = w
        BY <1>2, <1>7, <3>1 DEF SettlementEntry, Entry
      <3>6. ReportsBalances(k)
        BY <1>7, <1>10, <2>3, <3>3, <3>5 DEF ReportsBalances, ReportedBalance
      <3> QED
        BY <3>4, <3>6
    <2>4. CASE status = "FAILED"
      <3>1. ledger'[k] = <<>>
        BY <1>8, <2>2, <2>4
      <3> QED
        BY <1>4, <1>7, <1>10, <2>4, <3>1
           DEF EntriesOf, HasEntry, Providers, ReportsBalances
    <2> QED
      BY <2>3, <2>4
  <1> QED
    BY <1>1, <1>2, <1>3, <1>4, <1>8, <1>10, <1>13, <1>14 DEF ClosesAccountably

-----------------------------------------------------------------------------
(* The accounting invariant *)

\* An answer in hand was there before or comes from a provider call.
LEMMA AnswerStep ==
    ASSUME IndInv, [Next]_vars, NEW p \in Procs, ppc'[p] = "answered"
    PROVE  \/ /\ ppc[p] = "answered"
              /\ event'[p] = event[p] /\ result'[p] = result[p]
           \/ /\ \E k \in Keys : CallProvider(p, k) /\ event'[p] = k
              /\ UNCHANGED <<wallet, txn, ledger>>
  <1>1. /\ ppc \in [Procs -> {"idle", "polling", "running", "answered"}]
        /\ event \in [Procs -> Keys \union {NoKey}]
        /\ result \in [Procs -> Results]
    BY DEF IndInv, TypeOK, ProcessorTypeOK
  <1>2. CASE UNCHANGED processorVars
    BY <1>2 DEF processorVars
  <1>3. ASSUME NEW q \in Procs, NEW k \in Keys, CallProvider(q, k)
        PROVE  \/ /\ ppc[p] = "answered"
                  /\ event'[p] = event[p] /\ result'[p] = result[p]
               \/ /\ \E j \in Keys : CallProvider(p, j) /\ event'[p] = j
                  /\ UNCHANGED <<wallet, txn, ledger>>
    <2>1. PICK o : /\ ppc' = [ppc EXCEPT ![q] = "answered"]
                   /\ event' = [event EXCEPT ![q] = k]
                   /\ result' = [result EXCEPT ![q] = o]
                   /\ UNCHANGED <<wallet, txn, ledger>>
      BY <1>3 DEF CallProvider, storeVars
    <2>2. CASE p = q
      BY <1>1, <1>3, <2>1, <2>2
    <2>3. CASE p # q
      BY <1>1, <2>1, <2>3
    <2> QED
      BY <2>2, <2>3
  <1>4. ASSUME NEW q \in Procs, NEW pos \in {"idle", "polling", "running"},
               ppc' = [ppc EXCEPT ![q] = pos],
               \/ event' = [event EXCEPT ![q] = NoKey]
                  /\ result' = [result EXCEPT ![q] = "none"]
               \/ UNCHANGED <<event, result>>
        PROVE  /\ ppc[p] = "answered"
               /\ event'[p] = event[p] /\ result'[p] = result[p]
    BY <1>1, <1>4
  <1>5. CASE ProcessorNext
    <2>1. CASE \E q \in Procs : Acquire(q) \/ Fetch(q)
      BY <1>4, <2>1 DEF Acquire, Fetch
    <2>2. CASE \E q \in Procs : BatchDone(q) \/ BatchAborts(q) \/ Crash(q)
      BY <1>4, <2>2 DEF BatchDone, BatchAborts, Crash, Stop
    <2>3. CASE \E q \in Procs : \/ \E k \in Keys : ResolveThrows(q, k)
                                \/ AcceptAsync(q) \/ Settle(q) \/ Fail(q) \/ WriteThrows(q)
      <3>1. PICK q, k : q \in Procs /\ NextEvent(q, k)
        BY <2>3 DEF ResolveThrows, AcceptAsync, Settle, Fail, Close, WriteThrows
      <3> QED
        BY <1>4, <3>1 DEF NextEvent
    <2>4. CASE ExpireOrphan \/ ExpireOverrun
      BY <2>4 DEF ExpireOrphan, ExpireOverrun
    <2> QED
      BY <1>3, <1>5, <2>1, <2>2, <2>3, <2>4 DEF ProcessorNext, Work
  <1> QED
    BY <1>2, <1>5 DEF Next, vars, processorVars

\* An existing row keeps its provider and stays an existing row.
LEMMA ProviderStays ==
    ASSUME IndInv, AccountInv, [Next]_vars
    PROVE  \A k \in Keys : KeyTaken(k) => txn'[k].provider = txn[k].provider
  <1>1. ASSUME NEW r \in Reqs, Commits(r)
        PROVE  \A k \in Keys : KeyTaken(k) => txn'[k].provider = txn[k].provider
    BY <1>1, CommitMoves DEF InsertsAccountably, WritesOnly, KeyTaken, NoTransaction
  <1>2. ASSUME NEW p \in Procs, Settle(p) \/ Fail(p)
        PROVE  \A k \in Keys : KeyTaken(k) => txn'[k].provider = txn[k].provider
    BY <1>2, CloseMoves DEF ClosesAccountably, WritesOnly, AccountInv
  <1> QED
    BY <1>1, <1>2, OnlyCommitAndCloseWrite

\* No instance ever holds an answer for an INTERNAL transaction.
LEMMA AnswersAreProviders ==
    ASSUME IndInv, AccountInv, [Next]_vars, NEW p \in Procs, ppc'[p] = "answered"
    PROVE  txn'[event'[p]].provider \in Providers
  <1>1. CASE /\ ppc[p] = "answered"
             /\ event'[p] = event[p] /\ result'[p] = result[p]
    <2>1. event[p] \in batch[p]
      BY <1>1 DEF IndInv, BatchesHoldProviderEvents
    <2>2. event[p] \in Keys /\ KeyTaken(event[p])
      BY <2>1, BatchEvent DEF KeyTaken
    <2>3. txn[event[p]].provider \in Providers
      BY <1>1 DEF AccountInv, InternalStaysOpen
    <2>4. txn'[event[p]].provider = txn[event[p]].provider
      BY <2>2, ProviderStays
    <2> QED
      BY <1>1, <2>3, <2>4
  <1>2. CASE /\ \E k \in Keys : CallProvider(p, k) /\ event'[p] = k
             /\ UNCHANGED <<wallet, txn, ledger>>
    BY <1>2 DEF CallProvider
  <1> QED
    BY <1>1, <1>2, AnswerStep

\* A write of one transaction keeps the accounts.
LEMMA WriteAccounts ==
    ASSUME IndInv, IndInv', AccountInv, InternalStaysOpen', NEW k \in Keys,
           WritesOnly(k), BalancesMove(k), EntriesOf(txn'[k], ledger'[k]),
           OneEnded(txn'[k])
    PROVE  AccountInv'
  <1>1. LedgerMatchesRows'
    BY DEF AccountInv, LedgerMatchesRows, WritesOnly
  <1>2. IsFiniteSet(Taken')
    <2>1. Taken' \subseteq Taken \union {k}
      BY DEF Taken, KeyTaken, WritesOnly
    <2>2. IsFiniteSet(Taken \union {k})
      BY FS_AddElement DEF AccountInv
    <2> QED
      BY <2>1, <2>2, FS_Subset
  <1>3. BalancesByRows'
    BY BalancesFollowRows DEF AccountInv
  <1>4. LedgerByRows'
    BY <1>1, LedgerFollowsRows DEF AccountInv
  <1>5. \A j \in Keys : OneEnded(txn'[j])
    BY DEF AccountInv, WritesOnly
  <1> QED
    BY <1>1, <1>2, <1>3, <1>4, <1>5 DEF AccountInv

LEMMA AccountsKept == IndInv /\ IndInv' /\ AccountInv /\ [Next]_vars => AccountInv'
  <1> SUFFICES ASSUME IndInv, IndInv', AccountInv, [Next]_vars
               PROVE  AccountInv'
    OBVIOUS
  <1>1. \A p \in Procs : ppc'[p] = "answered" => txn'[event'[p]].provider \in Providers
    BY AnswersAreProviders
  <1>2. ASSUME NEW r \in Reqs, Commits(r)
        PROVE  AccountInv'
    <2>1. PICK k \in Keys : InsertsAccountably(k)
      BY <1>2, CommitMoves
    <2>2. InternalStaysOpen'
      BY <1>1, <2>1 DEF InsertsAccountably, WritesOnly, AccountInv, InternalStaysOpen
    <2> QED
      BY <2>1, <2>2, WriteAccounts DEF InsertsAccountably
  <1>3. ASSUME NEW p \in Procs, Settle(p) \/ Fail(p)
        PROVE  AccountInv'
    <2>1. PICK k \in Keys : ClosesAccountably(k)
      BY <1>3, CloseMoves DEF AccountInv
    <2>2. InternalStaysOpen'
      BY <1>1, <2>1 DEF ClosesAccountably, WritesOnly, AccountInv, InternalStaysOpen, Providers
    <2>3. OneEnded(txn'[k])
      BY <2>1 DEF ClosesAccountably, AccountInv, OneEnded
    <2> QED
      BY <2>1, <2>2, <2>3, WriteAccounts DEF ClosesAccountably
  <1>4. CASE UNCHANGED <<wallet, txn, ledger>>
    <2>1. InternalStaysOpen'
      BY <1>1, <1>4 DEF AccountInv, InternalStaysOpen
    <2>2. LedgerMatchesRows' /\ Taken' = Taken
      BY <1>4 DEF AccountInv, LedgerMatchesRows, Taken, KeyTaken
    <2>3. BalancesByRows'
      BY <1>4 DEF AccountInv, BalancesByRows, AmountOf, RowsIn
    <2>4. LedgerByRows'
      BY <1>4 DEF AccountInv, LedgerByRows, AmountOf, RowsIn, LedgerTotal, Posted, KeyTaken
    <2>5. \A k \in Keys : OneEnded(txn'[k])
      BY <1>4 DEF AccountInv
    <2> QED
      BY <2>1, <2>2, <2>3, <2>4, <2>5 DEF AccountInv
  <1> QED
    BY <1>2, <1>3, <1>4, OnlyCommitAndCloseWrite

\* Before the first request there is nothing to account for.
LEMMA AccountsOpen == Init => AccountInv
  <1> SUFFICES ASSUME Init PROVE AccountInv
    OBVIOUS
  <1>1. /\ wallet = [w \in Wallets |->
                        [available |-> Opening[w], locked |-> 0, pending |-> 0]]
        /\ \A k \in Keys : txn[k] = NoTransaction /\ ledger[k] = <<>>
        /\ \A p \in Procs : ppc[p] = "idle"
    BY DEF Init, StoreInit, ProcessorInit
  <1>2. Taken = {}
    BY <1>1 DEF Taken, KeyTaken, NoTransaction
  <1>3. InternalStaysOpen /\ LedgerMatchesRows
    BY <1>1 DEF InternalStaysOpen, LedgerMatchesRows, EntriesOf, NoTransaction, HasEntry
  <1>4. ASSUME NEW R, NoTransaction \notin R
        PROVE  AmountOf(RowsIn(R)) = 0
    <2>1. RowsIn(R) = {}
      BY <1>1, <1>4 DEF RowsIn
    <2> QED
      BY <2>1, SumEmpty, Zenon DEF AmountOf
  <1>5. \A w \in Wallets : LedgerTotal(w) = 0
    BY <1>2, SumEmpty, Zenon DEF LedgerTotal, Taken
  <1>6. ASSUME NEW w \in Wallets
        PROVE  /\ wallet[w].pending = 0 /\ wallet[w].locked = 0
               /\ wallet[w].available = Opening[w] /\ Opening[w] \in Int
    BY <1>1, StoreAssumption
  <1>7. BalancesByRows
    <2> SUFFICES ASSUME NEW w \in Wallets
        PROVE /\ wallet[w].pending = AmountOf(RowsIn(DepositRows(w, "INITIATED")))
              /\ wallet[w].locked = AmountOf(RowsIn(WithdrawalRows(w, "INITIATED")))
              /\ wallet[w].available =
                    Opening[w] + AmountOf(RowsIn(DepositRows(w, "SETTLED")))
                    + AmountOf(RowsIn(TransferInRows(w)))
                    - AmountOf(RowsIn(TransferOutRows(w)))
                    - AmountOf(RowsIn(WithdrawalRows(w, "SETTLED")))
                    - AmountOf(RowsIn(WithdrawalRows(w, "INITIATED")))
      BY DEF BalancesByRows
    <2>1. /\ AmountOf(RowsIn(DepositRows(w, "INITIATED"))) = 0
          /\ AmountOf(RowsIn(DepositRows(w, "SETTLED"))) = 0
          /\ AmountOf(RowsIn(WithdrawalRows(w, "INITIATED"))) = 0
          /\ AmountOf(RowsIn(WithdrawalRows(w, "SETTLED"))) = 0
          /\ AmountOf(RowsIn(TransferInRows(w))) = 0
          /\ AmountOf(RowsIn(TransferOutRows(w))) = 0
      BY <1>4, RowSetsTyped
    <2> QED
      BY <1>6, <2>1
  <1>8. LedgerByRows
    <2> SUFFICES ASSUME NEW w \in Wallets
        PROVE wallet[w].available + wallet[w].locked + wallet[w].pending =
                  Opening[w] + LedgerTotal(w) + AmountOf(RowsIn(ProviderDepositRows(w)))
                  + AmountOf(RowsIn(InternalWithdrawalRows(w)))
      BY DEF LedgerByRows
    <2>1. /\ AmountOf(RowsIn(ProviderDepositRows(w))) = 0
          /\ AmountOf(RowsIn(InternalWithdrawalRows(w))) = 0
      BY <1>4, RowSetsTyped
    <2> QED
      BY <1>5, <1>6, <2>1
  <1>9. \A k \in Keys : OneEnded(txn[k])
    BY <1>1 DEF OneEnded, NoTransaction
  <1> QED
    BY <1>2, <1>3, <1>7, <1>8, <1>9, FS_EmptySet DEF AccountInv

\* In every state the rows, the ledger and the balances agree, transaction by
\* transaction and in total, and only finitely many transactions exist.
THEOREM AccountInvariance == Spec => []AccountInv
  BY AccountsOpen, AccountsKept, Invariance, PTL DEF Spec

\* The balance columns are at all times what the transaction rows say,
\* whatever calls, settlements, reversals, retries and crashes interleave:
\* no update is lost and none is made twice.
THEOREM BalancesAreTransactions == Spec => []BalancesMatchTransactions
  <1>1. IndInv /\ AccountInv => BalancesMatchTransactions
    <2> SUFFICES ASSUME IndInv, AccountInv PROVE BalancesMatchTransactions
      OBVIOUS
    <2>1. txn \in [Keys -> Transaction]
      BY DEF IndInv, TypeOK, StoreTypeOK
    <2> QED
      BY <2>1, SetsAreRows DEF AccountInv, BalancesByRows, BalancesMatchTransactions
  <1> QED
    BY <1>1, Invariance, AccountInvariance, PTL

\* The ledger explains every wallet's whole balance, up to the open
\* transactions that are posted at another time than they touch the balance.
THEOREM LedgerExplainsBalances == Spec => []LedgerReconciles
  <1>1. IndInv /\ AccountInv => LedgerReconciles
    <2> SUFFICES ASSUME IndInv, AccountInv PROVE LedgerReconciles
      OBVIOUS
    <2>1. txn \in [Keys -> Transaction]
      BY DEF IndInv, TypeOK, StoreTypeOK
    <2> QED
      BY <2>1, SetsAreRows DEF AccountInv, LedgerByRows, LedgerReconciles
  <1> QED
    BY <1>1, Invariance, AccountInvariance, PTL

\* An entry is appended and never changed, and reports the balance its own
\* commit leaves: what is written for a transaction is written in one step.
THEOREM LedgerOnlyGrows == Spec => LedgerIsAppendOnly
  <1> DEFINE Appends == \A k \in Keys :
          /\ IsPrefix(ledger[k], ledger'[k])
          /\ \A i \in DOMAIN ledger'[k] \ DOMAIN ledger[k] :
                LET e == ledger'[k][i]
                IN  e.balanceAfter = ReportedBalance(txn'[k], wallet'[e.wallet])
  <1>1. IndInv /\ IndInv' /\ AccountInv /\ [Next]_vars => Appends
    <2> SUFFICES ASSUME IndInv, IndInv', AccountInv, [Next]_vars, NEW k \in Keys
        PROVE /\ IsPrefix(ledger[k], ledger'[k])
              /\ \A i \in DOMAIN ledger'[k] \ DOMAIN ledger[k] :
                    LET e == ledger'[k][i]
                    IN  e.balanceAfter = ReportedBalance(txn'[k], wallet'[e.wallet])
      OBVIOUS
    <2>1. ledger[k] \in Seq(LedgerEntry) /\ ledger'[k] \in Seq(LedgerEntry)
      BY DEF IndInv, TypeOK, StoreTypeOK
    <2>2. ledger'[k] = ledger[k] => IsPrefix(ledger[k], ledger'[k])
      BY <2>1 DEF IsPrefix
    <2>3. ledger[k] = <<>> => IsPrefix(ledger[k], ledger'[k])
      BY <2>1 DEF IsPrefix
    <2>4. ASSUME NEW j \in Keys, WritesOnly(j), ledger[j] = <<>>, ReportsBalances(j)
          PROVE  /\ IsPrefix(ledger[k], ledger'[k])
                 /\ \A i \in DOMAIN ledger'[k] \ DOMAIN ledger[k] :
                       LET e == ledger'[k][i]
                       IN  e.balanceAfter = ReportedBalance(txn'[k], wallet'[e.wallet])
      <3>1. CASE k = j
        BY <2>3, <2>4, <3>1 DEF ReportsBalances
      <3>2. CASE k # j
        BY <2>2, <2>4, <3>2 DEF WritesOnly
      <3> QED
        BY <3>1, <3>2
    <2>5. ASSUME NEW r \in Reqs, Commits(r)
          PROVE  \E j \in Keys : WritesOnly(j) /\ ledger[j] = <<>> /\ ReportsBalances(j)
      BY <2>5, CommitMoves DEF InsertsAccountably, AccountInv, LedgerMatchesRows,
         EntriesOf, HasEntry, NoTransaction
    <2>6. ASSUME NEW p \in Procs, Settle(p) \/ Fail(p)
          PROVE  \E j \in Keys : WritesOnly(j) /\ ledger[j] = <<>> /\ ReportsBalances(j)
      <3>1. PICK j \in Keys : ClosesAccountably(j)
        BY <2>6, CloseMoves DEF AccountInv
      <3>2. txn[j].type # "TRANSFER" /\ ~ HasEntry(txn[j])
        BY <3>1 DEF ClosesAccountably, HasEntry, Providers, IndInv, RowsWellFormed
      <3>3. ledger[j] = <<>>
        BY <3>2 DEF AccountInv, LedgerMatchesRows, EntriesOf
      <3> QED
        BY <3>1, <3>3 DEF ClosesAccountably
    <2>7. CASE UNCHANGED <<wallet, txn, ledger>>
      BY <2>2, <2>7
    <2> QED
      BY <2>4, <2>5, <2>6, <2>7, OnlyCommitAndCloseWrite
  <1> QED
    BY <1>1, Invariance, AccountInvariance, PTL DEF Spec, LedgerIsAppendOnly

-----------------------------------------------------------------------------
(* What the clients and the providers were told *)

\* A call that is answered "created" was so before, or commits in this step.
LEMMA CreatedStep ==
    ASSUME IndInv, [Next]_vars, NEW r \in Reqs, pc'[r] = "created"
    PROVE  /\ input'[r] = input[r]
           /\ pc[r] = "created" \/ Commits(r)
  <1>1. pc \in [Reqs -> {"idle", "open"} \union Answers] /\ DOMAIN input = Reqs
    BY DEF IndInv, TypeOK, RequestTypeOK
  <1>2. CASE UNCHANGED requestVars
    BY <1>2 DEF requestVars
  <1>3. CASE RequestNext
    <2>1. PICK q \in Reqs :
              \/ \E in \in Inputs : RefuseEarly(q, in) \/ Replay(q, in) \/ Open(q, in)
              \/ LockWallet(q)
              \/ Resolve(q)
              \/ Abort(q)
              \/ Finish(q)
      BY <1>3 DEF RequestNext
    <2>2. CASE \E in \in Inputs : RefuseEarly(q, in) \/ Replay(q, in) \/ Open(q, in)
      BY <1>1, <2>2 DEF RefuseEarly, Replay, Open
    <2>3. CASE LockWallet(q)
      BY <2>3 DEF LockWallet
    <2>4. CASE Refuse(q) \/ NoDestination(q) \/ Conflict(q) \/ Abort(q)
      BY <1>1, <2>4 DEF Refuse, NoDestination, Conflict, Abort, RollBack, Answer
    <2>5. CASE Commits(q)
      <3>1. Answer(q, "created")
        BY <2>5 DEF Commits, Deposit, Withdraw, Transfer, ConfirmDeposit, CreatePayout, Commit
      <3> QED
        BY <1>1, <2>5, <3>1 DEF Answer
    <2>6. CASE Finish(q)
      BY <1>1, <2>6 DEF Finish
    <2> QED
      BY <2>1, <2>2, <2>3, <2>4, <2>5, <2>6 DEF Resolve
  <1> QED
    BY <1>2, <1>3 DEF Next, vars, requestVars

\* What a row says of its request.
RowServes(row, in) ==
    /\ row.status # "ABSENT"
    /\ row.amount = in.amount
    /\ in.user \in {row.sender, row.receiver}
    /\ row.provider = in.provider

\* A commit inserts the row its request asked for.
LEMMA CommitServes ==
    ASSUME IndInv, NEW r \in Reqs, Commits(r)
    PROVE  /\ input[r] \in Inputs
           /\ input[r].key \in Keys
           /\ txn[input[r].key].status = "ABSENT"
           /\ RowServes(txn'[input[r].key], input[r])
  <1>1. Locked(r)
    BY DEF Commits, Deposit, Withdraw, Transfer, ConfirmDeposit, CreatePayout, Commit
  <1>2. /\ input[r] \in Inputs /\ input[r].key \in Keys
        /\ input[r].provider \in Providers \union {"INTERNAL"}
    BY <1>1, LockedCall
  <1>3. input[r].provider \in Providers <=> input[r].op \in {"confirmDeposit", "createPayout"}
    BY <1>2, RequestAssumption
  <1>4. PICK row :
            /\ txn[input[r].key].status = "ABSENT"
            /\ txn' = [txn EXCEPT ![input[r].key] = row]
            /\ RowServes(row, input[r])
    <2>1. CASE Deposit(r)
      <3>1. /\ ~ KeyTaken(input[r].key)
            /\ txn' = [txn EXCEPT ![input[r].key] =
                          DepositRow(input[r].user, input[r].amount, "INTERNAL")]
            /\ input[r].op = "deposit"
        BY <2>1 DEF Deposit, Commit, CreateTransaction
      <3>2. RowServes(DepositRow(input[r].user, input[r].amount, "INTERNAL"), input[r])
        BY <1>2, <1>3, <3>1 DEF RowServes, DepositRow
      <3> QED
        BY <3>1, <3>2 DEF KeyTaken
    <2>2. CASE Withdraw(r)
      <3>1. /\ ~ KeyTaken(input[r].key)
            /\ txn' = [txn EXCEPT ![input[r].key] =
                          WithdrawalRow(input[r].user, input[r].amount, "INTERNAL")]
            /\ input[r].op = "withdraw"
        BY <2>2 DEF Withdraw, Commit, CreateTransaction
      <3>2. RowServes(WithdrawalRow(input[r].user, input[r].amount, "INTERNAL"), input[r])
        BY <1>2, <1>3, <3>1 DEF RowServes, WithdrawalRow
      <3> QED
        BY <3>1, <3>2 DEF KeyTaken
    <2>3. CASE Transfer(r)
      <3>1. /\ ~ KeyTaken(input[r].key)
            /\ txn' = [txn EXCEPT ![input[r].key] =
                          TransferRow(input[r].user, input[r].peer, input[r].amount)]
            /\ input[r].op = "transfer"
        BY <2>3 DEF Transfer, Commit, CreateTransaction
      <3>2. RowServes(TransferRow(input[r].user, input[r].peer, input[r].amount), input[r])
        BY <1>2, <1>3, <3>1 DEF RowServes, TransferRow
      <3> QED
        BY <3>1, <3>2 DEF KeyTaken
    <2>4. CASE ConfirmDeposit(r)
      <3>1. /\ ~ KeyTaken(input[r].key)
            /\ txn' = [txn EXCEPT ![input[r].key] =
                          DepositRow(input[r].user, input[r].amount, input[r].provider)]
        BY <2>4 DEF ConfirmDeposit, Commit, CreateTransaction
      <3>2. RowServes(DepositRow(input[r].user, input[r].amount, input[r].provider), input[r])
        BY DEF RowServes, DepositRow
      <3> QED
        BY <3>1, <3>2 DEF KeyTaken
    <2>5. CASE CreatePayout(r)
      <3>1. /\ ~ KeyTaken(input[r].key)
            /\ txn' = [txn EXCEPT ![input[r].key] =
                          WithdrawalRow(input[r].user, input[r].amount, input[r].provider)]
        BY <2>5 DEF CreatePayout, Commit, CreateTransaction
      <3>2. RowServes(WithdrawalRow(input[r].user, input[r].amount, input[r].provider), input[r])
        BY DEF RowServes, WithdrawalRow
      <3> QED
        BY <3>1, <3>2 DEF KeyTaken
    <2> QED
      BY <2>1, <2>2, <2>3, <2>4, <2>5 DEF Commits
  <1> QED
    BY <1>2, <1>4 DEF IndInv, TypeOK, StoreTypeOK

\* An existing row goes on serving the request it served.
LEMMA RowsKeepServing ==
    ASSUME IndInv, [Next]_vars, NEW k \in Keys, NEW in, RowServes(txn[k], in)
    PROVE  RowServes(txn'[k], in)
  <1>1. ASSUME NEW r \in Reqs, Commits(r)
        PROVE  RowServes(txn'[k], in)
    BY <1>1, CommitWritesFreshKey DEF RowServes, KeyTaken
  <1>2. ASSUME NEW p \in Procs, Settle(p) \/ Fail(p)
        PROVE  RowServes(txn'[k], in)
    <2>1. PICK status \in {"SETTLED", "FAILED"} :
              txn' = [txn EXCEPT ![event[p]].status = status]
      BY <1>2, CloseClosesOpenTransaction
    <2>2. txn \in [Keys -> Transaction]
      BY DEF IndInv, TypeOK, StoreTypeOK
    <2> QED
      BY <2>1, <2>2 DEF RowServes, Transaction
  <1> QED
    BY <1>1, <1>2, OnlyCommitAndCloseWrite

LEMMA CreatedKept ==
    ASSUME IndInv, AnswerInv, [Next]_vars
    PROVE  (CreatedRowExists /\ CreatedOnce)'
  <1>1. ASSUME NEW r \in Reqs, pc[r] = "created"
        PROVE  /\ input[r].key \in Keys
               /\ RowServes(txn[input[r].key], input[r])
    BY <1>1 DEF AnswerInv, CreatedRowExists, CreatedOnce, RowServes, KeyTaken
  <1>2. ASSUME NEW r \in Reqs, pc'[r] = "created"
        PROVE  /\ input'[r] = input[r]
               /\ input[r].key \in Keys
               /\ RowServes(txn'[input[r].key], input[r])
    <2>1. input'[r] = input[r] /\ (pc[r] = "created" \/ Commits(r))
      BY <1>2, CreatedStep
    <2>2. CASE pc[r] = "created"
      BY <1>1, <2>1, <2>2, RowsKeepServing
    <2>3. CASE Commits(r)
      BY <2>1, <2>3, CommitServes
    <2> QED
      BY <2>1, <2>2, <2>3
  <1>3. ASSUME NEW r \in Reqs, NEW q \in Reqs, q # r, pc'[r] = "created", pc'[q] = "created"
        PROVE  input[q].key # input[r].key
    <2>1. /\ pc[r] = "created" \/ Commits(r)
          /\ pc[q] = "created" \/ Commits(q)
      BY <1>3, CreatedStep
    <2>2. CASE pc[r] = "created" /\ pc[q] = "created"
      BY <1>3, <2>2 DEF AnswerInv, CreatedOnce
    <2>3. ASSUME NEW s \in Reqs, NEW t \in Reqs, pc[s] = "created", Commits(t)
          PROVE  input[s].key # input[t].key
      <3>1. txn[input[s].key].status # "ABSENT"
        BY <1>1, <2>3 DEF RowServes
      <3> QED
        BY <2>3, <3>1, CommitServes
    <2>4. CASE pc[r] # "created" /\ pc[q] # "created"
      <3>1. /\ pc' = [pc EXCEPT ![r] = "created"]
            /\ pc \in [Reqs -> {"idle", "open"} \union Answers]
        BY <2>1, <2>4 DEF Commits, Deposit, Withdraw, Transfer, ConfirmDeposit, CreatePayout,
           Commit, Answer, IndInv, TypeOK, RequestTypeOK
      <3> QED
        BY <1>3, <2>4, <3>1
    <2> QED
      BY <2>1, <2>2, <2>3, <2>4
  <1>4. CreatedRowExists'
    BY <1>2 DEF CreatedRowExists, KeyTaken, RowServes
  <1>5. CreatedOnce'
    BY <1>2, <1>3 DEF CreatedOnce, RowServes
  <1> QED
    BY <1>4, <1>5

\* The provider's record of money moved never shrinks.
LEMMA MovedGrows ==
    ASSUME IndInv, [Next]_vars
    PROVE  \A k \in Keys : moved[k] \in Nat /\ moved'[k] \in Nat /\ moved'[k] >= moved[k]
  <1>1. moved \in [Keys -> Nat]
    BY DEF IndInv, TypeOK, ProcessorTypeOK
  <1>2. ASSUME NEW p \in Procs, NEW k \in Keys, CallProvider(p, k)
        PROVE  moved' = moved \/ moved' = [moved EXCEPT ![k] = @ + 1]
    BY <1>2 DEF CallProvider
  <1>3. CASE \A p \in Procs, k \in Keys : ~ CallProvider(p, k)
    <2>1. moved' = moved
      <3>1. CASE ProcessorNext
        BY <1>3, <3>1 DEF ProcessorNext, Work, Acquire, Fetch, BatchDone, ResolveThrows,
           AcceptAsync, WriteThrows, Settle, Fail, Close, NextEvent, BatchAborts, Crash,
           ExpireOrphan, ExpireOverrun
      <3>2. CASE UNCHANGED processorVars
        BY <3>2 DEF processorVars
      <3> QED
        BY <3>1, <3>2 DEF Next, vars, processorVars
    <2> QED
      BY <1>1, <2>1
  <1> QED
    BY <1>1, <1>2, <1>3

LEMMA PaidKept ==
    ASSUME IndInv, AccountInv, AnswerInv, [Next]_vars
    PROVE  (DoneWasPaid /\ SettledDepositWasPaid)'
  <1>1. ASSUME NEW p \in Procs, ppc'[p] = "answered", result'[p] = "done"
        PROVE  moved'[event'[p]] > 0
    <2>1. CASE /\ ppc[p] = "answered"
               /\ event'[p] = event[p] /\ result'[p] = result[p]
      <3>1. event[p] \in Keys
        BY <2>1, BatchEvent DEF IndInv, BatchesHoldProviderEvents
      <3>2. moved[event[p]] > 0
        BY <1>1, <2>1 DEF AnswerInv, DoneWasPaid
      <3> QED
        BY <2>1, <3>1, <3>2, MovedGrows
    <2>2. ASSUME NEW k \in Keys, CallProvider(p, k), event'[p] = k
          PROVE  moved'[event'[p]] > 0
      <3>1. PICK o \in Process(txn[k].provider, txn[k].type) :
                /\ result' = [result EXCEPT ![p] = o[1]]
                /\ moved' = IF o[2] THEN [moved EXCEPT ![k] = @ + 1] ELSE moved
        BY <2>2 DEF CallProvider
      <3>2. o[1] = "done"
        BY <1>1, <3>1 DEF IndInv, TypeOK, ProcessorTypeOK
      <3>3. \/ o \in {<<"accepted", TRUE>>, <<"accepted", FALSE>>,
                      <<"failed", TRUE>>, <<"failed", FALSE>>}
            \/ o = <<"done", TRUE>>
        BY <3>1 DEF Process, StripeConfirmDeposit, StripeCreatePayout,
           PaypalConfirmDeposit, PaypalCreatePayout
      <3>4. o = <<"done", TRUE>>
        <4>1. \A answer, took : <<answer, took>>[1] = answer
          OBVIOUS
        <4>2. \A took : o = <<"accepted", took>> \/ o = <<"failed", took>> => o[1] # "done"
          BY <4>1
        <4> QED
          BY <3>2, <3>3, <4>2, Zenon
      <3>5. moved' = [moved EXCEPT ![k] = @ + 1]
        BY <3>1, <3>4, Zenon
      <3> QED
        BY <2>2, <3>5 DEF IndInv, TypeOK, ProcessorTypeOK
    <2> QED
      BY <1>1, <2>1, <2>2, AnswerStep
  <1>2. ASSUME NEW k \in Keys, txn'[k].type = "DEPOSIT", txn'[k].status = "SETTLED"
        PROVE  moved'[k] > 0
    <2>1. CASE txn'[k] = txn[k]
      <3>1. moved[k] > 0
        BY <1>2, <2>1 DEF AnswerInv, SettledDepositWasPaid
      <3> QED
        BY <3>1, MovedGrows
    <2>2. ASSUME NEW r \in Reqs, Commits(r)
          PROVE  txn'[k] = txn[k]
      BY <1>2, <2>2, CommitMoves DEF InsertsAccountably, WritesOnly
    <2>3. ASSUME NEW p \in Procs, Settle(p) \/ Fail(p), txn'[k] # txn[k]
          PROVE  moved'[k] > 0
      <3>1. event[p] = k
        BY <2>3, CloseMoves DEF AccountInv, ClosesAccountably, WritesOnly
      <3>2. CASE Settle(p)
        <4>1. moved[k] > 0
          BY <3>1, <3>2 DEF Settle, AnswerInv, DoneWasPaid
        <4> QED
          BY <4>1, MovedGrows
      <3>3. CASE Fail(p)
        <4>1. txn' = [txn EXCEPT ![k].status = "FAILED"]
          BY <3>1, <3>3 DEF Fail, Close
        <4>2. txn \in [Keys -> Transaction]
          BY DEF IndInv, TypeOK, StoreTypeOK
        <4> QED
          BY <1>2, <4>1, <4>2 DEF Transaction
      <3> QED
        BY <2>3, <3>2, <3>3
    <2> QED
      BY <2>1, <2>2, <2>3, OnlyCommitAndCloseWrite
  <1> QED
    BY <1>1, <1>2 DEF DoneWasPaid, SettledDepositWasPaid

\* What was answered stays true: the rows of created calls, the deposits the
\* providers confirmed.
THEOREM AnswerInvariance == Spec => []AnswerInv
  <1>1. Init => AnswerInv
    BY DEF Init, StoreInit, RequestInit, ProcessorInit, NoTransaction, AnswerInv,
       CreatedRowExists, CreatedOnce, DoneWasPaid, SettledDepositWasPaid
  <1>2. IndInv /\ AccountInv /\ AnswerInv /\ [Next]_vars => AnswerInv'
    BY CreatedKept, PaidKept DEF AnswerInv
  <1> QED
    BY <1>1, <1>2, Invariance, AccountInvariance, PTL DEF Spec

\* However many calls race with one idempotency key, one is answered
\* "created", and the row is the one it asked for.
THEOREM KeyCreatedOnce == Spec => []CreatedOnce
  BY AnswerInvariance, PTL DEF AnswerInv

\* No deposit becomes spendable unless a provider took the money, whatever
\* answers are lost and whichever instance writes them.
THEOREM DepositsArePaid == Spec => []SettledDepositWasPaid
  BY AnswerInvariance, PTL DEF AnswerInv

=============================================================================
