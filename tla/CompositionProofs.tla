------------------------- MODULE CompositionProofs -------------------------
(***************************************************************************)
(* The money path stays itself inside its two surroundings: with a pool of *)
(* connections, and with accounts that are closed and suspended, it does   *)
(* nothing that PaymentSystem does not do. What is proved of PaymentSystem *)
(* therefore holds there too.                                              *)
(***************************************************************************)
EXTENDS ConnectionPool, AccountClosure, WalletAccountingProofs

-----------------------------------------------------------------------------
(* The pool *)

LEMMA PoolStep == [PoolNext]_poolVars => [Next]_vars
<1> SUFFICES ASSUME [PoolNext]_poolVars PROVE [Next]_vars
  OBVIOUS
<1>1. CASE UNCHANGED poolVars
  BY <1>1 DEF poolVars
<1>2. ASSUME NEW r \in Reqs, Arrive(r) PROVE Next
  BY <1>2 DEF Arrive, Next, RequestNext
<1>3. ASSUME NEW r \in Reqs, LookUp(r) PROVE UNCHANGED vars
  BY <1>3 DEF LookUp
<1>4. ASSUME NEW r \in Reqs, Lock(r) PROVE Next
  BY <1>4 DEF Lock, Next, RequestNext
<1>5. ASSUME NEW r \in Reqs, Decide(r) PROVE Next
  BY <1>5 DEF Decide, Next, RequestNext
<1>6. ASSUME NEW r \in Reqs, LookUpTimesOut(r) \/ Break(r) PROVE Next
  BY <1>6 DEF LookUpTimesOut, Break, Next, RequestNext
<1>7. ASSUME NEW r \in Reqs, Leave(r) PROVE Next
  BY <1>7 DEF Leave, Next, RequestNext
<1> QED
  BY <1>1, <1>2, <1>3, <1>4, <1>5, <1>6, <1>7 DEF PoolNext

\* Waiting for connections, and giving up on them, adds no behaviour to the
\* handlers: every step over the pool is one of PaymentSystem or none.
THEOREM PoolImplements == PoolSpec => Spec
<1>1. PoolInit => Init
  BY DEF PoolInit
<1> QED
  BY <1>1, PoolStep, PTL DEF PoolSpec, Spec

\* What open calls have looked up is well typed next to all the rest.
THEOREM PoolTypeCorrect == PoolSpec => []PoolTypeOK
<1> DEFINE KnownOK == known \in [Reqs -> SUBSET {"wallet", "payee"}]
<1>1. PoolInit => KnownOK
  BY DEF PoolInit
<1>2. KnownOK /\ [PoolNext]_poolVars => KnownOK'
  BY DEF PoolNext, poolVars, Arrive, LookUp, Lock, Decide, LookUpTimesOut, Break, Leave, Forget
<1>3. PoolSpec => []KnownOK
  BY <1>1, <1>2, PTL DEF PoolSpec
<1>4. TypeOK /\ KnownOK => PoolTypeOK
  BY DEF PoolTypeOK
<1> QED
  BY <1>3, <1>4, PoolImplements, TypeCorrect, PTL

-----------------------------------------------------------------------------
(* Closure *)

LEMMA ClosureStep == [ClosureNext]_allVars => [Next]_vars
BY DEF ClosureNext, allVars, MoneyStep, ReadBalances, CloseAccount, AbandonClosure, UpdateStatus

\* Closing and suspending accounts takes nothing away from the guarantees of
\* the money path: every step is one of PaymentSystem or none.
THEOREM ClosureImplements == ClosureSpec => Spec
<1>1. ClosureInit => Init
  BY DEF ClosureInit
<1> QED
  BY <1>1, ClosureStep, PTL DEF ClosureSpec, Spec

\* Accounts, closures and their history are well typed next to all the rest.
THEOREM ClosureTypeCorrect == ClosureSpec => []ClosureTypeOK
<1> DEFINE AccountsOK ==
        /\ account \in [Closers -> {"ACTIVE", "BLOCKED", "CLOSED"}]
        /\ closing \subseteq Closers
        /\ before \in [Closers -> SUBSET Keys]
<1>1. ClosureInit => AccountsOK
  BY DEF ClosureInit
<1>2. AccountsOK /\ [ClosureNext]_allVars => AccountsOK'
  BY DEF ClosureNext, allVars, closureVars, MoneyStep, ReadBalances, CloseAccount,
         AbandonClosure, UpdateStatus, TransactionsOf
<1>3. ClosureSpec => []AccountsOK
  BY <1>1, <1>2, PTL DEF ClosureSpec
<1>4. TypeOK /\ AccountsOK => ClosureTypeOK
  BY DEF ClosureTypeOK
<1> QED
  BY <1>3, <1>4, ClosureImplements, TypeCorrect, PTL

\* The funds contract holds of wallets whose accounts are closed, suspended
\* and reopened while calls and settlements are under way.
THEOREM ClosureKeepsContract == ClosureSpec => ImplementsContract
BY ClosureImplements, Refinement, PTL

-----------------------------------------------------------------------------
(* What a closed account may still hold *)

\* The closure's check and its write are two statements: what the check found
\* holds of the closures under way as well.
ClosureInv ==
    \A u \in Closers :
        account[u] = "CLOSED" \/ u \in closing =>
            /\ \A k \in before[u] : txn[k].status \in {"SETTLED", "FAILED"}
            /\ TransactionsOf(u) \subseteq before[u] => Empty(u)

\* A transaction adds nothing to the balances of a wallet it does not name.
LEMMA UnnamedPart ==
    ASSUME NEW row, NEW u \in Wallets, u \notin {row.sender, row.receiver}
    PROVE  PendingPart(u, row) = 0 /\ LockedPart(u, row) = 0 /\ AvailablePart(u, row) = 0
<1>1. /\ \A status : row \notin DepositRows(u, status) /\ row \notin WithdrawalRows(u, status)
      /\ row \notin TransferInRows(u) /\ row \notin TransferOutRows(u)
  BY DEF DepositRows, WithdrawalRows, TransferInRows, TransferOutRows
<1> QED
  BY <1>1 DEF PendingPart, LockedPart, AvailablePart, Part

\* A wallet without funds has no open transaction, and is empty.
LEMMA NoFundsNothingOpen ==
    ASSUME IndInv, AccountInv, NEW u \in Wallets, ~ HasBalance(u)
    PROVE  /\ \A k \in TransactionsOf(u) : txn[k].status \in {"SETTLED", "FAILED"}
           /\ Empty(u)
<1>1. /\ wallet[u] \in Balances /\ wallet[u].available >= 0
      /\ wallet[u].available <= 0 /\ wallet[u].locked <= 0 /\ wallet[u].pending <= 0
  BY DEF IndInv, TypeOK, StoreTypeOK, NoOverdraft, HasBalance, Balances
<1>2. ASSUME NEW R \in SUBSET Transaction, NoTransaction \notin R
      PROVE  /\ AmountOf(RowsIn(R)) \in Nat
             /\ AmountOf(RowsIn(R)) = 0 => RowsIn(R) = {}
  <2> DEFINE f == [k \in Keys |-> txn[k].amount]
  <2>1. PICK D : D = RowsIn(R)
    OBVIOUS
  <2>2. D \subseteq Taken /\ D \subseteq Keys /\ IsFiniteSet(Taken)
    BY <1>2, <2>1 DEF RowsIn, Taken, KeyTaken, IndInv, RowsWellFormed, AccountInv
  <2>3. IsFiniteSet(D)
    BY <2>2, FS_Subset
  <2>4. \A x \in D : f[x] \in Nat /\ f[x] > 0
    <3> SUFFICES ASSUME NEW x \in D PROVE f[x] \in Nat /\ f[x] > 0
      OBVIOUS
    <3>1. x \in Keys /\ txn[x].status # "ABSENT"
      BY <2>2 DEF Taken, KeyTaken
    <3>2. f[x] \in Amounts
      BY <3>1 DEF IndInv, RowsWellFormed
    <3>3. \A a \in Amounts : a \in Nat /\ a > 0
      BY StoreAssumption
    <3> HIDE DEF f
    <3> QED
      BY <3>2, <3>3
  <2>5. AmountOf(RowsIn(R)) = SumFunctionOnSet(f, D)
    BY <2>1, Zenon DEF AmountOf
  <2> HIDE DEF f
  <2>6. SumFunctionOnSet(f, D) \in Nat
    BY <2>3, <2>4, SumType
  <2>7. \A x \in D : f[x] <= SumFunctionOnSet(f, D)
    BY <2>3, <2>4, SumBounds
  <2>8. SumFunctionOnSet(f, D) = 0 => D = {}
    BY <2>4, <2>6, <2>7
  <2> QED
    BY <2>1, <2>5, <2>6, <2>8
<1>3. /\ AmountOf(RowsIn(DepositRows(u, "INITIATED"))) \in Nat
      /\ AmountOf(RowsIn(DepositRows(u, "INITIATED"))) = 0 =>
            RowsIn(DepositRows(u, "INITIATED")) = {}
      /\ AmountOf(RowsIn(WithdrawalRows(u, "INITIATED"))) \in Nat
      /\ AmountOf(RowsIn(WithdrawalRows(u, "INITIATED"))) = 0 =>
            RowsIn(WithdrawalRows(u, "INITIATED")) = {}
  BY <1>2, RowSetsTyped
<1>4. /\ wallet[u].pending = AmountOf(RowsIn(DepositRows(u, "INITIATED")))
      /\ wallet[u].locked = AmountOf(RowsIn(WithdrawalRows(u, "INITIATED")))
  BY DEF AccountInv, BalancesByRows
<1>5. /\ wallet[u].pending = 0 /\ wallet[u].locked = 0 /\ wallet[u].available = 0
      /\ RowsIn(DepositRows(u, "INITIATED")) = {}
      /\ RowsIn(WithdrawalRows(u, "INITIATED")) = {}
  BY <1>1, <1>3, <1>4 DEF Balances
<1>6. Empty(u)
  BY <1>1, <1>5 DEF Empty, Balances
<1>7. ASSUME NEW k \in TransactionsOf(u)
      PROVE  txn[k].status \in {"SETTLED", "FAILED"}
  <2>1. k \in Keys /\ txn[k] \in Transaction /\ u \in {txn[k].sender, txn[k].receiver}
    BY <1>7 DEF TransactionsOf, IndInv, TypeOK, StoreTypeOK
  <2>2. u # NullWallet
    BY StoreAssumption
  <2>3. OneEnded(txn[k])
    BY <2>1 DEF AccountInv
  <2>4. CASE txn[k].type = "DEPOSIT"
    <3>1. txn[k].receiver = u
      BY <2>1, <2>2, <2>3, <2>4 DEF OneEnded
    <3>2. txn[k].status # "INITIATED"
      BY <1>5, <2>1, <2>4, <3>1 DEF RowsIn, DepositRows
    <3>3. txn[k].status # "ABSENT"
      BY <2>1, <2>4 DEF IndInv, RowsWellFormed, NoTransaction
    <3> QED
      BY <2>1, <3>2, <3>3 DEF Transaction
  <2>5. CASE txn[k].type = "WITHDRAWAL"
    <3>1. txn[k].sender = u
      BY <2>1, <2>2, <2>3, <2>5 DEF OneEnded
    <3>2. txn[k].status # "INITIATED"
      BY <1>5, <2>1, <2>5, <3>1 DEF RowsIn, WithdrawalRows
    <3>3. txn[k].status # "ABSENT"
      BY <2>1, <2>5 DEF IndInv, RowsWellFormed, NoTransaction
    <3> QED
      BY <2>1, <3>2, <3>3 DEF Transaction
  <2>6. CASE txn[k].type = "TRANSFER"
    BY <2>1, <2>6 DEF IndInv, RowsWellFormed
  <2>7. txn[k].type # "NONE"
    BY <2>1, <2>2 DEF IndInv, RowsWellFormed, NoTransaction
  <2> QED
    BY <2>1, <2>4, <2>5, <2>6, <2>7 DEF Transaction
<1> QED
  BY <1>6, <1>7

\* A step of the money path that names a wallet in no row leaves it alone.
LEMMA UnnamedWalletStays ==
    ASSUME IndInv, NEW k \in Keys, BalancesMove(k), NEW u \in Wallets,
           u \notin {txn[k].sender, txn[k].receiver},
           u \notin {txn'[k].sender, txn'[k].receiver},
           IndInv', Empty(u)
    PROVE  Empty(u)'
<1>1. /\ PendingPart(u, txn[k]) = 0 /\ PendingPart(u, txn'[k]) = 0
      /\ LockedPart(u, txn[k]) = 0 /\ LockedPart(u, txn'[k]) = 0
      /\ AvailablePart(u, txn[k]) = 0 /\ AvailablePart(u, txn'[k]) = 0
  BY UnnamedPart
<1>2. /\ wallet[u].pending = 0 /\ wallet[u].locked = 0 /\ wallet[u].available = 0
  BY DEF Empty
<1>3. /\ wallet'[u].pending = 0 /\ wallet'[u].locked = 0 /\ wallet'[u].available = 0
  BY <1>1, <1>2 DEF BalancesMove
<1>4. wallet'[u] \in Balances
  BY DEF IndInv, TypeOK, StoreTypeOK
<1> QED
  BY <1>3, <1>4 DEF Empty, Balances

\* The money path reopens nothing a closure found closed, and funds reach a
\* closed account's wallet by a later transaction only.
LEMMA MoneyKeepsClosure ==
    ASSUME IndInv, IndInv', AccountInv, [Next]_vars, NEW u \in Wallets,
           NEW B \in SUBSET Keys,
           \A k \in B : txn[k].status \in {"SETTLED", "FAILED"},
           TransactionsOf(u) \subseteq B => Empty(u)
    PROVE  /\ \A k \in B : txn'[k].status \in {"SETTLED", "FAILED"}
           /\ TransactionsOf(u)' \subseteq B => Empty(u)'
<1>1. ASSUME NEW r \in Reqs, Commits(r)
      PROVE  /\ \A k \in B : txn'[k].status \in {"SETTLED", "FAILED"}
             /\ TransactionsOf(u)' \subseteq B => Empty(u)'
  <2>1. PICK k \in Keys : InsertsAccountably(k)
    BY <1>1, CommitMoves
  <2>2. /\ k \notin B /\ WritesOnly(k) /\ BalancesMove(k) /\ txn[k] = NoTransaction
    BY <2>1 DEF InsertsAccountably, NoTransaction
  <2>3. u # NullWallet
    BY StoreAssumption
  <2>4. \A j \in B : txn'[j] = txn[j]
    BY <2>2 DEF WritesOnly
  <2>5. ASSUME TransactionsOf(u)' \subseteq B
        PROVE  Empty(u)'
    <3>1. TransactionsOf(u) \subseteq B
      BY <2>2, <2>3, <2>5 DEF TransactionsOf, WritesOnly, NoTransaction
    <3>2. u \notin {txn[k].sender, txn[k].receiver} /\ u \notin {txn'[k].sender, txn'[k].receiver}
      BY <2>2, <2>3, <2>5 DEF TransactionsOf, NoTransaction
    <3> QED
      BY <2>2, <3>1, <3>2, UnnamedWalletStays
  <2> QED
    BY <2>4, <2>5
<1>2. ASSUME NEW p \in Procs, Settle(p) \/ Fail(p)
      PROVE  /\ \A k \in B : txn'[k].status \in {"SETTLED", "FAILED"}
             /\ TransactionsOf(u)' \subseteq B => Empty(u)'
  <2>1. PICK k \in Keys : ClosesAccountably(k)
    BY <1>2, CloseMoves DEF AccountInv
  <2>2. /\ k \notin B /\ WritesOnly(k) /\ BalancesMove(k)
        /\ txn'[k].sender = txn[k].sender /\ txn'[k].receiver = txn[k].receiver
    BY <2>1 DEF ClosesAccountably
  <2>3. \A j \in B : txn'[j] = txn[j]
    BY <2>2 DEF WritesOnly
  <2>4. ASSUME TransactionsOf(u)' \subseteq B
        PROVE  Empty(u)'
    <3>1. TransactionsOf(u) \subseteq B
      BY <2>2, <2>4 DEF TransactionsOf, WritesOnly
    <3>2. u \notin {txn[k].sender, txn[k].receiver} /\ u \notin {txn'[k].sender, txn'[k].receiver}
      BY <2>2, <2>4 DEF TransactionsOf
    <3> QED
      BY <2>2, <3>1, <3>2, UnnamedWalletStays
  <2> QED
    BY <2>3, <2>4
<1>3. CASE UNCHANGED <<wallet, txn, ledger>>
  BY <1>3 DEF TransactionsOf, Empty
<1> QED
  BY <1>1, <1>2, <1>3, OnlyCommitAndCloseWrite

LEMMA ClosureInvKept ==
    ASSUME IndInv, IndInv', AccountInv, ClosureTypeOK, ClosureInv, [ClosureNext]_allVars
    PROVE  ClosureInv'
<1> SUFFICES ASSUME NEW u \in Closers, account'[u] = "CLOSED" \/ u \in closing'
    PROVE  /\ \A k \in before'[u] : txn'[k].status \in {"SETTLED", "FAILED"}
           /\ TransactionsOf(u)' \subseteq before'[u] => Empty(u)'
  BY DEF ClosureInv
<1>1. u \in Wallets /\ before[u] \in SUBSET Keys
  BY ClosureAssumption DEF ClosureTypeOK
<1>2. CASE ReadBalances(u)
  <2>1. before'[u] = TransactionsOf(u) /\ UNCHANGED <<wallet, txn>>
    BY <1>2 DEF ReadBalances, ClosureTypeOK, vars, storeVars
  <2>2. /\ \A k \in TransactionsOf(u) : txn[k].status \in {"SETTLED", "FAILED"}
        /\ Empty(u)
    BY <1>1, <1>2, NoFundsNothingOpen DEF ReadBalances
  <2>3. Empty(u)'
    BY <2>1, <2>2 DEF Empty
  <2> QED
    BY <2>1, <2>2, <2>3
<1>3. CASE ~ ReadBalances(u)
  <2>1. /\ before'[u] = before[u]
        /\ account[u] = "CLOSED" \/ u \in closing
    BY <1>3 DEF ClosureNext, MoneyStep, ReadBalances, CloseAccount, AbandonClosure,
       UpdateStatus, ClosureTypeOK, allVars, closureVars
  <2>2. [Next]_vars
    BY ClosureStep
  <2>3. /\ \A k \in before[u] : txn[k].status \in {"SETTLED", "FAILED"}
        /\ TransactionsOf(u) \subseteq before[u] => Empty(u)
    BY <2>1 DEF ClosureInv
  <2>4. PICK B : B = before[u]
    OBVIOUS
  <2>5. /\ \A k \in B : txn'[k].status \in {"SETTLED", "FAILED"}
        /\ TransactionsOf(u)' \subseteq B => Empty(u)'
    BY <1>1, <2>2, <2>3, <2>4, MoneyKeepsClosure
  <2> QED
    BY <2>1, <2>4, <2>5
<1> QED
  BY <1>2, <1>3

\* Closures keep what their check established, whatever the money path does
\* between the check and the write.
THEOREM ClosureInvariance == ClosureSpec => []ClosureInv
<1>1. ClosureInit => ClosureInv
  BY DEF ClosureInit, ClosureInv
<1>2. ClosureSpec => []IndInv /\ []AccountInv
  BY ClosureImplements, Invariance, AccountInvariance, PTL
<1>3. IndInv /\ IndInv' /\ AccountInv /\ ClosureTypeOK /\ ClosureInv /\ [ClosureNext]_allVars
          => ClosureInv'
  BY ClosureInvKept
<1> QED
  BY <1>1, <1>2, <1>3, ClosureTypeCorrect, PTL DEF ClosureSpec

\* No transaction that closeAccount could see is open in a closed account.
THEOREM ClosedIsSettled == ClosureSpec => []NothingOpenAtClosure
<1>1. ClosureInv => NothingOpenAtClosure
  BY DEF ClosureInv, NothingOpenAtClosure
<1> QED
  BY <1>1, ClosureInvariance, PTL

\* Funds in a closed account came by a transaction committed after the
\* closure read the balances.
THEOREM ClosedFundsAreLate == ClosureSpec => []OnlyLateFunds
<1>1. ClosureInv => OnlyLateFunds
  BY DEF ClosureInv, OnlyLateFunds
<1> QED
  BY <1>1, ClosureInvariance, PTL

=============================================================================
