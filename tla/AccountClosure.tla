--------------------------- MODULE AccountClosure ---------------------------
(***************************************************************************)
(* Account status next to the money path: UsersRepository.closeAccount, by *)
(* the user or by an admin, and updateStatusOrRole, over the wallets that   *)
(* handlers and processors go on changing.                                 *)
(*                                                                         *)
(* The closure reads the balances and writes the status in one transaction *)
(* of the default isolation, READ COMMITTED, and locks no wallet row. The  *)
(* status is asked for once, when a call is authenticated; neither the     *)
(* handlers nor the processor look at it again, and Wallet.status, which   *)
(* the handlers assert, is not written by a closure.                       *)
(***************************************************************************)
EXTENDS PaymentSystem

CONSTANT Closers    \* the users whose status changes; the others stay ACTIVE

ASSUME ClosureAssumption == Closers \subseteq Wallets

VARIABLES
    account,        \* User.status; all but ACTIVE and CLOSED are "BLOCKED"
    closing,        \* users whose closure has found no funds
    before          \* history: the transactions that closure could see

closureVars == <<account, closing, before>>
allVars == <<vars, closureVars>>

ClosureTypeOK ==
    /\ TypeOK
    /\ account \in [Closers -> {"ACTIVE", "BLOCKED", "CLOSED"}]
    /\ closing \subseteq Closers
    /\ before \in [Closers -> SUBSET Keys]

ClosureInit ==
    /\ Init
    /\ account = [u \in Closers |-> "ACTIVE"]
    /\ closing = {}
    /\ before = [u \in Closers |-> {}]

-----------------------------------------------------------------------------
(* The money path *)

\* JwtStrategy.validate, in front of every handler.
Admitted(r) ==
    LET u == input'[r].user
    IN  pc[r] = "idle" /\ pc'[r] # "idle" /\ u \in Closers => account[u] = "ACTIVE"

MoneyStep ==
    /\ Next
    /\ \A r \in Reqs : Admitted(r)
    /\ UNCHANGED closureVars

-----------------------------------------------------------------------------
(* Closing *)

\* Mutant: only the spendable balance is looked at.
MutHasBalance(u) == wallet[u].available > 0

\* Mutant: && for ||.
MutHasBalanceAnd(u) ==
    wallet[u].available > 0 /\ wallet[u].locked > 0 /\ wallet[u].pending > 0

HasBalance(u) ==
    wallet[u].available > 0 \/ wallet[u].locked > 0 \/ wallet[u].pending > 0

\* The transactions that name the user's wallet.
TransactionsOf(u) == {k \in Keys : u \in {txn[k].sender, txn[k].receiver}}

\* The first statement of the transaction. Funds are a 409. Two closures of
\* one account at once end as the later one alone does.
ReadBalances(u) ==
    /\ u \notin closing
    /\ ~ HasBalance(u)
    /\ closing' = closing \union {u}
    /\ before' = [before EXCEPT ![u] = TransactionsOf(u)]
    /\ UNCHANGED <<vars, account>>

\* The status, the refresh tokens (AuthSession) and the commit.
CloseAccount(u) ==
    /\ u \in closing
    /\ closing' = closing \ {u}
    /\ account' = [account EXCEPT ![u] = "CLOSED"]
    /\ UNCHANGED <<vars, before>>

\* The instance dies or the database is away.
AbandonClosure(u) ==
    /\ u \in closing
    /\ closing' = closing \ {u}
    /\ UNCHANGED <<vars, account, before>>

\* An admin may set any other status, that of a closed account too.
UpdateStatus(u) ==
    /\ \E s \in {"ACTIVE", "BLOCKED"} : account' = [account EXCEPT ![u] = s]
    /\ UNCHANGED <<vars, closing, before>>

ClosureNext ==
    \/ MoneyStep
    \/ \E u \in Closers :
          ReadBalances(u) \/ CloseAccount(u) \/ AbandonClosure(u) \/ UpdateStatus(u)

ClosureSpec == ClosureInit /\ [][ClosureNext]_allVars

-----------------------------------------------------------------------------
(* Properties *)

Empty(u) == wallet[u] = [available |-> 0, locked |-> 0, pending |-> 0]

\* What a closure could see is over for good: no transaction it found is
\* still open, so no settlement or reversal of one will change the wallet of
\* the closed account (closeAccount looks at all three balances).
NothingOpenAtClosure ==
    \A u \in Closers :
        account[u] = "CLOSED" =>
            \A k \in before[u] : txn[k].status \in {"SETTLED", "FAILED"}

\* Funds in a closed account came by a transaction committed after the
\* closure read the balances: nothing it could see is left behind.
OnlyLateFunds ==
    \A u \in Closers :
        account[u] = "CLOSED" /\ TransactionsOf(u) \subseteq before[u] => Empty(u)

\* users.service.ts:167-168: "closeAccount is atomic: re-reads balances inside its
\* transaction, rejects if any funds remain, then sets CLOSED": an account
\* that becomes CLOSED has no funds.
ClosedWithoutFunds ==
    [][\A u \in Closers :
          account[u] # "CLOSED" /\ account'[u] = "CLOSED" => Empty(u)]_allVars

=============================================================================
