--------------------------- MODULE FundsContract ---------------------------
(***************************************************************************)
(* What the wallet promises its users, with no locks, no outbox, no        *)
(* retries and no instances: every idempotency key is used for at most one *)
(* operation, an operation is checked against the balance it really        *)
(* spends from, its effect on the balances is one indivisible step, and    *)
(* an initiated deposit or withdrawal is closed at most once.              *)
(***************************************************************************)
EXTENDS Integers

CONSTANTS Wallets, Keys, Amounts, Opening

VARIABLES
    funds,          \* the balances of each wallet
    operation       \* what each idempotency key was used for

contractVars == <<funds, operation>>

Nobody == 0

Operation(type, status, amount, sender, receiver) ==
    [type |-> type, status |-> status, amount |-> amount,
     sender |-> sender, receiver |-> receiver]

Unused == Operation("NONE", "ABSENT", 0, Nobody, Nobody)

FundsInit ==
    /\ funds = [w \in Wallets |->
                   [available |-> Opening[w], locked |-> 0, pending |-> 0]]
    /\ operation = [k \in Keys |-> Unused]

UseOnce(k, op) ==
    /\ operation[k] = Unused
    /\ operation' = [operation EXCEPT ![k] = op]

\* A step adds to or takes from one column of one wallet at a time.
AddAvailable(f, w, a) == [f EXCEPT ![w].available = @ + a]
SubAvailable(f, w, a) == [f EXCEPT ![w].available = @ - a]
AddLocked(f, w, a) == [f EXCEPT ![w].locked = @ + a]
SubLocked(f, w, a) == [f EXCEPT ![w].locked = @ - a]
AddPending(f, w, a) == [f EXCEPT ![w].pending = @ + a]
SubPending(f, w, a) == [f EXCEPT ![w].pending = @ - a]

StartDeposit(k, w, a) ==
    /\ UseOnce(k, Operation("DEPOSIT", "INITIATED", a, Nobody, w))
    /\ funds' = AddPending(funds, w, a)

StartWithdrawal(k, w, a) ==
    /\ funds[w].available >= a
    /\ UseOnce(k, Operation("WITHDRAWAL", "INITIATED", a, w, Nobody))
    /\ funds' = AddLocked(SubAvailable(funds, w, a), w, a)

MoveFunds(k, from, to, a) ==
    /\ from # to
    /\ funds[from].available >= a
    /\ UseOnce(k, Operation("TRANSFER", "SETTLED", a, from, to))
    /\ funds' = AddAvailable(SubAvailable(funds, from, a), to, a)

CloseOnce(k, type, status) ==
    /\ operation[k].type = type
    /\ operation[k].status = "INITIATED"
    /\ operation' = [operation EXCEPT ![k].status = status]

Arrived(k, w, a) ==
    /\ w = operation[k].receiver /\ a = operation[k].amount
    /\ CloseOnce(k, "DEPOSIT", "SETTLED")
    /\ funds' = AddAvailable(SubPending(funds, w, a), w, a)

NeverArrived(k, w, a) ==
    /\ w = operation[k].receiver /\ a = operation[k].amount
    /\ CloseOnce(k, "DEPOSIT", "FAILED")
    /\ funds' = SubPending(funds, w, a)

PaidOut(k, w, a) ==
    /\ w = operation[k].sender /\ a = operation[k].amount
    /\ CloseOnce(k, "WITHDRAWAL", "SETTLED")
    /\ funds' = SubLocked(funds, w, a)

GivenBack(k, w, a) ==
    /\ w = operation[k].sender /\ a = operation[k].amount
    /\ CloseOnce(k, "WITHDRAWAL", "FAILED")
    /\ funds' = AddAvailable(SubLocked(funds, w, a), w, a)

FundsNext ==
    \E k \in Keys, w \in Wallets, a \in Amounts :
        \/ StartDeposit(k, w, a)
        \/ StartWithdrawal(k, w, a)
        \/ \E to \in Wallets : MoveFunds(k, w, to, a)
        \/ Arrived(k, w, a)
        \/ NeverArrived(k, w, a)
        \/ PaidOut(k, w, a)
        \/ GivenBack(k, w, a)

FundsSpec == FundsInit /\ [][FundsNext]_contractVars

=============================================================================
