-------------------------- MODULE DocumentedClaims --------------------------
(***************************************************************************)
(* Statements the repository makes about the payment pipeline that the     *)
(* code does not keep. Each is checked by a run that must refute it.       *)
(***************************************************************************)
EXTENDS PaymentSystem

\* payment.controller.ts:107, of the INITIATED status: "will become SETTLED
\* or FAILED after processor runs".
InitiatedIsClosed ==
    \A k \in Keys :
        txn[k].status = "INITIATED" /\ txn[k].provider \in Providers ~>
            txn[k].status \in {"SETTLED", "FAILED"}

\* payment-settlement.service.ts:334, where failWithdrawal gives the funds
\* back: "withdrawal did not go through".
FailedPayoutDidNotGoThrough ==
    \A k \in Keys :
        txn[k].type = "WITHDRAWAL" /\ txn[k].status = "FAILED" => moved[k] = 0

\* README.md:603: "retries should not create duplicate financial operations".
PayoutMadeOnce == \A k \in Keys : txn[k].type = "WITHDRAWAL" => moved[k] <= 1

=============================================================================
