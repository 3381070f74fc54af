----------------------------- MODULE MCClosure -----------------------------
(* Instances of AccountClosure for TLC. *)
EXTENDS AccountClosure, MCInputs

\* Wallet 1 is emptied into wallet 2 or into a payout; a transfer, a deposit
\* or its own failed payout fills it again. Each key can serve two operations.
ClosureInputs == {
    Req("transfer", 1, 2, 2, "USD", "INTERNAL", k1),
    Req("createPayout", 1, 0, 2, "USD", "PAYPAL", k1),
    Req("transfer", 2, 1, 1, "USD", "INTERNAL", k2),
    Req("confirmDeposit", 1, 0, 2, "USD", "PAYPAL", k2)}

=============================================================================
