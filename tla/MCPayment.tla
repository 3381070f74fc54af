----------------------------- MODULE MCPayment -----------------------------
(* Instances of PaymentSystem for TLC. *)
EXTENDS DocumentedClaims, WalletAccounting, MCInputs

\* Instances are interchangeable too.
PipelineSymmetry == ReqSymmetry \union Permutations(Procs)

\* Every handler and every way of being refused. Wallet 3 is not ACTIVE. Two
\* different operations share a key; the spends on wallet 1 exceed its funds.
MixedInputs == {
    Req("withdraw", 1, 0, 2, "USD", "INTERNAL", k1),
    Req("transfer", 1, 2, 1, "USD", "INTERNAL", k1),
    Req("transfer", 2, 1, 1, "USD", "INTERNAL", k2),
    Req("createPayout", 1, 0, 1, "USD", "STRIPE", k2),
    Req("deposit", 1, 0, 1, "USD", "INTERNAL", k3),
    Req("confirmDeposit", 2, 0, 1, "USD", "PAYPAL", k3),
    Req("transfer", 1, 1, 1, "USD", "INTERNAL", k3),
    Req("transfer", 1, 3, 1, "USD", "INTERNAL", k3),
    Req("transfer", 1, 0, 1, "USD", "INTERNAL", k3),
    Req("withdraw", 2, 0, 1, "EUR", "INTERNAL", k3)}

\* One transaction for each way the processor can close an event, next to
\* spends that race its settlements: the transfer is covered only once the
\* deposit has settled.
PipelineInputs == {
    Req("confirmDeposit", 1, 0, 2, "USD", "PAYPAL", k1),
    Req("createPayout", 1, 0, 1, "USD", "STRIPE", k2),
    Req("transfer", 1, 2, 3, "USD", "INTERNAL", k2),
    Req("withdraw", 2, 0, 2, "USD", "INTERNAL", k2)}

\* One event of each kind.
DrainInputs == {
    Req("createPayout", 1, 0, 1, "USD", "STRIPE", k1),
    Req("confirmDeposit", 1, 0, 1, "USD", "PAYPAL", k2),
    Req("deposit", 2, 0, 1, "USD", "INTERNAL", k2),
    Req("confirmDeposit", 2, 0, 1, "USD", "STRIPE", k2)}

=============================================================================
