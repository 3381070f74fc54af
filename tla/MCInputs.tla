------------------------------ MODULE MCInputs ------------------------------
(* What the instances of PaymentSystem and its compositions share. *)
EXTENDS PaymentSystem, TLC

CONSTANTS k1, k2, k3

MCOpening == [w \in Wallets |-> 2]
MCCurrencies == {"USD", "EUR"}
MCCurrencyOf == [w \in Wallets |-> "USD"]

\* Handler calls are interchangeable.
ReqSymmetry == Permutations(Reqs)

Req(op, user, peer, amount, currency, provider, key) ==
    [op |-> op, user |-> user, peer |-> peer, amount |-> amount,
     currency |-> currency, provider |-> provider, key |-> key]

=============================================================================
