----------------------------- MODULE MCConnect -----------------------------
(* Instances of StripeConnect for TLC. *)
EXTENDS StripeConnect, TLC

ConnectSymmetry ==
    Permutations(Users) \union Permutations(Accounts) \union Permutations(Calls)

=============================================================================
