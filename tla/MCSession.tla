----------------------------- MODULE MCSession -----------------------------
(* Instances of AuthSession for TLC. *)
EXTENDS AuthSession, TLC

SessionSymmetry == Permutations(Tokens) \union Permutations(Calls) \union Permutations(Users)

=============================================================================
