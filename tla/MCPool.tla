------------------------------- MODULE MCPool -------------------------------
(* Instances of ConnectionPool for TLC. *)
EXTENDS ConnectionPool, MCInputs

\* Opposite transfers, and calls on each wallet between them that need a
\* second connection, one of them twice.
CrossingInputs == {
    Req("transfer", 1, 2, 2, "USD", "INTERNAL", k1),
    Req("transfer", 2, 1, 1, "USD", "INTERNAL", k2),
    Req("createPayout", 1, 0, 1, "USD", "STRIPE", k3),
    Req("withdraw", 2, 0, 2, "USD", "INTERNAL", k3)}

=============================================================================
