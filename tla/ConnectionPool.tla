--------------------------- MODULE ConnectionPool ---------------------------
(***************************************************************************)
(* The money handlers of one instance over its pool of database            *)
(* connections (PrismaService: max, connectionTimeoutMillis).              *)
(*                                                                         *)
(* A call holds a connection as long as its transaction is open. All but   *)
(* transfer() look their wallet up inside it through the repository's own  *)
(* client, which takes a second connection; createPayout() looks the payee *)
(* up the same way, and by then it holds the wallet's row too. A lookup    *)
(* keeps its connection for one statement, so it is one step that needs a  *)
(* free connection.                                                        *)
(***************************************************************************)
EXTENDS PaymentSystem

CONSTANT PoolSize   \* database.poolSize

ASSUME PoolAssumption == PoolSize \in Nat \ {0}

VARIABLE known      \* what each open call has looked up: "wallet", "payee"

poolVars == <<vars, known>>

Holders == {r \in Reqs : pc[r] = "open"}

ConnectionFree == Cardinality(Holders) < PoolSize

PoolTypeOK ==
    /\ TypeOK
    /\ known \in [Reqs -> SUBSET {"wallet", "payee"}]

PoolInit == Init /\ known = [r \in Reqs |-> {}]

\* transfer() resolves both wallets before it opens its transaction.
NeedsWallet(r) ==
    pc[r] = "open" /\ input[r].op # "transfer" /\ "wallet" \notin known[r]

\* After the asserts and the debit, with the row locked.
NeedsPayee(r) ==
    /\ Locked(r)
    /\ Asserts(r)
    /\ input[r].op = "createPayout"
    /\ "wallet" \in known[r]
    /\ "payee" \notin known[r]

\* The call cannot go on without a second connection.
NeedsConnection(r) == NeedsWallet(r) \/ NeedsPayee(r)

-----------------------------------------------------------------------------

\* The lookups before the transaction, and the transaction itself, take a
\* connection. A call that gives up waiting for it leaves no trace.
Arrive(r) ==
    /\ ConnectionFree
    /\ \E in \in Inputs : RefuseEarly(r, in) \/ Replay(r, in) \/ Open(r, in)
    /\ UNCHANGED <<processorVars, known>>

\* findByUserId, resolveStripeConnectAccount, resolvePaypalEmail
LookUp(r) ==
    /\ ConnectionFree
    /\ \/ NeedsWallet(r) /\ known' = [known EXCEPT ![r] = @ \union {"wallet"}]
       \/ NeedsPayee(r) /\ known' = [known EXCEPT ![r] = @ \union {"payee"}]
    /\ UNCHANGED vars

Lock(r) ==
    /\ ~ NeedsWallet(r)
    /\ LockWallet(r)
    /\ UNCHANGED <<processorVars, known>>

\* The transaction ends and its connection goes back to the pool.
Forget(r) == known' = [known EXCEPT ![r] = {}]

Decide(r) ==
    /\ ~ NeedsPayee(r)
    /\ Resolve(r)
    /\ Forget(r)
    /\ UNCHANGED processorVars

\* Mutant: connectionTimeoutMillis is left at its default, 0: no timeout.
MutPoolTimesOut == FALSE

\* connectionTimeoutMillis: 10_000
PoolTimesOut == TRUE

\* The lookup's wait ends in an error, the callback throws, the transaction
\* is rolled back.
LookUpTimesOut(r) ==
    /\ PoolTimesOut
    /\ NeedsConnection(r)
    /\ ~ ConnectionFree
    /\ Abort(r)
    /\ Forget(r)
    /\ UNCHANGED processorVars

\* Everything else that ends a transaction early.
Break(r) ==
    /\ Abort(r)
    /\ Forget(r)
    /\ UNCHANGED processorVars

Leave(r) ==
    /\ Finish(r)
    /\ UNCHANGED <<processorVars, known>>

PoolNext ==
    \E r \in Reqs :
        Arrive(r) \/ LookUp(r) \/ Lock(r) \/ Decide(r) \/ LookUpTimesOut(r)
          \/ Break(r) \/ Leave(r)

PoolSpec == PoolInit /\ [][PoolNext]_poolVars

\* Row locks and connections are handed out in the order they are asked for;
\* the event loop runs what can go on; the pool's timer fires for a wait that
\* lasts. Prisma's own transaction timeout is not relied on.
PoolFairness ==
    \A r \in Reqs :
        /\ SF_poolVars(Lock(r))
        /\ SF_poolVars(LookUp(r))
        /\ WF_poolVars(LookUpTimesOut(r))
        /\ WF_poolVars(Decide(r))
        /\ WF_poolVars(Leave(r))

FairPoolSpec == PoolSpec /\ PoolFairness

-----------------------------------------------------------------------------
(* Properties *)

\* A call whose lookup finds the pool exhausted by calls that wait for it,
\* or for each other, gets on or is told so: holding one connection while
\* asking for a second never blocks for good.
WaitersServed == \A r \in Reqs : NeedsConnection(r) ~> ~ NeedsConnection(r)

=============================================================================
