--------------------------- MODULE StripeConnect ---------------------------
(***************************************************************************)
(* Stripe Connect: StripeConnectService, its repository (the column        *)
(* User.stripeConnectAccountId) and the webhook controller and service.    *)
(* Stripe itself is external: it creates accounts, lets their owners       *)
(* disconnect, and sends each event any number of times, in any order.     *)
(* Events the handlers only log or audit are left out.                     *)
(***************************************************************************)
EXTENDS Naturals

CONSTANTS
    Users,
    Accounts,       \* the account ids Stripe can ever give out
    Calls,          \* requests and webhook deliveries in flight together
    MaxCalls,       \* bound: requests and deliveries over a behaviour
    NoUser,
    NoAccount

ASSUME ConnectAssumption ==
    /\ NoUser \notin Users
    /\ NoAccount \notin Accounts
    /\ MaxCalls \in Nat

VARIABLES
    stripeConnectAccountId,     \* of each user
    owner,                      \* at Stripe: the user an account was created for
    gone,                       \* at Stripe: the accounts that were disconnected
    everLinked,                 \* history: the accounts that were persisted
    pc, user, account,          \* the calls: step, user, account id in hand
    linkedBefore,               \* history: everLinked when each call came in
    calls                       \* how many calls have come in

stripeVars == <<owner, gone>>
callVars == <<pc, user, account, linkedBefore, calls>>
vars == <<stripeConnectAccountId, stripeVars, everLinked, callVars>>

Answers == {"url", "cleared", "acknowledged", "failed"}

TypeOK ==
    /\ stripeConnectAccountId \in [Users -> Accounts \union {NoAccount}]
    /\ owner \in [Accounts -> Users \union {NoUser}]
    /\ gone \subseteq Accounts
    /\ everLinked \subseteq Accounts
    /\ pc \in [Calls -> {"idle", "create", "persist", "link", "clear"} \union Answers]
    /\ user \in [Calls -> Users \union {NoUser}]
    /\ account \in [Calls -> Accounts \union {NoAccount}]
    /\ linkedBefore \in [Calls -> SUBSET Accounts]
    /\ calls \in 0..MaxCalls

Init ==
    /\ stripeConnectAccountId = [u \in Users |-> NoAccount]
    /\ owner = [a \in Accounts |-> NoUser]
    /\ gone = {}
    /\ everLinked = {}
    /\ pc = [c \in Calls |-> "idle"]
    /\ user = [c \in Calls |-> NoUser]
    /\ account = [c \in Calls |-> NoAccount]
    /\ linkedBefore = [c \in Calls |-> {}]
    /\ calls = 0

Begin(c, u, a, next) ==
    /\ pc[c] = "idle"
    /\ calls < MaxCalls
    /\ calls' = calls + 1
    /\ pc' = [pc EXCEPT ![c] = next]
    /\ user' = [user EXCEPT ![c] = u]
    /\ account' = [account EXCEPT ![c] = a]
    /\ linkedBefore' = [linkedBefore EXCEPT ![c] = everLinked]

GoTo(c, from, to) ==
    /\ pc[c] = from
    /\ pc' = [pc EXCEPT ![c] = to]
    /\ UNCHANGED <<user, linkedBefore, calls>>

-----------------------------------------------------------------------------
(* Onboarding *)

\* Mutant: an account that is already stored is not looked at.
MutFirstStepCreates(u) == "create"

\* Mutant: the account that was read is written back.
MutFirstStep(u) == IF stripeConnectAccountId[u] = NoAccount THEN "create" ELSE "persist"

\* An account that is already stored is used again.
FirstStep(u) == IF stripeConnectAccountId[u] = NoAccount THEN "create" ELSE "link"

CreateConnectAccount(c, u) ==
    /\ Begin(c, u, stripeConnectAccountId[u], FirstStep(u))
    /\ UNCHANGED <<stripeConnectAccountId, stripeVars, everLinked>>

\* Stripe accepts any number of accounts with one e-mail. A failure is
\* reported alike whether or not the account came into being.
CreateAccount(c, a) ==
    /\ owner[a] = NoUser
    /\ owner' = [owner EXCEPT ![a] = user[c]]
    /\ \/ GoTo(c, "create", "persist") /\ account' = [account EXCEPT ![c] = a]
       \/ GoTo(c, "create", "failed") /\ UNCHANGED account
    /\ UNCHANGED <<stripeConnectAccountId, gone, everLinked>>

SetConnectAccountId(u, a) == [stripeConnectAccountId EXCEPT ![u] = a]

\* findByConnectAccountId
UsersLinkedTo(a) == {u \in Users : stripeConnectAccountId[u] = a}

\* The column is unique: another user's account id is refused (CallFails).
PersistAccount(c) ==
    /\ GoTo(c, "persist", "link")
    /\ UsersLinkedTo(account[c]) \subseteq {user[c]}
    /\ stripeConnectAccountId' = SetConnectAccountId(user[c], account[c])
    /\ everLinked' = everLinked \union {account[c]}
    /\ UNCHANGED <<account, stripeVars>>

\* createAccountLink
GenerateOnboardingLink(c) ==
    /\ GoTo(c, "link", "url")
    /\ UNCHANGED <<stripeConnectAccountId, account, stripeVars, everLinked>>

\* Only an account that is stored; otherwise a 400.
RefreshOnboardingLink(c, u) ==
    /\ Begin(c, u, stripeConnectAccountId[u],
             IF stripeConnectAccountId[u] = NoAccount THEN "failed" ELSE "link")
    /\ UNCHANGED <<stripeConnectAccountId, stripeVars, everLinked>>

\* Mutant: a failed creation is logged and swallowed.
MutAfterFailedCreation(c) == IF pc[c] = "create" THEN "persist" ELSE "failed"

\* Mutant: a failed write is logged and swallowed.
MutAfterFailedWrite(c) == IF pc[c] = "persist" THEN "link" ELSE "failed"

\* A request reports the failure; a webhook is acknowledged all the same.
\* What an instance that dies leaves behind is no different.
AfterFailure(c) == IF pc[c] = "clear" THEN "acknowledged" ELSE "failed"

CallFails(c) ==
    /\ pc[c] \in {"create", "persist", "link", "clear"}
    /\ GoTo(c, pc[c], AfterFailure(c))
    /\ UNCHANGED <<stripeConnectAccountId, account, stripeVars, everLinked>>

-----------------------------------------------------------------------------
(* Webhooks *)

\* account.application.deauthorized of a, again if Stripe wants. It is also
\* acknowledged when the look-up finds nobody or fails.
HandleAccountDeauthorized(c, a) ==
    /\ a \in gone
    /\ \/ \E u \in UsersLinkedTo(a) : Begin(c, u, a, "clear")
       \/ Begin(c, NoUser, a, "acknowledged")
    /\ UNCHANGED <<stripeConnectAccountId, stripeVars, everLinked>>

\* By the user's id, whatever the column holds by now.
ClearConnectAccountId(c) ==
    /\ GoTo(c, "clear", "cleared")
    /\ stripeConnectAccountId' = [stripeConnectAccountId EXCEPT ![user[c]] = NoAccount]
    /\ UNCHANGED <<account, stripeVars, everLinked>>

Finish(c) ==
    /\ pc[c] \in Answers
    /\ pc' = [pc EXCEPT ![c] = "idle"]
    /\ user' = [user EXCEPT ![c] = NoUser]
    /\ account' = [account EXCEPT ![c] = NoAccount]
    /\ linkedBefore' = [linkedBefore EXCEPT ![c] = {}]
    /\ UNCHANGED <<stripeConnectAccountId, stripeVars, everLinked, calls>>

-----------------------------------------------------------------------------
(* Stripe *)

Disconnects(a) ==
    /\ owner[a] # NoUser
    /\ a \notin gone
    /\ gone' = gone \union {a}
    /\ UNCHANGED <<stripeConnectAccountId, owner, everLinked, callVars>>

-----------------------------------------------------------------------------

Request(c) == \E u \in Users : CreateConnectAccount(c, u) \/ RefreshOnboardingLink(c, u)

Webhook(c) == \E a \in Accounts : HandleAccountDeauthorized(c, a)

Work(c) ==
    \/ \E a \in Accounts : CreateAccount(c, a)
    \/ PersistAccount(c) \/ GenerateOnboardingLink(c) \/ ClearConnectAccountId(c)
    \/ CallFails(c) \/ Finish(c)

Stripe == \E a \in Accounts : Disconnects(a)

Next == Stripe \/ \E c \in Calls : Request(c) \/ Webhook(c) \/ Work(c)

Spec == Init /\ [][Next]_vars

-----------------------------------------------------------------------------
(* Properties *)

LosesLink(u) ==
    /\ stripeConnectAccountId[u] # NoAccount
    /\ stripeConnectAccountId'[u] # stripeConnectAccountId[u]

\* c takes a step for u, and was under way when the link was stored or is the
\* deauthorization of its account.
MayTakeLink(c, u) ==
    /\ pc'[c] # pc[c]
    /\ user[c] = u
    /\ \/ stripeConnectAccountId[u] \notin linkedBefore[c]
       \/ /\ pc[c] = "clear"
          /\ account[c] = stripeConnectAccountId[u]
          /\ account[c] \in gone

\* A stored link is removed by the deauthorization of that very account, or
\* lost to a call that was under way when it was stored: to a second
\* onboarding that had read no account, or to a deauthorization that had
\* looked up the account stored before. No request or delivery that comes in
\* later replaces or wipes it (createConnectAccount's idempotent path,
\* handleAccountDeauthorized's look-up by account).
LinkLostToOverlap ==
    [][\A u \in Users : LosesLink(u) => \E c \in Calls : MayTakeLink(c, u)]_vars

\* Nobody is sent to onboard an account the database never knew, also when
\* the write after accounts.create fails (createAndPersistAccount's order).
UrlOnlyForPersisted == \A c \in Calls : pc[c] = "url" => account[c] \in everLinked

\* Once a deauthorization has been handled, no call that read the account
\* earlier brings it back (the idempotent path writes nothing).
ClearedStaysCleared ==
    \A c \in Calls :
        pc[c] = "cleared" => \A u \in Users : stripeConnectAccountId[u] # account[c]

=============================================================================
