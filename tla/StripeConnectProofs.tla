------------------------ MODULE StripeConnectProofs ------------------------
(***************************************************************************)
(* Theorems about StripeConnect for any users, accounts and calls, and for *)
(* any failures and deliveries.                                            *)
(***************************************************************************)
EXTENDS StripeConnect, TLAPS

\* A user is linked to an account that was created for that user.
LinkIsOwn ==
    \A u \in Users :
        stripeConnectAccountId[u] # NoAccount => owner[stripeConnectAccountId[u]] = u

\* An account that was persisted exists at Stripe, and what the column holds
\* was persisted.
LinkedExist ==
    /\ \A a \in everLinked : owner[a] # NoUser
    /\ \A u \in Users : stripeConnectAccountId[u] # NoAccount =>
          stripeConnectAccountId[u] \in everLinked

\* A call that is about to create an account has a user, and one that is
\* about to persist one holds the user's own, which nobody else holds or has
\* ever persisted.
InHandIsFresh ==
    \A c \in Calls :
        /\ pc[c] = "create" => user[c] \in Users
        /\ pc[c] = "persist" =>
              /\ user[c] \in Users
              /\ account[c] \in Accounts \ everLinked
              /\ owner[account[c]] = user[c]
              /\ \A d \in Calls \ {c} : pc[d] = "persist" => account[d] # account[c]

\* A call past the write, or one that read the column, holds an account that
\* was persisted; a deauthorization holds the account of the user it clears.
InHandIsLinked ==
    \A c \in Calls :
        /\ pc[c] \in {"link", "url", "clear", "cleared"} => account[c] \in everLinked
        /\ pc[c] = "clear" => owner[account[c]] = user[c]

\* What the column holds while a call is about to write it: nothing that was
\* persisted before the call came in, or the account a deauthorization is of.
StoredMeanwhile ==
    \A c \in Calls :
        /\ linkedBefore[c] \subseteq everLinked
        /\ pc[c] \in {"create", "persist"} =>
              stripeConnectAccountId[user[c]] \notin linkedBefore[c]
        /\ pc[c] = "clear" =>
              /\ user[c] \in Users
              /\ account[c] \in gone
              /\ \/ stripeConnectAccountId[user[c]] = account[c]
                 \/ stripeConnectAccountId[user[c]] \notin linkedBefore[c]

IndInv ==
    /\ TypeOK
    /\ LinkIsOwn
    /\ LinkedExist
    /\ InHandIsFresh
    /\ InHandIsLinked
    /\ ClearedStaysCleared
    /\ StoredMeanwhile

-----------------------------------------------------------------------------

LEMMA InitEstablishes == Init => IndInv
BY ConnectAssumption
   DEF Init, IndInv, TypeOK, LinkIsOwn, LinkedExist, InHandIsFresh, InHandIsLinked,
       ClearedStaysCleared, StoredMeanwhile

LEMMA DisconnectsKeeps ==
    ASSUME IndInv, NEW a \in Accounts, Disconnects(a)
    PROVE  IndInv'
BY DEF Disconnects, callVars, IndInv, TypeOK, LinkIsOwn, LinkedExist, InHandIsFresh,
       InHandIsLinked, ClearedStaysCleared, StoredMeanwhile

\* A request takes from the column what was persisted, or nothing.
LEMMA RequestKeeps ==
    ASSUME IndInv, NEW c \in Calls, NEW u \in Users,
           CreateConnectAccount(c, u) \/ RefreshOnboardingLink(c, u)
    PROVE  IndInv'
<1> USE DEF CreateConnectAccount, RefreshOnboardingLink, FirstStep, Begin, stripeVars
<1>1. TypeOK'
  <2>1. calls' \in 0..MaxCalls
    BY ConnectAssumption DEF IndInv, TypeOK
  <2>2. pc' \in [Calls -> {"idle", "create", "persist", "link", "clear"} \union Answers]
    BY DEF IndInv, TypeOK, Answers
  <2> QED
    BY <2>1, <2>2 DEF IndInv, TypeOK
<1>2. LinkIsOwn' /\ LinkedExist'
  BY DEF IndInv, LinkIsOwn, LinkedExist
<1>3. InHandIsFresh'
  BY DEF IndInv, TypeOK, InHandIsFresh
<1>4. InHandIsLinked'
  BY DEF IndInv, TypeOK, LinkedExist, InHandIsLinked
<1>5. ClearedStaysCleared'
  BY DEF IndInv, TypeOK, ClearedStaysCleared
<1>6. StoredMeanwhile'
  BY ConnectAssumption DEF IndInv, TypeOK, StoredMeanwhile
<1> QED
  BY <1>1, <1>2, <1>3, <1>4, <1>5, <1>6 DEF IndInv

\* A deauthorization finds its user by the column, so the account is the
\* user's own.
LEMMA WebhookKeeps ==
    ASSUME IndInv, NEW c \in Calls, NEW a \in Accounts, HandleAccountDeauthorized(c, a)
    PROVE  IndInv'
<1> USE DEF HandleAccountDeauthorized, UsersLinkedTo, Begin, stripeVars
<1>1. TypeOK'
  <2>1. calls' \in 0..MaxCalls
    BY ConnectAssumption DEF IndInv, TypeOK
  <2>2. pc' \in [Calls -> {"idle", "create", "persist", "link", "clear"} \union Answers]
    BY DEF IndInv, TypeOK, Answers
  <2> QED
    BY <2>1, <2>2 DEF IndInv, TypeOK
<1>2. LinkIsOwn' /\ LinkedExist'
  BY DEF IndInv, LinkIsOwn, LinkedExist
<1>3. InHandIsFresh'
  BY DEF IndInv, TypeOK, InHandIsFresh
<1>4. InHandIsLinked'
  BY ConnectAssumption DEF IndInv, TypeOK, LinkIsOwn, LinkedExist, InHandIsLinked
<1>5. ClearedStaysCleared'
  BY DEF IndInv, TypeOK, ClearedStaysCleared
<1>6. StoredMeanwhile'
  BY ConnectAssumption DEF IndInv, TypeOK, LinkedExist, StoredMeanwhile
<1> QED
  BY <1>1, <1>2, <1>3, <1>4, <1>5, <1>6 DEF IndInv

\* A new account had no owner, so nobody holds or has persisted it.
LEMMA CreateAccountKeeps ==
    ASSUME IndInv, NEW c \in Calls, NEW a \in Accounts, CreateAccount(c, a)
    PROVE  IndInv'
<1> USE DEF CreateAccount, GoTo
<1>1. user[c] \in Users
  BY DEF IndInv, InHandIsFresh
<1>2. a \notin everLinked /\ \A d \in Calls : pc[d] = "persist" => account[d] # a
  BY ConnectAssumption DEF IndInv, LinkedExist, InHandIsFresh
<1>3. TypeOK'
  BY DEF IndInv, TypeOK, Answers
<1>4. LinkIsOwn' /\ LinkedExist'
  BY <1>1, <1>2, ConnectAssumption DEF IndInv, TypeOK, LinkIsOwn, LinkedExist
<1>5. InHandIsFresh'
  BY <1>1, <1>2 DEF IndInv, TypeOK, InHandIsFresh
<1>6. InHandIsLinked'
  BY <1>2 DEF IndInv, TypeOK, InHandIsLinked
<1>7. ClearedStaysCleared'
  BY DEF IndInv, TypeOK, ClearedStaysCleared
<1>8. StoredMeanwhile'
  BY DEF IndInv, TypeOK, StoredMeanwhile
<1> QED
  BY <1>3, <1>4, <1>5, <1>6, <1>7, <1>8 DEF IndInv

\* What is persisted was never persisted before: it is nobody's cleared
\* account and no other call's.
LEMMA PersistAccountKeeps ==
    ASSUME IndInv, NEW c \in Calls, PersistAccount(c)
    PROVE  IndInv'
<1> USE DEF PersistAccount, SetConnectAccountId, GoTo, stripeVars
<1>1. /\ user[c] \in Users
      /\ account[c] \in Accounts \ everLinked
      /\ owner[account[c]] = user[c]
      /\ \A d \in Calls \ {c} : pc[d] = "persist" => account[d] # account[c]
  BY DEF IndInv, InHandIsFresh
<1>2. TypeOK'
  BY <1>1 DEF IndInv, TypeOK
<1>3. LinkIsOwn'
  BY <1>1 DEF IndInv, TypeOK, LinkIsOwn
<1>4. LinkedExist'
  BY <1>1, ConnectAssumption DEF IndInv, TypeOK, LinkedExist
<1>5. InHandIsFresh'
  BY <1>1 DEF IndInv, TypeOK, InHandIsFresh
<1>6. InHandIsLinked'
  BY <1>1 DEF IndInv, TypeOK, InHandIsLinked
<1>7. ClearedStaysCleared'
  BY <1>1 DEF IndInv, TypeOK, InHandIsLinked, ClearedStaysCleared
<1>8. StoredMeanwhile'
  BY <1>1 DEF IndInv, TypeOK, InHandIsFresh, InHandIsLinked, StoredMeanwhile
<1> QED
  BY <1>2, <1>3, <1>4, <1>5, <1>6, <1>7, <1>8 DEF IndInv

\* The account in hand is its user's own, so no other user has it.
LEMMA ClearConnectAccountIdKeeps ==
    ASSUME IndInv, NEW c \in Calls, ClearConnectAccountId(c)
    PROVE  IndInv'
<1> USE DEF ClearConnectAccountId, GoTo, stripeVars
<1>1. account[c] \in everLinked /\ owner[account[c]] = user[c]
  BY DEF IndInv, InHandIsLinked
<1>2. account[c] # NoAccount
  BY <1>1, ConnectAssumption DEF IndInv, TypeOK
<1>3. TypeOK'
  BY DEF IndInv, TypeOK, Answers
<1>4. LinkIsOwn' /\ LinkedExist'
  BY DEF IndInv, TypeOK, LinkIsOwn, LinkedExist
<1>5. InHandIsFresh'
  BY DEF IndInv, TypeOK, InHandIsFresh
<1>6. InHandIsLinked'
  BY <1>1 DEF IndInv, TypeOK, InHandIsLinked
<1>7. ClearedStaysCleared'
  <2>1. \A u \in Users : stripeConnectAccountId'[u] # account[c]
    BY <1>1, <1>2 DEF IndInv, TypeOK, LinkIsOwn
  <2>2. \A d \in Calls : pc[d] = "cleared" => account[d] \in everLinked
    BY DEF IndInv, InHandIsLinked
  <2>3. \A u \in Users : stripeConnectAccountId'[u] \in {stripeConnectAccountId[u], NoAccount}
    BY DEF IndInv, TypeOK
  <2>4. NoAccount \notin everLinked
    BY ConnectAssumption DEF IndInv, TypeOK
  <2> QED
    BY <2>1, <2>2, <2>3, <2>4 DEF IndInv, TypeOK, ClearedStaysCleared
<1>8. StoredMeanwhile'
  BY ConnectAssumption DEF IndInv, TypeOK, InHandIsFresh, StoredMeanwhile
<1> QED
  BY <1>3, <1>4, <1>5, <1>6, <1>7, <1>8 DEF IndInv

LEMMA AnswerKeeps ==
    ASSUME IndInv, NEW c \in Calls, GenerateOnboardingLink(c) \/ CallFails(c) \/ Finish(c)
    PROVE  IndInv'
<1> USE DEF GenerateOnboardingLink, CallFails, AfterFailure, Finish, GoTo, stripeVars, Answers
<1>1. TypeOK'
  BY DEF IndInv, TypeOK
<1>2. LinkIsOwn' /\ LinkedExist'
  BY DEF IndInv, LinkIsOwn, LinkedExist
<1>3. InHandIsFresh'
  BY DEF IndInv, TypeOK, InHandIsFresh
<1>4. InHandIsLinked'
  BY DEF IndInv, TypeOK, InHandIsLinked
<1>5. ClearedStaysCleared'
  BY DEF IndInv, TypeOK, ClearedStaysCleared
<1>6. StoredMeanwhile'
  BY DEF IndInv, TypeOK, StoredMeanwhile
<1> QED
  BY <1>1, <1>2, <1>3, <1>4, <1>5, <1>6 DEF IndInv

-----------------------------------------------------------------------------

\* What is inductive: whatever the column, a call or a webhook has in hand is
\* an account of its own user, an account is persisted once, and what a call
\* is about to overwrite was stored while it was under way.
THEOREM Invariance == Spec => []IndInv
<1>1. IndInv /\ [Next]_vars => IndInv'
  <2> SUFFICES ASSUME IndInv, [Next]_vars PROVE IndInv'
    OBVIOUS
  <2>1. CASE UNCHANGED vars
    BY <2>1 DEF vars, stripeVars, callVars, IndInv, TypeOK, LinkIsOwn, LinkedExist,
                InHandIsFresh, InHandIsLinked, ClearedStaysCleared, StoredMeanwhile
  <2>2. CASE Stripe
    BY <2>2, DisconnectsKeeps DEF Stripe
  <2>3. ASSUME NEW c \in Calls, Request(c) PROVE IndInv'
    BY <2>3, RequestKeeps DEF Request
  <2>4. ASSUME NEW c \in Calls, Webhook(c) PROVE IndInv'
    BY <2>4, WebhookKeeps DEF Webhook
  <2>5. ASSUME NEW c \in Calls, Work(c) PROVE IndInv'
    BY <2>5, CreateAccountKeeps, PersistAccountKeeps, ClearConnectAccountIdKeeps, AnswerKeeps
       DEF Work
  <2> QED
    BY <2>1, <2>2, <2>3, <2>4, <2>5 DEF Next
<1> QED
  BY InitEstablishes, <1>1, PTL DEF Spec

\* Every variable keeps its type: the column, Stripe's side and the calls.
THEOREM ConnectTypeCorrect == Spec => []TypeOK
BY Invariance, PTL DEF IndInv

\* A stored link is lost only to the deauthorization of its account or to an
\* onboarding or deauthorization that was under way when it was stored.
THEOREM LinksOutlastLaterCalls == Spec => LinkLostToOverlap
<1>1. ASSUME IndInv, [Next]_vars, NEW u \in Users, LosesLink(u)
      PROVE  \E c \in Calls : MayTakeLink(c, u)
  <2>1. PICK c \in Calls : PersistAccount(c) \/ ClearConnectAccountId(c)
    BY <1>1 DEF Next, Stripe, Disconnects, Request, CreateConnectAccount,
                RefreshOnboardingLink, Webhook, HandleAccountDeauthorized, Work,
                CreateAccount, GenerateOnboardingLink, CallFails, Finish, vars, LosesLink
  <2>2. CASE PersistAccount(c)
    <3>1. user[c] = u /\ pc[c] = "persist" /\ pc'[c] # pc[c]
      BY <1>1, <2>2 DEF PersistAccount, SetConnectAccountId, GoTo, IndInv, TypeOK, LosesLink
    <3> QED
      BY <1>1, <3>1 DEF IndInv, StoredMeanwhile, MayTakeLink
  <2>3. CASE ClearConnectAccountId(c)
    <3>1. user[c] = u /\ pc[c] = "clear" /\ pc'[c] # pc[c]
      BY <1>1, <2>3 DEF ClearConnectAccountId, GoTo, IndInv, TypeOK, LosesLink
    <3> QED
      BY <1>1, <3>1 DEF IndInv, StoredMeanwhile, MayTakeLink
  <2> QED
    BY <2>1, <2>2, <2>3
<1>2. IndInv /\ [Next]_vars =>
          [\A u \in Users : LosesLink(u) => \E c \in Calls : MayTakeLink(c, u)]_vars
  BY <1>1
<1> QED
  BY <1>2, Invariance, PTL DEF Spec, LinkLostToOverlap

\* Nobody is sent to onboard an account that the database never knew.
THEOREM UrlsArePersisted == Spec => []UrlOnlyForPersisted
<1>1. IndInv => UrlOnlyForPersisted
  BY DEF IndInv, InHandIsLinked, UrlOnlyForPersisted
<1> QED
  BY <1>1, Invariance, PTL

\* An account that a deauthorization has cleared is not linked again by a
\* call that is still under way.
THEOREM ClearedIsFinal == Spec => []ClearedStaysCleared
BY Invariance, PTL DEF IndInv

=============================================================================
