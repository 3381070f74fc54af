---------------------------- MODULE AuthSession ----------------------------
(***************************************************************************)
(* Sessions: AuthService, SessionService, the RefreshToken rows of         *)
(* AuthRepository, the access-token denylist, and the user operations that *)
(* end sessions (UsersService.changePassword, closeAccount and the admin's *)
(* status update).                                                         *)
(*                                                                         *)
(* A token stands for the pair generateTokenPair returns: the refresh      *)
(* token, by its unique hash, and the access token, by its jti. Every      *)
(* transaction, and every statement whose reading is used later, is a step *)
(* of its own; time is the environment's.                                  *)
(***************************************************************************)
EXTENDS Naturals, FiniteSets

CONSTANTS
    Users,
    Tokens,         \* the pairs that can ever be issued
    Calls,          \* handler calls that can be in flight together
    Ops,            \* the operations clients use
    MaxSessions,    \* auth.maxSessions
    MaxCalls,       \* bound: calls over a behaviour
    NoUser,
    NoToken

AllOps == {"register", "login", "refresh", "logout", "logoutAll", "changePassword",
           "closeAccount", "updateUserStatus"}

ASSUME SessionAssumption ==
    /\ NoUser \notin Users
    /\ NoToken \notin Tokens
    /\ MaxSessions \in Nat \ {0}
    /\ MaxCalls \in Nat
    /\ Ops \subseteq AllOps

VARIABLES
    account,        \* User.status; all but ACTIVE and CLOSED are "BLOCKED"
    row,            \* RefreshToken rows
    cache,          \* Redis rcache:v1:<old hash>: the pair it was rotated into
    denied,         \* Redis denylist:<jti>
    pc,             \* where each call is, or how it was answered
    req,            \* what it was asked
    found,          \* what findRefreshTokenWithGrace told it
    held,           \* the token it chose to evict, rotated into, or replayed
    snap,           \* the rows its UPDATE of all tokens saw
    calls,          \* how many calls have come in
    raced,          \* history: tokens of rotations that defeat an eviction or expiry
    missed          \* history: tokens rotated while a call was ending what it saw

storeVars == <<account, row, cache, denied>>
vars == <<account, row, cache, denied, pc, req, found, held, snap, calls, raced, missed>>

-----------------------------------------------------------------------------
(* Rows *)

Row ==
    [state : {"none", "live", "revoked", "deleted"},
     user : Users \union {NoUser},
     parent : Tokens \union {NoToken},      \* the token it was rotated from
     session : Tokens \union {NoToken},     \* the login it descends from
     expired : BOOLEAN,                     \* expiresAt has passed
     late : BOOLEAN]                        \* revoked longer ago than the grace period

NoRow ==
    [state |-> "none", user |-> NoUser, parent |-> NoToken, session |-> NoToken,
     expired |-> FALSE, late |-> FALSE]

Unused == {t \in Tokens : row[t].state = "none"}

\* Mutant: the rotated row is inserted without its user.
MutIssue(rows, t, u, parent, session) ==
    [rows EXCEPT ![t] =
        [state |-> "live", user |-> IF parent = NoToken THEN u ELSE NoUser,
         parent |-> parent, session |-> session, expired |-> FALSE, late |-> FALSE]]

Issue(rows, t, u, parent, session) ==
    [rows EXCEPT ![t] =
        [state |-> "live", user |-> u, parent |-> parent, session |-> session,
         expired |-> FALSE, late |-> FALSE]]

\* revokedAt := now
Revoke(rows, S) ==
    [t \in Tokens |->
        IF t \in S THEN [rows[t] EXCEPT !.state = "revoked", !.late = FALSE] ELSE rows[t]]

\* revokedAt: null
Unrevoked(u) == {t \in Tokens : row[t].state = "live" /\ row[t].user = u}

\* revokedAt: null, expiresAt > now
ActiveTokens(u) == {t \in Unrevoked(u) : ~ row[t].expired}

\* findRefreshTokenWithGrace
Classify(t) ==
    IF row[t].state \in {"none", "deleted"} THEN "NOT_FOUND"
    ELSE IF row[t].expired THEN "EXPIRED"
    ELSE IF row[t].state = "live" THEN "ACTIVE"
    ELSE IF row[t].late THEN "REUSE_DETECTED"
    ELSE "GRACE_PERIOD"

-----------------------------------------------------------------------------
(* Calls *)

NoRequest == [op |-> "none", user |-> NoUser, token |-> NoToken, jti |-> NoToken]

Answers == {"issued", "replayed", "refused", "done", "aborted"}

Steps == {"session", "room", "full", "evict", "grace", "active", "rotate", "store",
          "lookup", "revokeAll", "revokingAll", "clear", "deny", "revoke"}

TypeOK ==
    /\ account \in [Users -> {"NONE", "ACTIVE", "BLOCKED", "CLOSED"}]
    /\ row \in [Tokens -> Row]
    /\ \A t \in Tokens : row[t].state # "none" =>
          row[t].user \in Users /\ row[t].session \in Tokens
    /\ cache \in [Tokens -> Tokens \union {NoToken}]
    /\ denied \subseteq Tokens
    /\ pc \in [Calls -> {"idle"} \union Steps \union Answers]
    /\ req \in [Calls -> [op : AllOps \union {"none"}, user : Users \union {NoUser},
                          token : Tokens \union {NoToken}, jti : Tokens \union {NoToken}]]
    /\ found \in [Calls -> {"NONE", "NOT_FOUND", "EXPIRED", "ACTIVE", "GRACE_PERIOD",
                            "REUSE_DETECTED"}]
    /\ held \in [Calls -> Tokens \union {NoToken}]
    /\ snap \in [Calls -> SUBSET Tokens]
    /\ calls \in 0..MaxCalls
    /\ raced \subseteq Tokens
    /\ missed \in [Calls -> SUBSET Tokens]

Init ==
    /\ account = [u \in Users |-> "NONE"]
    /\ row = [t \in Tokens |-> NoRow]
    /\ cache = [t \in Tokens |-> NoToken]
    /\ denied = {}
    /\ pc = [c \in Calls |-> "idle"]
    /\ req = [c \in Calls |-> NoRequest]
    /\ found = [c \in Calls |-> "NONE"]
    /\ held = [c \in Calls |-> NoToken]
    /\ snap = [c \in Calls |-> {}]
    /\ calls = 0
    /\ raced = {}
    /\ missed = [c \in Calls |-> {}]

\* A call comes in and goes to a first step.
Begin(c, op, u, t, j, next) ==
    /\ op \in Ops
    /\ calls < MaxCalls
    /\ calls' = calls + 1
    /\ pc[c] = "idle"
    /\ pc' = [pc EXCEPT ![c] = next]
    /\ req' = [req EXCEPT ![c] = [op |-> op, user |-> u, token |-> t, jti |-> j]]

GoTo(c, from, to) ==
    /\ pc[c] = from
    /\ pc' = [pc EXCEPT ![c] = to]
    /\ UNCHANGED calls

IsRevoked(j) == j \in denied

\* JwtStrategy.validate: the access token is not denied, its user is ACTIVE.
\* It expires before the refresh token issued with it.
Authenticated(j) ==
    /\ row[j].state # "none"
    /\ ~ row[j].expired
    /\ ~ IsRevoked(j)
    /\ account[row[j].user] = "ACTIVE"

-----------------------------------------------------------------------------
(* register, login: createSessionAtomic *)

\* A taken e-mail or phone is a 409. The wallet is of no interest here.
CreateUserWithWallet(u) ==
    IF account[u] = "NONE" THEN [account EXCEPT ![u] = "ACTIVE"] ELSE account

\* The user is committed before the session is created.
Register(c, u) ==
    /\ Begin(c, "register", u, NoToken, NoToken,
             IF account[u] = "NONE" THEN "session" ELSE "refused")
    /\ account' = CreateUserWithWallet(u)
    /\ UNCHANGED <<row, cache, denied, found, held, snap>>

\* The credentials hold; wrong ones are refused without a trace.
Login(c, u) ==
    /\ account[u] # "NONE"
    /\ Begin(c, "login", u, NoToken, NoToken,
             IF account[u] = "ACTIVE" THEN "session" ELSE "refused")
    /\ UNCHANGED <<storeVars, found, held, snap>>

\* Mutant: no advisory lock.
MutAdvisoryLockFree(u) == TRUE

\* pg_advisory_xact_lock on the user's id
AdvisoryLockFree(u) ==
    \A d \in Calls : req[d].user = u => pc[d] \notin {"room", "full", "evict"}

CountSessions(c) ==
    LET u == req[c].user
    IN  /\ pc[c] = "session"
        /\ AdvisoryLockFree(u)
        /\ GoTo(c, "session", IF Cardinality(ActiveTokens(u)) >= MaxSessions
                              THEN "full" ELSE "room")
        /\ UNCHANGED <<storeVars, req, found, held, snap>>

\* findFirst: which one is the oldest is not told apart.
ChooseVictim(c) ==
    /\ \/ /\ GoTo(c, "full", "evict")
          /\ \E t \in ActiveTokens(req[c].user) : held' = [held EXCEPT ![c] = t]
       \/ /\ GoTo(c, "full", "room")
          /\ ActiveTokens(req[c].user) = {}
          /\ UNCHANGED held
    /\ UNCHANGED <<storeVars, req, found, snap>>

\* The eviction goes by id alone: it overwrites the revokedAt of a row that
\* was revoked meanwhile.
CreateSession(c, n) ==
    /\ \/ GoTo(c, "room", "issued") /\ row' = Issue(row, n, req[c].user, NoToken, n)
       \/ /\ GoTo(c, "evict", "issued")
          /\ row[held[c]].state # "deleted"
          /\ row' = Issue(Revoke(row, {held[c]}), n, req[c].user, NoToken, n)
    /\ held' = [held EXCEPT ![c] = NoToken]
    /\ UNCHANGED <<account, cache, denied, req, found, snap>>

\* P2025: the clean-up has deleted the row.
VictimGone(c) ==
    /\ GoTo(c, "evict", "aborted")
    /\ row[held[c]].state = "deleted"
    /\ UNCHANGED <<storeVars, req, found, held, snap>>

-----------------------------------------------------------------------------
(* refresh *)

Refresh(c, t) ==
    /\ row[t].state # "none"
    /\ Begin(c, "refresh", row[t].user, t, NoToken,
             [NOT_FOUND |-> "refused", EXPIRED |-> "refused", ACTIVE |-> "active",
              GRACE_PERIOD |-> "grace", REUSE_DETECTED |-> "revokeAll"][Classify(t)])
    /\ found' = [found EXCEPT ![c] = Classify(t)]
    /\ UNCHANGED <<storeVars, held, snap>>

\* getRotationCache has the pair.
Replay(c) ==
    /\ GoTo(c, "grace", "replayed")
    /\ cache[req[c].token] # NoToken
    /\ held' = [held EXCEPT ![c] = cache[req[c].token]]
    /\ UNCHANGED <<storeVars, req, found, snap>>

\* The entry is not there, or Redis or the decryption fails.
CacheMiss(c) ==
    /\ GoTo(c, "grace", "clear")
    /\ UNCHANGED <<storeVars, req, found, held, snap>>

CheckUser(c) ==
    /\ pc[c] = "active"
    /\ GoTo(c, "active", IF account[req[c].user] = "ACTIVE" THEN "rotate" ELSE "refused")
    /\ UNCHANGED <<storeVars, req, found, held, snap>>

\* Mutant: the update goes by the hash alone.
MutRotatable(t) == row[t].state \in {"live", "revoked"}

\* where: { tokenHash, revokedAt: null }
Rotatable(t) == row[t].state = "live"

\* rotateRefreshToken: revoke the old, insert the new, in one transaction.
Rotate(c, n) ==
    LET t == req[c].token
    IN  /\ GoTo(c, "rotate", "store")
        /\ Rotatable(t)
        /\ row' = Issue(Revoke(row, {t}), n, req[c].user, t, row[t].session)
        /\ held' = [held EXCEPT ![c] = n]
        /\ UNCHANGED <<account, cache, denied, req, found, snap>>

\* P2025: somebody revoked or deleted the row since it was read.
RotateFails(c) ==
    /\ GoTo(c, "rotate", "aborted")
    /\ ~ Rotatable(req[c].token)
    /\ UNCHANGED <<storeVars, req, found, held, snap>>

\* Mutant: the entry is stored under the new token.
MutCacheKey(c) == held[c]

\* rotationCacheKey(oldTokenHash)
CacheKey(c) == req[c].token

\* storeRotationCache, after the commit; a failure is logged and swallowed.
StoreCache(c) ==
    /\ GoTo(c, "store", "issued")
    /\ cache' \in {cache, [cache EXCEPT ![CacheKey(c)] = held[c]]}
    /\ UNCHANGED <<account, row, denied, req, found, held, snap>>

-----------------------------------------------------------------------------
(* Ending sessions *)

\* The refresh token presented need not be of the pair that authenticates.
Logout(c, j, t) ==
    /\ Authenticated(j)
    /\ row[t].state # "none"
    /\ Begin(c, "logout", row[t].user, t, j, "lookup")
    /\ UNCHANGED <<storeVars, found, held, snap>>

LookUp(c) ==
    LET t == req[c].token
    IN  /\ pc[c] = "lookup"
        /\ GoTo(c, "lookup",
                IF Classify(t) = "NOT_FOUND" THEN "done"
                ELSE IF Classify(t) = "REUSE_DETECTED" THEN "revokeAll"
                ELSE IF row[t].user # row[req[c].jti].user THEN "refused"
                ELSE "clear")
        /\ found' = [found EXCEPT ![c] = Classify(t)]
        /\ UNCHANGED <<storeVars, req, held, snap>>

\* logoutAll; changePassword and closeAccount, which may refuse.
EndAll(c, op, j) ==
    /\ Authenticated(j)
    /\ op \in {"logoutAll", "changePassword", "closeAccount"}
    /\ \/ Begin(c, op, row[j].user, NoToken, j, "revokeAll")
       \/ op # "logoutAll" /\ Begin(c, op, row[j].user, NoToken, j, "refused")
    /\ UNCHANGED <<storeVars, found, held, snap>>

\* The calls whose transaction updates the User row before the tokens.
UpdatesUser(c) == req[c].op \in {"changePassword", "closeAccount", "updateUserStatus"}

UserRowFree(u) ==
    \A d \in Calls : pc[d] = "revokingAll" /\ UpdatesUser(d) => req[d].user # u

\* An admin closes an account the way its user does, unless funds remain, and
\* sets any other status or a role without touching sessions.
UpdateUserStatus(c, u) ==
    /\ account[u] # "NONE"
    /\ \/ /\ \E next \in {"revokeAll", "refused"} :
                Begin(c, "updateUserStatus", u, NoToken, NoToken, next)
          /\ UNCHANGED account
       \/ /\ Begin(c, "updateUserStatus", u, NoToken, NoToken, "done")
          /\ UserRowFree(u)
          /\ \E s \in {account[u], "ACTIVE", "BLOCKED"} : account' = [account EXCEPT ![u] = s]
    /\ UNCHANGED <<row, cache, denied, found, held, snap>>

\* updateMany takes its snapshot ...
SnapshotAll(c) ==
    /\ GoTo(c, "revokeAll", "revokingAll")
    /\ UpdatesUser(c) => UserRowFree(req[c].user)
    /\ snap' = [snap EXCEPT ![c] = Unrevoked(req[c].user)]
    /\ UNCHANGED <<storeVars, req, found, held>>

\* Mutant: the session that asks is spared.
MutTargets(c) == {t \in snap[c] : row[t].state = "live"} \ {req[c].jti}

\* ... and its WHERE is evaluated again on each row it meets.
Targets(c) == {t \in snap[c] : row[t].state = "live"}

Closes(c) == req[c].op \in {"closeAccount", "updateUserStatus"}

AfterRevokeAll(c) ==
    IF req[c].op = "refresh" THEN "clear"
    ELSE IF req[c].op \in {"logout", "updateUserStatus"} THEN "done"
    ELSE "deny"

\* ... and commits, with the account's closure in the same transaction.
RevokeAll(c) ==
    /\ GoTo(c, "revokingAll", AfterRevokeAll(c))
    /\ row' = Revoke(row, Targets(c))
    /\ account' = IF Closes(c) THEN [account EXCEPT ![req[c].user] = "CLOSED"] ELSE account
    /\ UNCHANGED <<cache, denied, req, found, held, snap>>

\* clearRotationCache; a failure is swallowed.
ClearCache(c) ==
    /\ GoTo(c, "clear", IF req[c].op = "refresh" THEN "refused" ELSE "deny")
    /\ cache' \in {cache, [cache EXCEPT ![req[c].token] = NoToken]}
    /\ UNCHANGED <<account, row, denied, req, found, held, snap>>

\* TokenDenylistService.revoke fails softly.
Deny(c) ==
    /\ GoTo(c, "deny", IF req[c].op = "logout" /\ found[c] = "ACTIVE"
                       THEN "revoke" ELSE "done")
    /\ denied' \in {denied, denied \union {req[c].jti}}
    /\ UNCHANGED <<account, row, cache, req, found, held, snap>>

\* revokeRefreshToken: nothing, if the row was revoked meanwhile.
RevokeOne(c) ==
    /\ GoTo(c, "revoke", "done")
    /\ row' = Revoke(row, {t \in {req[c].token} : row[t].state = "live"})
    /\ UNCHANGED <<account, cache, denied, req, found, held, snap>>

-----------------------------------------------------------------------------
(* Faults, time, clean-up *)

\* The instance dies or the database is away.
Die(c) ==
    /\ pc[c] \in Steps
    /\ GoTo(c, pc[c], "aborted")
    /\ UNCHANGED <<storeVars, req, found, held, snap>>

Finish(c) ==
    /\ GoTo(c, pc[c], "idle")
    /\ pc[c] \in Answers
    /\ req' = [req EXCEPT ![c] = NoRequest]
    /\ found' = [found EXCEPT ![c] = "NONE"]
    /\ held' = [held EXCEPT ![c] = NoToken]
    /\ snap' = [snap EXCEPT ![c] = {}]
    /\ UNCHANGED storeVars

\* From here on nobody asks when the token was revoked.
Expire(t) ==
    /\ row[t].state \in {"live", "revoked"}
    /\ ~ row[t].expired
    /\ row' = [row EXCEPT ![t].expired = TRUE, ![t].late = FALSE]
    /\ UNCHANGED <<account, cache, denied, pc, req, found, held, snap, calls>>

GraceEnds(t) ==
    /\ row[t].state = "revoked"
    /\ ~ row[t].expired
    /\ ~ row[t].late
    /\ row' = [row EXCEPT ![t].late = TRUE]
    /\ UNCHANGED <<account, cache, denied, pc, req, found, held, snap, calls>>

CacheExpires(t) ==
    /\ cache[t] # NoToken
    /\ cache' = [cache EXCEPT ![t] = NoToken]
    /\ UNCHANGED <<account, row, denied, pc, req, found, held, snap, calls>>

\* deleteAllExpiredTokens, a batch at a time. Two instances that clean at
\* once do no harm: deleting a row again deletes nothing.
DeleteExpired(t) ==
    /\ row[t].state \in {"live", "revoked"}
    /\ row[t].expired
    /\ row' = [row EXCEPT ![t].state = "deleted"]
    /\ UNCHANGED <<account, cache, denied, pc, req, found, held, snap, calls>>

-----------------------------------------------------------------------------

Arrive(c) ==
    \/ \E u \in Users : Register(c, u) \/ Login(c, u) \/ UpdateUserStatus(c, u)
    \/ \E t \in Tokens : Refresh(c, t)
    \/ \E j, t \in Tokens : Logout(c, j, t)
    \/ \E op \in Ops, j \in Tokens : EndAll(c, op, j)

Work(c) ==
    \/ CountSessions(c) \/ ChooseVictim(c) \/ VictimGone(c)
    \/ \E n \in Unused : CreateSession(c, n) \/ Rotate(c, n)
    \/ LookUp(c) \/ Replay(c) \/ CacheMiss(c) \/ CheckUser(c) \/ RotateFails(c) \/ StoreCache(c)
    \/ SnapshotAll(c) \/ RevokeAll(c) \/ ClearCache(c) \/ Deny(c) \/ RevokeOne(c)

Environment == \E t \in Tokens : Expire(t) \/ GraceEnds(t) \/ CacheExpires(t) \/ DeleteExpired(t)

\* A rotation of t now keeps alive what was about to end: a login has chosen
\* t for eviction, or t has expired since it was classified.
Overtakes(t) == row[t].expired \/ \E d \in Calls : pc[d] = "evict" /\ held[d] = t

\* The tokens rotations issue in this step.
RotatedNow == {n \in Tokens : row[n].state = "none" /\ row'[n].parent # NoToken}

\* c has read which tokens it ends, by the snapshot of its UPDATE or by a
\* logout's look-up, and has yet to commit.
Ending(c) ==
    \/ pc[c] = "revokingAll"
    \/ req[c].op = "logout" /\ found[c] = "ACTIVE" /\ pc[c] \in {"clear", "deny", "revoke"}

Track ==
    /\ raced' = raced \union {n \in RotatedNow : Overtakes(row'[n].parent)}
    /\ missed' = [c \in Calls |->
          IF pc'[c] = "idle" THEN {}
          ELSE missed[c] \union {n \in RotatedNow : Ending(c) /\ row'[n].user = req[c].user}]

Next ==
    /\ \/ \E c \in Calls : Arrive(c) \/ Work(c) \/ Die(c) \/ Finish(c)
       \/ Environment
    /\ Track

Spec == Init /\ [][Next]_vars

-----------------------------------------------------------------------------
(* Properties *)

\* A session is one chain: a token is rotated into at most one successor and
\* at most one token of a session is live, however many refreshes with the
\* same token race each other, evictions and logouts (rotateRefreshToken's
\* revokedAt: null).
SessionIsOneChain ==
    \A s, t \in Tokens : s # t =>
        /\ row[s].parent = row[t].parent => row[s].parent = NoToken
        /\ row[s].session = row[t].session =>
              ~ (row[s].state = "live" /\ row[t].state = "live")

\* A retry is answered with the very pair its token was rotated into, or not
\* at all: never with a pair of another session or user.
ReplayIsTheSuccessor ==
    \A c \in Calls :
        pc[c] = "replayed" =>
            LET pair == row[held[c]]
            IN  /\ pair.parent = req[c].token
                /\ pair.user = row[req[c].token].user
                /\ pair.session = row[req[c].token].session

\* When logout, logout-all, a password change or a closure is answered, no
\* token it read as live is live, whatever rotations and evictions ran
\* between its read and its write.
WhatWasSeenIsRevoked ==
    \A c \in Calls :
        pc[c] = "done" =>
            /\ \A t \in snap[c] : row[t].state # "live"
            /\ req[c].op = "logout" /\ found[c] = "ACTIVE" =>
                  row[req[c].token].state # "live"

\* A user has at most MaxSessions active sessions, plus one for each rotation
\* that got between a login's choice of a victim and its eviction, or renewed
\* a token that expired under it. Concurrent logins add nothing: they take
\* the advisory lock of createSessionAtomic, which rotations do not.
SessionsBounded ==
    \A u \in Users :
        Cardinality(ActiveTokens(u)) <=
            MaxSessions + Cardinality({t \in raced : row[t].user = u})

\* The tokens c found live and was asked to end.
SeenLive(c) ==
    snap[c] \union {t \in {req[c].token} : req[c].op = "logout" /\ found[c] = "ACTIVE"}

\* When a logout, a logout-all, a password change or a closure is answered, a
\* session it found live goes on only by a rotation that committed between
\* its own reading (the UPDATE's snapshot, the logout's look-up) and its own
\* commit: no earlier and no later refresh, retry or login keeps one alive.
SurvivorsRaced ==
    \A c \in Calls :
        pc[c] = "done" =>
            \A s \in SeenLive(c), t \in Tokens :
                row[t].session = row[s].session /\ row[t].state = "live" =>
                    \E r \in missed[c] : row[r].session = row[s].session

=============================================================================
