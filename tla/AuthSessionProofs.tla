------------------------- MODULE AuthSessionProofs -------------------------
(***************************************************************************)
(* Theorems about AuthSession for any users, tokens, calls and any         *)
(* MaxSessions: what rotations, evictions, revocations and their races can *)
(* do to a session.                                                        *)
(***************************************************************************)
EXTENDS AuthSession, FiniteSetTheorems, TLAPS

Issued == {t \in Tokens : row[t].state # "none"}

\* A token that was not issued has no row; one that was descends from a login
\* that was; and a token with a successor is no longer live and shares its
\* user and session with it. Only finitely many have been issued.
RowsOK ==
    /\ IsFiniteSet(Issued)
    /\ \A t \in Tokens : row[t].state = "none" => row[t] = NoRow
    /\ \A t \in Issued : row[t].session \in Issued
    /\ \A t \in Tokens : row[t].parent # NoToken =>
          /\ row[row[t].parent].state \in {"revoked", "deleted"}
          /\ row[t].user = row[row[t].parent].user
          /\ row[t].session = row[row[t].parent].session

\* A cached pair is the one its key was rotated into.
CacheOK == \A t \in Tokens : cache[t] # NoToken => row[cache[t]].parent = t

\* What a call was asked is of a token that was issued, and goes with its step.
AskedOK(c) ==
    LET op == req[c].op
    IN  /\ op \in {"refresh", "logout"} =>
              req[c].token \in Issued /\ req[c].user = row[req[c].token].user
        /\ op \in {"logout", "logoutAll", "changePassword", "closeAccount"} =>
              req[c].jti \in Tokens
        /\ pc[c] \in {"session", "room", "full", "evict"} => req[c].user \in Users
        /\ pc[c] \in {"grace", "active", "rotate", "store", "replayed"} => op = "refresh"
        /\ pc[c] \in {"lookup", "revoke"} => op = "logout"
        /\ pc[c] = "clear" => op \in {"refresh", "logout"}
        /\ pc[c] = "deny" => op \in {"logout", "logoutAll", "changePassword", "closeAccount"}
        /\ pc[c] \in {"revokeAll", "revokingAll"} => op \notin {"register", "login", "none"}
        /\ pc[c] = "idle" => found[c] = "NONE"
        /\ op = "logout" /\ found[c] = "ACTIVE" =>
              pc[c] \in {"clear", "deny", "revoke", "done", "refused", "aborted"}
        /\ pc[c] = "done" /\ op = "logout" /\ found[c] = "ACTIVE" =>
              row[req[c].token].state # "live"

\* The token a call holds: a victim of its own user, or the successor of the
\* token it was asked to refresh.
HeldOK(c) ==
    /\ pc[c] = "evict" => held[c] \in Issued /\ row[held[c]].user = req[c].user
    /\ pc[c] \in {"store", "replayed"} =>
          held[c] \in Tokens /\ row[held[c]].parent = req[c].token

\* The rows an UPDATE of all tokens saw: none is live once it has committed.
SnapOK(c) ==
    /\ pc[c] = "idle" => snap[c] = {}
    /\ \A t \in snap[c] : t \in Issued /\ row[t].user = req[c].user
    /\ pc[c] \notin {"revokingAll", "aborted"} => \A t \in snap[c] : row[t].state # "live"

\* A live token of a session that a call found live and ends is one it saw, or
\* the call has missed a rotation of that session.
EndedOK(c) ==
    pc[c] \notin {"refused", "aborted"} =>
        \A s \in SeenLive(c), t \in Tokens :
            row[t].session = row[s].session /\ row[t].state = "live" =>
                t \in SeenLive(c) \/ \E r \in missed[c] : row[r].session = row[s].session

CallOK(c) == AskedOK(c) /\ HeldOK(c) /\ SnapOK(c) /\ EndedOK(c)

IndInv ==
    /\ TypeOK
    /\ RowsOK
    /\ SessionIsOneChain
    /\ CacheOK
    /\ \A c \in Calls : CallOK(c)

-----------------------------------------------------------------------------
(* What a step does to the rows. *)

\* A row keeps whose it is, and is not brought back to life.
Ages(t) ==
    /\ row'[t].user = row[t].user
    /\ row'[t].parent = row[t].parent
    /\ row'[t].session = row[t].session
    /\ row[t].state = "none" => row'[t] = row[t]
    /\ row[t].state # "none" => row'[t].state # "none"
    /\ row[t].state \in {"revoked", "deleted"} => row'[t].state \in {"revoked", "deleted"}
    /\ row[t].expired => row'[t].expired

NoneIssued ==
    /\ row' \in [Tokens -> Row]
    /\ \A t \in Tokens : Ages(t)

\* n becomes the first token of a session, or the successor of p.
Issues(n, u, p) ==
    /\ row' \in [Tokens -> Row]
    /\ n \in Unused
    /\ u \in Users
    /\ \A t \in Tokens \ {n} : Ages(t)
    /\ row'[n].state = "live" /\ row'[n].user = u /\ row'[n].parent = p /\ ~ row'[n].expired
    /\ \/ p = NoToken /\ row'[n].session = n
       \/ /\ p \in Tokens
          /\ row[p].state = "live" /\ row'[p].state = "revoked"
          /\ u = row[p].user /\ row'[n].session = row[p].session

\* What the invariants of the calls need to know of it.
Evolves ==
    /\ \A t \in Issued :
          /\ Ages(t)
          /\ t \in Issued'
          /\ row'[t].state = "live" => row[t].state = "live"
    /\ \A t \in Tokens \ Issued :
          row'[t].state = "live" =>
              \/ row'[t].session = t
              \/ \E p \in Issued :
                    /\ row[p].state = "live" /\ row'[t].session = row[p].session
                    /\ \A d \in Calls :
                          Ending(d) /\ req[d].user = row[p].user /\ pc'[d] # "idle" =>
                              t \in missed'[d]
    /\ \A d \in Calls : pc'[d] # "idle" => missed[d] \subseteq missed'[d]

LEMMA RowTyping ==
    ASSUME TypeOK, NEW t \in Tokens
    PROVE  /\ row[t] \in Row
           /\ row[t].state \in {"none", "live", "revoked", "deleted"}
           /\ row[t].parent \in Tokens \union {NoToken}
           /\ row[t].session \in Tokens \union {NoToken}
           /\ row[t].user \in Users \union {NoUser}
           /\ row[t].expired \in BOOLEAN
BY DEF TypeOK, Row

\* The history variables' part of every step.
LEMMA TrackTypes ==
    ASSUME TypeOK, Track
    PROVE  /\ raced' \subseteq Tokens /\ missed' \in [Calls -> SUBSET Tokens]
           /\ \A d \in Calls : pc'[d] # "idle" => missed[d] \subseteq missed'[d]
BY DEF TypeOK, Track, RotatedNow

\* A step that issues nothing leaves sessions chains.
LEMMA NoneIssuedKeepsRows ==
    ASSUME TypeOK, RowsOK, SessionIsOneChain, NoneIssued, Track
    PROVE  RowsOK' /\ SessionIsOneChain' /\ Evolves /\ raced' = raced
<1>1. Issued' = Issued
  BY DEF NoneIssued, Ages, Issued
<1>2. \A t \in Tokens : row'[t].state = "live" => row[t].state = "live"
  BY RowTyping DEF NoneIssued, Ages
<1>3. raced' = raced
  <2>1. \A t \in Tokens : row[t].state = "none" => row'[t].parent = NoToken
    BY DEF NoneIssued, Ages, RowsOK, NoRow
  <2> QED
    BY <2>1 DEF Track, RotatedNow
<1>4. RowsOK'
  <2>1. IsFiniteSet(Issued')
    BY <1>1 DEF RowsOK
  <2>2. \A t \in Tokens : row'[t].state = "none" => row'[t] = NoRow
    BY <1>1 DEF NoneIssued, Ages, RowsOK, Issued
  <2>3. \A t \in Issued' : row'[t].session \in Issued'
    BY <1>1 DEF NoneIssued, Ages, RowsOK, Issued
  <2>4. ASSUME NEW t \in Tokens, row'[t].parent # NoToken
        PROVE  /\ row'[row'[t].parent].state \in {"revoked", "deleted"}
               /\ row'[t].user = row'[row'[t].parent].user
               /\ row'[t].session = row'[row'[t].parent].session
    <3>1. row[t].parent \in Tokens /\ row'[t].parent = row[t].parent
      BY <2>4, RowTyping DEF NoneIssued, Ages
    <3> QED
      BY <3>1, <2>4 DEF NoneIssued, Ages, RowsOK
  <2> QED
    BY <2>1, <2>2, <2>3, <2>4 DEF RowsOK
<1>5. SessionIsOneChain'
  BY <1>2 DEF NoneIssued, Ages, SessionIsOneChain
<1>6. Evolves
  BY <1>1, <1>2, TrackTypes DEF NoneIssued, Evolves, Issued
<1> QED
  BY <1>3, <1>4, <1>5, <1>6

\* Nor does one that issues a token: a new login is a session of its own, and
\* the only live token of a session is the one that can be rotated.
LEMMA IssueKeepsRows ==
    ASSUME TypeOK, RowsOK, SessionIsOneChain, Track,
           NEW n, NEW u, NEW p, Issues(n, u, p)
    PROVE  /\ RowsOK' /\ SessionIsOneChain' /\ Evolves
           /\ p = NoToken => raced' = raced
           /\ p # NoToken => raced' = raced \union (IF Overtakes(p) THEN {n} ELSE {})
<1>1. n \in Tokens /\ row[n].state = "none" /\ row[n] = NoRow
  BY DEF Issues, Unused, RowsOK
<1>2. Issued' = Issued \union {n} /\ n \notin Issued
  BY <1>1 DEF Issues, Ages, Issued
<1>3. \A t \in Tokens \ {n} : row'[t].state = "live" => row[t].state = "live"
  BY RowTyping DEF Issues, Ages
<1>4. \A t \in Issued : row[t].session # n
  BY <1>1 DEF RowsOK, Issued
<1>5. \A t \in Tokens : row[t].parent # n
  BY <1>1, SessionAssumption DEF RowsOK
<1>6. p \in Tokens => p \in Issued /\ p # n /\ \A t \in Tokens : row[t].parent # p
  BY <1>1, RowTyping, SessionAssumption DEF Issues, RowsOK, Issued
<1>7. p # NoToken => p \in Tokens /\ p # n
  BY <1>6, SessionAssumption DEF Issues
<1>8. \A t \in Tokens \ {n} : row[t].state = "none" => row'[t].parent = NoToken
  BY DEF Issues, Ages, RowsOK, NoRow
<1>9. /\ p = NoToken => raced' = raced
      /\ p # NoToken => raced' = raced \union (IF Overtakes(p) THEN {n} ELSE {})
  BY <1>1, <1>8 DEF Track, RotatedNow, Issues
<1>10. RowsOK'
  <2>1. IsFiniteSet(Issued')
    BY <1>2, FS_AddElement DEF RowsOK
  <2>2. \A t \in Tokens : row'[t].state = "none" => row'[t] = NoRow
    BY <1>2 DEF Issues, Ages, RowsOK, Issued
  <2>3. \A t \in Issued' : row'[t].session \in Issued'
    BY <1>2, <1>6 DEF Issues, Ages, RowsOK, Issued
  <2>4. ASSUME NEW t \in Tokens, row'[t].parent # NoToken
        PROVE  /\ row'[row'[t].parent].state \in {"revoked", "deleted"}
               /\ row'[t].user = row'[row'[t].parent].user
               /\ row'[t].session = row'[row'[t].parent].session
    <3>1. CASE t = n
      BY <2>4, <3>1, <1>7 DEF Issues, Ages
    <3>2. CASE t # n
      <4>1. row[t].parent \in Tokens \ {n} /\ row'[t].parent = row[t].parent
        BY <2>4, <3>2, <1>5, RowTyping DEF Issues, Ages
      <4>2. row'[t].user = row[t].user /\ row'[t].session = row[t].session
        BY <3>2 DEF Issues, Ages
      <4> QED
        BY <4>1, <4>2, <2>4 DEF Issues, Ages, RowsOK
    <3> QED
      BY <3>1, <3>2
  <2> QED
    BY <2>1, <2>2, <2>3, <2>4 DEF RowsOK
<1>11. SessionIsOneChain'
  <2> SUFFICES ASSUME NEW s \in Tokens, NEW t \in Tokens, s # t, t # n
               PROVE  /\ row'[s].parent = row'[t].parent => row'[s].parent = NoToken
                      /\ row'[s].session = row'[t].session =>
                            ~ (row'[s].state = "live" /\ row'[t].state = "live")
    BY DEF SessionIsOneChain
  <2>1. Ages(t) /\ (row'[t].state = "live" => row[t].state = "live")
    BY <1>3 DEF Issues
  <2>2. CASE s # n
    BY <2>1, <2>2, <1>3 DEF Issues, Ages, SessionIsOneChain
  <2>3. CASE s = n /\ p = NoToken
    <3>1. row'[t].session # n \/ row'[t].state # "live"
      BY <2>1, <1>4 DEF Ages, Issued
    <3> QED
      BY <2>1, <2>3, <3>1, SessionAssumption DEF Issues, Ages
  <2>4. CASE s = n /\ p # NoToken
    <3>1. row'[t].parent # p
      BY <2>1, <2>4, <1>6, <1>7 DEF Ages
    <3>2. t # p => row[t].session # row[p].session \/ row[t].state # "live"
      BY <2>4, <1>7 DEF Issues, SessionIsOneChain
    <3> QED
      BY <2>1, <2>4, <1>7, <3>1, <3>2 DEF Issues, Ages
  <2> QED
    BY <2>2, <2>3, <2>4
<1>12. Evolves
  <2>1. \A t \in Issued :
            Ages(t) /\ t \in Issued' /\ (row'[t].state = "live" => row[t].state = "live")
    BY <1>2, <1>3 DEF Issues, Issued
  <2>2. ASSUME NEW t \in Tokens \ Issued, row'[t].state = "live"
        PROVE  \/ row'[t].session = t
               \/ \E q \in Issued :
                     /\ row[q].state = "live" /\ row'[t].session = row[q].session
                     /\ \A d \in Calls :
                           Ending(d) /\ req[d].user = row[q].user /\ pc'[d] # "idle" =>
                               t \in missed'[d]
    <3>1. t = n
      BY <2>2, <1>2, <1>3 DEF Issued
    <3>2. CASE p = NoToken
      BY <3>1, <3>2, SessionAssumption DEF Issues
    <3>3. CASE p # NoToken
      <4>1. /\ p \in Issued /\ row[p].state = "live" /\ row'[n].session = row[p].session
            /\ row'[n].user = row[p].user /\ n \in RotatedNow
        BY <3>3, <1>1, <1>6, <1>7, SessionAssumption DEF Issues, RotatedNow
      <4>2. \A d \in Calls :
                Ending(d) /\ req[d].user = row[p].user /\ pc'[d] # "idle" => n \in missed'[d]
        BY <4>1 DEF Track
      <4> QED
        BY <3>1, <4>1, <4>2
    <3> QED
      BY <3>2, <3>3
  <2> QED
    BY <2>1, <2>2, TrackTypes DEF Evolves
<1> QED
  BY <1>9, <1>10, <1>11, <1>12

-----------------------------------------------------------------------------
(* What a step of one call does to the others. *)

Kept(d) ==
    /\ pc'[d] = pc[d] /\ req'[d] = req[d] /\ found'[d] = found[d]
    /\ held'[d] = held[d] /\ snap'[d] = snap[d]

LEMMA SnapKept ==
    ASSUME Evolves, NEW d \in Calls, SnapOK(d), req'[d] = req[d], snap'[d] = snap[d],
           \/ pc'[d] = pc[d]
           \/ pc[d] \notin {"revokingAll", "aborted"} /\ pc'[d] \notin {"idle", "revokingAll"}
    PROVE  SnapOK(d)'
BY DEF SnapOK, Evolves, Ages

\* What a call saw is overtaken only by rotations that it misses: one of its
\* tokens can be rotated only while the call has yet to commit.
LEMMA EndedKept ==
    ASSUME TypeOK, RowsOK, Evolves, NEW d \in Calls, AskedOK(d), SnapOK(d), EndedOK(d),
           req'[d] = req[d], snap'[d] = snap[d], found'[d] = found[d],
           \/ pc'[d] = pc[d]
           \/ pc[d] \notin {"refused", "aborted"} /\ pc'[d] # "idle"
    PROVE  EndedOK(d)'
<1> SUFFICES ASSUME pc'[d] \notin {"refused", "aborted"},
                    NEW s \in SeenLive(d), NEW t \in Tokens,
                    row'[t].session = row'[s].session, row'[t].state = "live"
             PROVE  t \in SeenLive(d) \/ \E r \in missed'[d] : row'[r].session = row'[s].session
  BY DEF EndedOK, SeenLive
<1>1. pc[d] \notin {"idle", "refused", "aborted"} /\ pc'[d] # "idle"
  BY DEF SeenLive, AskedOK, SnapOK
<1>2. \A p \in SeenLive(d) : p \in Issued /\ row[p].user = req[d].user
  BY DEF SeenLive, AskedOK, SnapOK
<1>3. row'[s].session = row[s].session /\ row[s].session \in Issued
  BY <1>2 DEF Evolves, Ages, RowsOK
<1>4. ASSUME NEW r \in missed[d], row[r].session = row[s].session
      PROVE  r \in missed'[d] /\ row'[r].session = row'[s].session
  <2>1. r \in Issued
    BY <1>3, <1>4, SessionAssumption DEF RowsOK, NoRow, Issued, TypeOK
  <2> QED
    BY <1>1, <1>3, <1>4, <2>1 DEF Evolves, Ages
<1>5. CASE t \in Issued
  BY <1>1, <1>3, <1>4, <1>5 DEF EndedOK, Evolves, Ages
<1>6. CASE t \notin Issued
  <2>1. row'[t].session # t
    BY <1>3, <1>6
  <2>2. PICK p \in Issued :
            /\ row[p].state = "live" /\ row'[t].session = row[p].session
            /\ Ending(d) /\ req[d].user = row[p].user /\ pc'[d] # "idle" => t \in missed'[d]
    BY <1>6, <2>1 DEF Evolves
  <2>3. p \in SeenLive(d) \/ \E r \in missed[d] : row[r].session = row[s].session
    BY <1>1, <1>3, <2>2 DEF EndedOK, Issued
  <2>4. CASE p \in SeenLive(d)
    <3>1. Ending(d)
      BY <1>1, <2>2, <2>4 DEF SeenLive, SnapOK, AskedOK, Ending
    <3> QED
      BY <1>1, <1>2, <2>2, <2>4, <3>1
  <2> QED
    BY <1>4, <2>3, <2>4
<1> QED
  BY <1>5, <1>6

\* A token that was read is still the same token.
LEMMA OtherCallKept ==
    ASSUME TypeOK, RowsOK, Evolves, NEW d \in Calls, CallOK(d), Kept(d)
    PROVE  CallOK(d)'
<1>1. AskedOK(d)'
  BY DEF CallOK, AskedOK, Kept, Evolves, Ages, Issued
<1>2. HeldOK(d)'
  <2>1.
          held[d] \in Tokens /\ row[held[d]].parent = req[d].token
             /\ pc[d] \in {"store", "replayed"} => held[d] \in Issued
    BY SessionAssumption DEF RowsOK, NoRow, Issued, CallOK, AskedOK
  <2> QED
    BY <2>1 DEF CallOK, HeldOK, Kept, Evolves, Ages, Issued
<1>3. SnapOK(d)'
  BY SnapKept DEF CallOK, Kept
<1>4. EndedOK(d)'
  BY EndedKept DEF CallOK, Kept
<1> QED
  BY <1>1, <1>2, <1>3, <1>4 DEF CallOK

\* So a step keeps the invariant if it keeps the types and what concerns the
\* call that takes it.
LEMMA StepKeeps ==
    ASSUME IndInv, NEW c \in Calls,
           TypeOK', RowsOK', SessionIsOneChain', Evolves, CacheOK', CallOK(c)',
           \A d \in Calls \ {c} : Kept(d)
    PROVE  IndInv'
BY OtherCallKept DEF IndInv

-----------------------------------------------------------------------------
(* Steps that leave the rows alone. *)

LEMMA SameRows ==
    ASSUME IndInv, row' = row, Track
    PROVE  RowsOK' /\ SessionIsOneChain' /\ Evolves /\ raced' = raced /\ Issued' = Issued
<1>1. NoneIssued
  BY RowTyping DEF IndInv, TypeOK, NoneIssued, Ages
<1> QED
  BY <1>1, NoneIssuedKeepsRows DEF IndInv, Issued

LEMMA InitEstablishes == Init => IndInv
<1> SUFFICES ASSUME Init PROVE IndInv
  OBVIOUS
<1>1. NoRow \in Row
  BY DEF NoRow, Row
<1>2. TypeOK
  BY <1>1, SessionAssumption DEF Init, TypeOK, NoRequest, NoRow
<1>3. Issued = {}
  BY DEF Init, Issued, NoRow
<1>4. RowsOK
  BY <1>3, FS_EmptySet, SessionAssumption DEF Init, RowsOK, NoRow
<1>5. SessionIsOneChain /\ CacheOK
  BY DEF Init, SessionIsOneChain, CacheOK, NoRow
<1>6. \A c \in Calls : CallOK(c)
  BY DEF Init, CallOK, AskedOK, HeldOK, SnapOK, EndedOK, SeenLive, NoRequest
<1> QED
  BY <1>2, <1>4, <1>5, <1>6 DEF IndInv

\* A call comes in.
LEMMA BeginKeeps ==
    ASSUME IndInv, Track, NEW c \in Calls, NEW op, NEW u \in Users,
           NEW t \in Tokens \union {NoToken}, NEW j \in Tokens \union {NoToken},
           NEW next \in {"session", "refused", "active", "grace", "revokeAll", "lookup", "done"},
           Begin(c, op, u, t, j, next),
           UNCHANGED <<row, cache, denied, held, snap>>,
           account' \in [Users -> {"NONE", "ACTIVE", "BLOCKED", "CLOSED"}],
           found' \in [Calls -> {"NONE", "NOT_FOUND", "EXPIRED", "ACTIVE", "GRACE_PERIOD",
                                 "REUSE_DETECTED"}],
           \A d \in Calls \ {c} : found'[d] = found[d],
           op = "logout" => found'[c] = found[c],
           op \in {"refresh", "logout"} => t \in Issued /\ u = row[t].user,
           op \in {"logout", "logoutAll", "changePassword", "closeAccount"} => j \in Tokens,
           next \in {"active", "grace"} => op = "refresh",
           next = "lookup" => op = "logout",
           next = "revokeAll" => op \notin {"register", "login", "logout"},
           next = "done" => op = "updateUserStatus"
    PROVE  IndInv'
<1>1. RowsOK' /\ SessionIsOneChain' /\ Evolves /\ raced' = raced /\ Issued' = Issued
  BY SameRows
<1>2. CacheOK'
  BY DEF IndInv, CacheOK
<1>3. op \in AllOps
  BY SessionAssumption DEF Begin
<1>4. TypeOK'
  <2>1. calls' \in 0..MaxCalls
    BY SessionAssumption DEF Begin, IndInv, TypeOK
  <2>2. pc' \in [Calls -> {"idle"} \union Steps \union Answers]
    BY DEF Begin, IndInv, TypeOK, Steps, Answers
  <2>3. req' \in [Calls -> [op : AllOps \union {"none"}, user : Users \union {NoUser},
                            token : Tokens \union {NoToken}, jti : Tokens \union {NoToken}]]
    BY <1>3 DEF Begin, IndInv, TypeOK
  <2> QED
    BY <1>1, <2>1, <2>2, <2>3, TrackTypes DEF IndInv, TypeOK
<1>5. /\ pc[c] = "idle" /\ pc'[c] = next /\ snap'[c] = snap[c]
      /\ req'[c] = [op |-> op, user |-> u, token |-> t, jti |-> j]
  BY DEF Begin, IndInv, TypeOK
<1>6. CallOK(c)'
  <2> snap[c] = {} /\ found[c] = "NONE"
    BY <1>5 DEF IndInv, CallOK, AskedOK, SnapOK
  <2>1. AskedOK(c)'
    BY <1>1, <1>3, <1>5 DEF AskedOK, AllOps
  <2>2. HeldOK(c)'
    BY <1>5 DEF HeldOK
  <2>3. SnapOK(c)' /\ EndedOK(c)'
    BY <1>5 DEF SnapOK, EndedOK, SeenLive
  <2> QED
    BY <2>1, <2>2, <2>3 DEF CallOK
<1>7. \A d \in Calls \ {c} : Kept(d)
  BY DEF Kept, Begin, IndInv, TypeOK
<1> QED
  BY <1>1, <1>2, <1>4, <1>6, <1>7, StepKeeps

LEMMA ClassifyType ==
    ASSUME NEW t
    PROVE  Classify(t) \in {"NOT_FOUND", "EXPIRED", "ACTIVE", "GRACE_PERIOD", "REUSE_DETECTED"}
BY DEF Classify

LEMMA IssuedUser ==
    ASSUME IndInv, NEW t \in Tokens, row[t].state # "none"
    PROVE  row[t].user \in Users /\ t \in Issued
BY DEF IndInv, TypeOK, Issued

LEMMA ArriveKeeps ==
    ASSUME IndInv, Track, NEW c \in Calls, Arrive(c)
    PROVE  IndInv'
<1> USE DEF storeVars
<1>1. ASSUME NEW u \in Users, Register(c, u) PROVE IndInv'
  <2>1. account' \in [Users -> {"NONE", "ACTIVE", "BLOCKED", "CLOSED"}]
    BY <1>1 DEF Register, CreateUserWithWallet, IndInv, TypeOK
  <2>2. CASE account[u] = "NONE"
    BY <1>1, <2>1, <2>2, BeginKeeps DEF Register, IndInv, TypeOK
  <2>3. CASE account[u] # "NONE"
    BY <1>1, <2>1, <2>3, BeginKeeps DEF Register, IndInv, TypeOK
  <2> QED
    BY <2>2, <2>3
<1>2. ASSUME NEW u \in Users, Login(c, u) PROVE IndInv'
  <2>1. CASE account[u] = "ACTIVE"
    BY <1>2, <2>1, BeginKeeps DEF Login, IndInv, TypeOK
  <2>2. CASE account[u] # "ACTIVE"
    BY <1>2, <2>2, BeginKeeps DEF Login, IndInv, TypeOK
  <2> QED
    BY <2>1, <2>2
<1>3. ASSUME NEW u \in Users, UpdateUserStatus(c, u) PROVE IndInv'
  <2>1. account' \in [Users -> {"NONE", "ACTIVE", "BLOCKED", "CLOSED"}]
    BY <1>3 DEF UpdateUserStatus, IndInv, TypeOK
  <2>2. PICK next \in {"revokeAll", "refused", "done"} :
            Begin(c, "updateUserStatus", u, NoToken, NoToken, next)
    BY <1>3 DEF UpdateUserStatus
  <2>3. /\ UNCHANGED <<row, cache, denied, found, held, snap>>
        /\ found' \in [Calls -> {"NONE", "NOT_FOUND", "EXPIRED", "ACTIVE", "GRACE_PERIOD",
                                 "REUSE_DETECTED"}]
    BY <1>3 DEF UpdateUserStatus, IndInv, TypeOK
  <2> QED
    BY <2>1, <2>2, <2>3, BeginKeeps
<1>4. ASSUME NEW t \in Tokens, Refresh(c, t) PROVE IndInv'
  <2>1. row[t].user \in Users /\ t \in Issued
    BY <1>4, IssuedUser DEF Refresh
  <2>2. PICK next \in {"refused", "active", "grace", "revokeAll"} :
            Begin(c, "refresh", row[t].user, t, NoToken, next)
    <3> DEFINE first == [NOT_FOUND |-> "refused", EXPIRED |-> "refused", ACTIVE |-> "active",
                         GRACE_PERIOD |-> "grace", REUSE_DETECTED |-> "revokeAll"]
    <3>1. first[Classify(t)] \in {"refused", "active", "grace", "revokeAll"}
      BY ClassifyType
    <3> QED
      BY <1>4, <3>1 DEF Refresh
  <2>3. found' \in [Calls -> {"NONE", "NOT_FOUND", "EXPIRED", "ACTIVE", "GRACE_PERIOD",
                              "REUSE_DETECTED"}]
        /\ \A d \in Calls \ {c} : found'[d] = found[d]
    BY <1>4, ClassifyType DEF Refresh, IndInv, TypeOK
  <2>4. /\ UNCHANGED <<row, cache, denied, held, snap>>
        /\ account' \in [Users -> {"NONE", "ACTIVE", "BLOCKED", "CLOSED"}]
    BY <1>4 DEF Refresh, IndInv, TypeOK
  <2> QED
    BY <2>1, <2>2, <2>3, <2>4, BeginKeeps
<1>5. ASSUME NEW j \in Tokens, NEW t \in Tokens, Logout(c, j, t) PROVE IndInv'
  <2>1. row[t].user \in Users /\ t \in Issued
    BY <1>5, IssuedUser DEF Logout
  <2> QED
    BY <1>5, <2>1, BeginKeeps DEF Logout, IndInv, TypeOK
<1>6. ASSUME NEW op \in Ops, NEW j \in Tokens, EndAll(c, op, j) PROVE IndInv'
  <2>1. row[j].user \in Users
    BY <1>6, IssuedUser DEF EndAll, Authenticated
  <2>2. PICK next \in {"revokeAll", "refused"} : Begin(c, op, row[j].user, NoToken, j, next)
    BY <1>6 DEF EndAll
  <2>3. /\ UNCHANGED <<row, cache, denied, held, snap>>
        /\ account' \in [Users -> {"NONE", "ACTIVE", "BLOCKED", "CLOSED"}]
        /\ found' \in [Calls -> {"NONE", "NOT_FOUND", "EXPIRED", "ACTIVE", "GRACE_PERIOD",
                                 "REUSE_DETECTED"}]
        /\ \A d \in Calls \ {c} : found'[d] = found[d]
        /\ op \in {"logoutAll", "changePassword", "closeAccount"}
    BY <1>6 DEF EndAll, IndInv, TypeOK
  <2> QED
    BY <2>1, <2>2, <2>3, BeginKeeps
<1> QED
  BY <1>1, <1>2, <1>3, <1>4, <1>5, <1>6 DEF Arrive

\* A call goes on to a next step without writing rows.
LEMMA GoOnKeeps ==
    ASSUME IndInv, Track, NEW c \in Calls, NEW from, NEW to \in Steps \union Answers,
           GoTo(c, from, to), UNCHANGED <<account, row, req, snap>>,
           cache' \in [Tokens -> Tokens \union {NoToken}], CacheOK', denied' \subseteq Tokens,
           found' \in [Calls -> {"NONE", "NOT_FOUND", "EXPIRED", "ACTIVE", "GRACE_PERIOD",
                                 "REUSE_DETECTED"}],
           held' \in [Calls -> Tokens \union {NoToken}],
           \A d \in Calls \ {c} : found'[d] = found[d] /\ held'[d] = held[d],
           from \notin {"revokingAll", "refused", "aborted"} \/ to = "aborted",
           to # "revokingAll",
           AskedOK(c)', HeldOK(c)', found'[c] = found[c] \/ EndedOK(c)'
    PROVE  IndInv'
<1>1. RowsOK' /\ SessionIsOneChain' /\ Evolves /\ raced' = raced /\ Issued' = Issued
  BY SameRows
<1>2. TypeOK'
  BY <1>1, TrackTypes DEF IndInv, TypeOK, GoTo, Steps, Answers
<1>3. pc[c] = from /\ pc'[c] = to /\ to # "idle"
  BY DEF GoTo, IndInv, TypeOK, Steps, Answers
<1>4. SnapOK(c)'
  BY <1>1, <1>3 DEF IndInv, CallOK, SnapOK
<1>5. EndedOK(c)'
  <2>1. CASE to = "aborted"
    BY <1>3, <2>1 DEF EndedOK
  <2>2. CASE to # "aborted"
    BY <1>1, <1>3, <2>2, EndedKept DEF IndInv, CallOK
  <2> QED
    BY <2>1, <2>2
<1>6. \A d \in Calls \ {c} : Kept(d)
  BY DEF Kept, GoTo, IndInv, TypeOK
<1> QED
  BY <1>1, <1>2, <1>4, <1>5, <1>6, StepKeeps DEF CallOK

LEMMA SessionStepKeeps ==
    ASSUME IndInv, Track, NEW c \in Calls,
           CountSessions(c) \/ ChooseVictim(c) \/ VictimGone(c)
    PROVE  IndInv'
<1> USE DEF storeVars
<1>1. CacheOK' /\ Issued' = Issued
  BY DEF CountSessions, ChooseVictim, VictimGone, IndInv, CacheOK, Issued
<1>2. AskedOK(c) /\ HeldOK(c)
  BY DEF IndInv, CallOK
<1>3. CASE CountSessions(c)
  <2>1. PICK to \in {"full", "room"} : GoTo(c, "session", to)
    BY <1>3 DEF CountSessions
  <2>2. pc[c] = "session" /\ pc'[c] = to
    BY <2>1 DEF GoTo, IndInv, TypeOK
  <2>3. AskedOK(c)' /\ HeldOK(c)'
    BY <1>1, <1>2, <1>3, <2>2 DEF CountSessions, AskedOK, HeldOK
  <2> QED
    BY <1>1, <1>3, <2>1, <2>3, GoOnKeeps DEF CountSessions, IndInv, TypeOK, Steps, Answers
<1>4. CASE ChooseVictim(c)
  <2>1. PICK to \in {"evict", "room"} : GoTo(c, "full", to)
    BY <1>4 DEF ChooseVictim
  <2>2. pc[c] = "full" /\ pc'[c] = to
    BY <2>1 DEF GoTo, IndInv, TypeOK
  <2>3. AskedOK(c)'
    BY <1>1, <1>2, <1>4, <2>2 DEF ChooseVictim, AskedOK
  <2>4. /\ held' \in [Calls -> Tokens \union {NoToken}]
        /\ \A d \in Calls \ {c} : held'[d] = held[d]
    BY <1>4 DEF ChooseVictim, ActiveTokens, Unrevoked, IndInv, TypeOK
  <2>5. to = "evict" => \E t \in ActiveTokens(req[c].user) : held' = [held EXCEPT ![c] = t]
    BY <1>4, <2>2 DEF ChooseVictim, GoTo, IndInv, TypeOK
  <2>6. HeldOK(c)'
    BY <1>1, <1>4, <2>2, <2>5
       DEF ChooseVictim, ActiveTokens, Unrevoked, HeldOK, Issued, IndInv, TypeOK
  <2>7. UNCHANGED <<account, row, req, snap, cache, denied, found>>
    BY <1>4 DEF ChooseVictim
  <2> QED
    BY <1>1, <2>1, <2>3, <2>4, <2>6, <2>7, GoOnKeeps DEF IndInv, TypeOK, Steps, Answers
<1>5. CASE VictimGone(c)
  <2>1. GoTo(c, "evict", "aborted") /\ pc'[c] = "aborted"
    BY <1>5 DEF VictimGone, GoTo, IndInv, TypeOK
  <2>2. AskedOK(c)' /\ HeldOK(c)'
    BY <1>1, <1>2, <1>5, <2>1 DEF VictimGone, AskedOK, HeldOK
  <2> QED
    BY <1>1, <1>5, <2>1, <2>2, GoOnKeeps DEF VictimGone, IndInv, TypeOK, Steps, Answers
<1> QED
  BY <1>3, <1>4, <1>5

LEMMA RefreshStepKeeps ==
    ASSUME IndInv, Track, NEW c \in Calls,
           Replay(c) \/ CacheMiss(c) \/ CheckUser(c) \/ RotateFails(c) \/ StoreCache(c)
    PROVE  IndInv'
<1> USE DEF storeVars
<1>1. Issued' = Issued /\ row' = row /\ UNCHANGED <<account, req, snap, denied, found>>
  BY DEF Replay, CacheMiss, CheckUser, RotateFails, StoreCache, Issued
<1>2. AskedOK(c) /\ HeldOK(c)
  BY DEF IndInv, CallOK
<1>3. CASE Replay(c)
  <2>1. GoTo(c, "grace", "replayed") /\ pc[c] = "grace" /\ pc'[c] = "replayed"
    BY <1>3 DEF Replay, GoTo, IndInv, TypeOK
  <2>2. req[c].token \in Tokens /\ cache[req[c].token] \in Tokens
        /\ row[cache[req[c].token]].parent = req[c].token
    BY <1>2, <1>3, <2>1 DEF Replay, AskedOK, Issued, IndInv, TypeOK, CacheOK
  <2>3. AskedOK(c)' /\ HeldOK(c)'
    BY <1>1, <1>2, <1>3, <2>1, <2>2 DEF Replay, AskedOK, HeldOK, IndInv, TypeOK
  <2>4. /\ held' \in [Calls -> Tokens \union {NoToken}]
        /\ \A d \in Calls \ {c} : held'[d] = held[d]
        /\ CacheOK' /\ cache' = cache
    BY <1>3, <2>2 DEF Replay, IndInv, TypeOK, CacheOK
  <2> QED
    BY <1>1, <2>1, <2>3, <2>4, GoOnKeeps DEF IndInv, TypeOK, Steps, Answers
<1>4. CASE CacheMiss(c) \/ CheckUser(c) \/ RotateFails(c)
  <2>1. PICK from \in {"grace", "active", "rotate"},
             to \in {"clear", "rotate", "refused", "aborted"} :
            GoTo(c, from, to)
    BY <1>4 DEF CacheMiss, CheckUser, RotateFails
  <2>2. pc[c] = from /\ pc'[c] = to
    BY <2>1 DEF GoTo, IndInv, TypeOK
  <2>3. held' = held /\ cache' = cache
    BY <1>4 DEF CacheMiss, CheckUser, RotateFails
  <2>4. AskedOK(c)' /\ HeldOK(c)' /\ CacheOK'
    BY <1>1, <1>2, <2>2, <2>3 DEF AskedOK, HeldOK, IndInv, CacheOK
  <2> QED
    BY <1>1, <2>1, <2>3, <2>4, GoOnKeeps DEF IndInv, TypeOK, Steps, Answers
<1>5. CASE StoreCache(c)
  <2>1. GoTo(c, "store", "issued") /\ pc[c] = "store" /\ pc'[c] = "issued" /\ held' = held
    BY <1>5 DEF StoreCache, GoTo, IndInv, TypeOK
  <2>2. req[c].token \in Tokens /\ held[c] \in Tokens /\ row[held[c]].parent = req[c].token
    BY <1>2, <2>1 DEF AskedOK, HeldOK, Issued
  <2>3. AskedOK(c)' /\ HeldOK(c)'
    BY <1>1, <1>2, <2>1 DEF AskedOK, HeldOK
  <2>4. CacheOK' /\ cache' \in [Tokens -> Tokens \union {NoToken}]
    BY <1>1, <1>5, <2>2 DEF StoreCache, CacheKey, CacheOK, IndInv, TypeOK
  <2> QED
    BY <1>1, <2>1, <2>3, <2>4, GoOnKeeps DEF IndInv, TypeOK, Steps, Answers
<1> QED
  BY <1>3, <1>4, <1>5

LEMMA EndStepKeeps ==
    ASSUME IndInv, Track, NEW c \in Calls,
           LookUp(c) \/ ClearCache(c) \/ Deny(c) \/ Die(c)
    PROVE  IndInv'
<1> USE DEF storeVars
<1>1. Issued' = Issued /\ row' = row /\ UNCHANGED <<account, req, snap, held>>
  BY DEF LookUp, ClearCache, Deny, Die, Issued
<1>2. AskedOK(c) /\ HeldOK(c)
  BY DEF IndInv, CallOK
<1>3. CASE LookUp(c)
  <2>1. pc[c] = "lookup" /\ req[c].op = "logout"
    BY <1>2, <1>3 DEF LookUp, AskedOK
  <2>2. PICK to \in {"done", "revokeAll", "refused", "clear"} :
           /\ GoTo(c, "lookup", to)
           /\ to \in {"done", "revokeAll"} => found'[c] # "ACTIVE"
           /\ found'[c] = "ACTIVE" => row[req[c].token].state = "live"
    BY <1>3 DEF LookUp, Classify, IndInv, TypeOK
  <2>3. pc'[c] = to
    BY <2>2 DEF GoTo, IndInv, TypeOK
  <2>4. AskedOK(c)' /\ HeldOK(c)'
    BY <1>1, <1>2, <2>1, <2>2, <2>3 DEF AskedOK, HeldOK
  <2>5. /\ found' \in [Calls -> {"NONE", "NOT_FOUND", "EXPIRED", "ACTIVE", "GRACE_PERIOD",
                                 "REUSE_DETECTED"}]
        /\ \A d \in Calls \ {c} : found'[d] = found[d]
        /\ CacheOK' /\ cache' = cache /\ denied' = denied
    BY <1>3, ClassifyType DEF LookUp, IndInv, TypeOK, CacheOK
  <2>6. EndedOK(c)'
    <3> SUFFICES ASSUME NEW s \in SeenLive(c)', NEW t \in Tokens,
                        row[t].session = row[s].session, row[t].state = "live"
                 PROVE  t \in SeenLive(c)' \/ \E r \in missed'[c] : row[r].session = row[s].session
      BY <1>1 DEF EndedOK
    <3>1. CASE s \in snap[c]
      <4>1. \A q \in SeenLive(c) : q \in snap[c]
        BY <1>2, <2>1 DEF SeenLive, AskedOK
      <4>2. missed[c] \subseteq missed'[c]
        BY <2>3, TrackTypes DEF IndInv
      <4>3. t \in snap[c] \/ \E r \in missed[c] : row[r].session = row[s].session
        BY <2>1, <3>1, <4>1 DEF IndInv, CallOK, EndedOK, SeenLive
      <4> QED
        BY <1>1, <4>2, <4>3 DEF SeenLive
    <3>2. CASE s \notin snap[c]
      <4>1. s = req[c].token /\ row[s].state = "live" /\ s \in Tokens
        BY <1>1, <1>2, <2>2, <3>2 DEF SeenLive, AskedOK, Issued
      <4>2. t = s
        BY <4>1 DEF IndInv, SessionIsOneChain
      <4> QED
        BY <4>2
    <3> QED
      BY <3>1, <3>2
  <2> QED
    BY <1>1, <2>2, <2>4, <2>5, <2>6, GoOnKeeps DEF IndInv, TypeOK, Steps, Answers
<1>4. CASE ClearCache(c)
  <2>1. PICK to \in {"refused", "deny"} :
           GoTo(c, "clear", to) /\ (to = "deny" => req[c].op # "refresh")
    BY <1>4 DEF ClearCache
  <2>2. pc[c] = "clear" /\ pc'[c] = to
    BY <2>1 DEF GoTo, IndInv, TypeOK
  <2>3. found' = found /\ denied' = denied
    BY <1>4 DEF ClearCache
  <2>4. AskedOK(c)' /\ HeldOK(c)'
    BY <1>1, <1>2, <2>1, <2>2, <2>3 DEF AskedOK, HeldOK
  <2>5. CacheOK' /\ cache' \in [Tokens -> Tokens \union {NoToken}]
    BY <1>1, <1>4 DEF ClearCache, CacheOK, IndInv, TypeOK
  <2> QED
    BY <1>1, <2>1, <2>3, <2>4, <2>5, GoOnKeeps DEF IndInv, TypeOK, Steps, Answers
<1>5. CASE Deny(c)
  <2>1. PICK to \in {"revoke", "done"} :
           /\ GoTo(c, "deny", to)
           /\ to = "revoke" <=> req[c].op = "logout" /\ found[c] = "ACTIVE"
    BY <1>5 DEF Deny
  <2>2. pc[c] = "deny" /\ pc'[c] = to
    BY <2>1 DEF GoTo, IndInv, TypeOK
  <2>3. found' = found /\ cache' = cache
    BY <1>5 DEF Deny
  <2>4. AskedOK(c)' /\ HeldOK(c)'
    BY <1>1, <1>2, <2>1, <2>2, <2>3 DEF AskedOK, HeldOK
  <2>5. CacheOK' /\ denied' \subseteq Tokens
    BY <1>1, <1>2, <1>5, <2>2 DEF Deny, CacheOK, AskedOK, IndInv, TypeOK
  <2> QED
    BY <1>1, <2>1, <2>3, <2>4, <2>5, GoOnKeeps DEF IndInv, TypeOK, Steps, Answers
<1>6. CASE Die(c)
  <2>1. GoTo(c, pc[c], "aborted") /\ pc'[c] = "aborted"
    BY <1>6 DEF Die, GoTo, IndInv, TypeOK
  <2>2. found' = found /\ cache' = cache /\ denied' = denied
    BY <1>6 DEF Die
  <2>3. AskedOK(c)' /\ HeldOK(c)' /\ CacheOK'
    BY <1>1, <1>2, <2>1, <2>2 DEF AskedOK, HeldOK, CacheOK, IndInv
  <2> QED
    BY <1>1, <2>1, <2>2, <2>3, GoOnKeeps DEF IndInv, TypeOK, Steps, Answers
<1> QED
  BY <1>3, <1>4, <1>5, <1>6

LEMMA FinishKeeps ==
    ASSUME IndInv, Track, NEW c \in Calls, Finish(c)
    PROVE  IndInv'
<1> USE DEF Finish, GoTo, storeVars
<1>1. RowsOK' /\ SessionIsOneChain' /\ Evolves /\ raced' = raced
  BY SameRows
<1>2. CacheOK'
  BY DEF IndInv, CacheOK
<1>3. NoRequest \in [op : AllOps \union {"none"}, user : Users \union {NoUser},
                     token : Tokens \union {NoToken}, jti : Tokens \union {NoToken}]
  BY DEF NoRequest
<1>4. TypeOK'
  BY <1>1, <1>3, TrackTypes DEF IndInv, TypeOK
<1>5. CallOK(c)'
  BY DEF CallOK, AskedOK, HeldOK, SnapOK, EndedOK, SeenLive, NoRequest, IndInv, TypeOK
<1>6. \A d \in Calls \ {c} : Kept(d)
  BY DEF Kept, IndInv, TypeOK
<1> QED
  BY <1>1, <1>2, <1>4, <1>5, <1>6, StepKeeps

\* What the UPDATE sees is live and alone in its session.
LEMMA SnapshotAllKeeps ==
    ASSUME IndInv, Track, NEW c \in Calls, SnapshotAll(c)
    PROVE  IndInv'
<1> USE DEF SnapshotAll, GoTo, storeVars
<1>1. RowsOK' /\ SessionIsOneChain' /\ Evolves /\ raced' = raced /\ Issued' = Issued
  BY SameRows
<1>2. CacheOK'
  BY DEF IndInv, CacheOK
<1>3. TypeOK'
  BY <1>1, TrackTypes DEF IndInv, TypeOK, Unrevoked, Steps
<1>4. pc[c] = "revokeAll" /\ pc'[c] = "revokingAll" /\ snap'[c] = Unrevoked(req[c].user)
  BY DEF IndInv, TypeOK
<1>5. CallOK(c)'
  <2>1. AskedOK(c)' /\ HeldOK(c)'
    BY <1>1, <1>4 DEF IndInv, CallOK, AskedOK, HeldOK
  <2>2. SnapOK(c)'
    BY <1>1, <1>4 DEF SnapOK, Unrevoked, Issued
  <2>3. SeenLive(c)' = Unrevoked(req[c].user)
    BY <1>4 DEF SeenLive, IndInv, CallOK, AskedOK
  <2>4. EndedOK(c)'
    BY <2>3 DEF EndedOK, Unrevoked, IndInv, SessionIsOneChain
  <2> QED
    BY <2>1, <2>2, <2>4 DEF CallOK
<1>6. \A d \in Calls \ {c} : Kept(d)
  BY DEF Kept, IndInv, TypeOK
<1> QED
  BY <1>1, <1>2, <1>3, <1>5, <1>6, StepKeeps

-----------------------------------------------------------------------------
(* Steps that revoke, age and delete rows. *)

LEMMA RevokeAges ==
    ASSUME IndInv, NEW S \in SUBSET Issued, row' = Revoke(row, S),
           \A t \in S : row[t].state # "deleted"
    PROVE  NoneIssued /\ \A t \in S : row'[t].state = "revoked"
<1>1. ASSUME NEW t \in Tokens
      PROVE  row'[t] \in Row /\ Ages(t) /\ (t \in S => row'[t].state = "revoked")
  <2>1. CASE t \in S
    <3>1. row'[t] = [row[t] EXCEPT !.state = "revoked", !.late = FALSE]
      BY <2>1 DEF Revoke
    <3> QED
      BY <3>1, <2>1, RowTyping DEF IndInv, Ages, Row, Issued
  <2>2. CASE t \notin S
    <3>1. row'[t] = row[t]
      BY <2>2 DEF Revoke
    <3> QED
      BY <3>1, <2>2, RowTyping DEF IndInv, Ages
  <2> QED
    BY <2>1, <2>2
<1>2. row' \in [Tokens -> Row]
  BY <1>1 DEF Revoke
<1> QED
  BY <1>1, <1>2 DEF NoneIssued, Issued

LEMMA CacheKeepsSuccessors ==
    ASSUME IndInv, Evolves, \A t \in Tokens : cache'[t] \in {cache[t], NoToken}
    PROVE  CacheOK'
<1> SUFFICES ASSUME NEW t \in Tokens, cache'[t] # NoToken PROVE row'[cache'[t]].parent = t
  BY DEF CacheOK
<1>1. cache'[t] = cache[t] /\ cache[t] \in Tokens /\ row[cache[t]].parent = t
  BY DEF IndInv, CacheOK, TypeOK
<1>2. cache[t] \in Issued
  BY <1>1, SessionAssumption DEF IndInv, RowsOK, NoRow, Issued
<1> QED
  BY <1>1, <1>2 DEF Evolves, Ages

LEMMA RevokeAllKeeps ==
    ASSUME IndInv, Track, NEW c \in Calls, RevokeAll(c)
    PROVE  IndInv'
<1> USE DEF RevokeAll, GoTo
<1>1. NoneIssued /\ \A t \in Targets(c) : row'[t].state = "revoked"
  BY RevokeAges DEF Targets, Issued, IndInv, TypeOK
<1>2. RowsOK' /\ SessionIsOneChain' /\ Evolves /\ raced' = raced
  BY <1>1, NoneIssuedKeepsRows DEF IndInv
<1>3. CacheOK'
  BY <1>2, CacheKeepsSuccessors
<1>4. pc[c] = "revokingAll" /\ pc'[c] = AfterRevokeAll(c)
  BY DEF IndInv, TypeOK
<1>5. TypeOK'
  <2>1. pc' \in [Calls -> {"idle"} \union Steps \union Answers]
    BY DEF IndInv, TypeOK, Steps, Answers, AfterRevokeAll
  <2>2. account' \in [Users -> {"NONE", "ACTIVE", "BLOCKED", "CLOSED"}]
    BY DEF IndInv, TypeOK
  <2>3. \A t \in Tokens :
            row'[t].state # "none" => row'[t].user \in Users /\ row'[t].session \in Tokens
    BY <1>1 DEF IndInv, TypeOK, NoneIssued, Ages
  <2> QED
    BY <1>1, <1>2, <2>1, <2>2, <2>3, TrackTypes DEF IndInv, TypeOK, NoneIssued
<1>6. CallOK(c)'
  <2>1. AskedOK(c) /\ HeldOK(c) /\ SnapOK(c) /\ EndedOK(c)
    BY DEF IndInv, CallOK
  <2>2. AskedOK(c)'
    BY <1>2, <1>4, <2>1 DEF AskedOK, AfterRevokeAll, Evolves, Ages, Issued, IndInv, TypeOK, AllOps
  <2>3. HeldOK(c)'
    BY <1>4 DEF HeldOK, AfterRevokeAll
  <2>4. SnapOK(c)'
    <3>1. pc'[c] \in {"clear", "done", "deny"}
      BY <1>4 DEF AfterRevokeAll
    <3>2. \A t \in snap[c] : row'[t].state # "live"
      BY <1>1, <1>2, <2>1 DEF Targets, SnapOK, Evolves
    <3>3. \A t \in snap[c] : t \in Issued' /\ row'[t].user = req[c].user
      BY <1>2, <2>1 DEF SnapOK, Evolves, Ages
    <3> QED
      BY <3>1, <3>2, <3>3 DEF SnapOK
  <2>5. EndedOK(c)'
    BY <1>2, <1>4, <2>1, EndedKept DEF AfterRevokeAll, IndInv
  <2> QED
    BY <2>2, <2>3, <2>4, <2>5 DEF CallOK
<1>7. \A d \in Calls \ {c} : Kept(d)
  BY DEF Kept, IndInv, TypeOK
<1> QED
  BY <1>2, <1>3, <1>5, <1>6, <1>7, StepKeeps

LEMMA RevokeOneKeeps ==
    ASSUME IndInv, Track, NEW c \in Calls, RevokeOne(c)
    PROVE  IndInv'
<1> USE DEF RevokeOne, GoTo
<1> DEFINE S == {t \in {req[c].token} : row[t].state = "live"}
<1>1. pc[c] = "revoke" /\ pc'[c] = "done" /\ req[c].op = "logout" /\ req[c].token \in Issued
  BY DEF IndInv, TypeOK, CallOK, AskedOK
<1>2. NoneIssued /\ \A t \in S : row'[t].state = "revoked"
  <2>1. S \in SUBSET Issued /\ \A t \in S : row[t].state # "deleted"
    BY <1>1
  <2> QED
    BY <2>1, RevokeAges
<1>3. RowsOK' /\ SessionIsOneChain' /\ Evolves /\ raced' = raced
  BY <1>2, NoneIssuedKeepsRows DEF IndInv
<1>4. CacheOK'
  BY <1>3, CacheKeepsSuccessors
<1>5. TypeOK'
  <2>1. \A t \in Tokens :
            row'[t].state # "none" => row'[t].user \in Users /\ row'[t].session \in Tokens
    BY <1>2 DEF IndInv, TypeOK, NoneIssued, Ages
  <2> QED
    BY <1>2, <1>3, <2>1, TrackTypes DEF IndInv, TypeOK, NoneIssued, Answers
<1>6. CallOK(c)'
  <2>1. AskedOK(c) /\ HeldOK(c) /\ SnapOK(c) /\ EndedOK(c)
    BY DEF IndInv, CallOK
  <2>2. row'[req[c].token].state # "live"
    BY <1>1, <1>2, <1>3 DEF Evolves
  <2>3. AskedOK(c)'
    BY <1>1, <1>3, <2>1, <2>2 DEF AskedOK, Evolves, Ages
  <2>4. HeldOK(c)'
    BY <1>1 DEF HeldOK
  <2>5. SnapOK(c)'
    BY <1>1, <1>3, <2>1, SnapKept
  <2>6. EndedOK(c)'
    BY <1>1, <1>3, <2>1, EndedKept DEF IndInv
  <2> QED
    BY <2>3, <2>4, <2>5, <2>6 DEF CallOK
<1>7. \A d \in Calls \ {c} : Kept(d)
  BY DEF Kept, IndInv, TypeOK
<1> QED
  BY <1>3, <1>4, <1>5, <1>6, <1>7, StepKeeps

LEMMA EnvironmentAges ==
    ASSUME IndInv, Environment
    PROVE  NoneIssued /\ \A t \in Tokens : cache'[t] \in {cache[t], NoToken}
<1>1. PICK t \in Tokens : Expire(t) \/ GraceEnds(t) \/ CacheExpires(t) \/ DeleteExpired(t)
  BY DEF Environment
<1>2. CASE Expire(t)
  <2>1. row'[t] = [row[t] EXCEPT !.expired = TRUE, !.late = FALSE]
        /\ \A s \in Tokens \ {t} : row'[s] = row[s]
    BY <1>2 DEF Expire, IndInv, TypeOK
  <2>2. row'[t] \in Row /\ Ages(t)
    <3>1. row'[t] \in Row
      BY <2>1, RowTyping DEF IndInv, Row
    <3>2. /\ row'[t].state = row[t].state /\ row'[t].user = row[t].user
          /\ row'[t].parent = row[t].parent /\ row'[t].session = row[t].session
      BY <2>1, RowTyping DEF IndInv, Row
    <3>3. row[t].expired => row'[t].expired
      BY <1>2, <2>1, RowTyping DEF Expire, IndInv, Row
    <3>4. row[t].state # "none"
      BY <1>2 DEF Expire
    <3> QED
      BY <3>1, <3>2, <3>3, <3>4 DEF Ages
  <2>3. row' \in [Tokens -> Row]
    BY <1>2, <2>1, <2>2, RowTyping DEF Expire, IndInv, TypeOK
  <2> QED
    BY <1>2, <2>1, <2>2, <2>3, RowTyping DEF Expire, IndInv, NoneIssued, Ages
<1>3. CASE GraceEnds(t)
  <2>1. row'[t] = [row[t] EXCEPT !.late = TRUE] /\ \A s \in Tokens \ {t} : row'[s] = row[s]
    BY <1>3 DEF GraceEnds, IndInv, TypeOK
  <2>2. row'[t] \in Row /\ Ages(t)
    <3>1. row'[t] \in Row
      BY <2>1, RowTyping DEF IndInv, Row
    <3>2. /\ row'[t].state = row[t].state /\ row'[t].user = row[t].user
          /\ row'[t].parent = row[t].parent /\ row'[t].session = row[t].session
      BY <2>1, RowTyping DEF IndInv, Row
    <3>3. row[t].expired => row'[t].expired
      BY <1>3, <2>1, RowTyping DEF GraceEnds, IndInv, Row
    <3>4. row[t].state # "none"
      BY <1>3 DEF GraceEnds
    <3> QED
      BY <3>1, <3>2, <3>3, <3>4 DEF Ages
  <2>3. row' \in [Tokens -> Row]
    BY <1>3, <2>1, <2>2, RowTyping DEF GraceEnds, IndInv, TypeOK
  <2> QED
    BY <1>3, <2>1, <2>2, <2>3, RowTyping DEF GraceEnds, IndInv, NoneIssued, Ages
<1>4. CASE CacheExpires(t)
  BY <1>4, RowTyping DEF CacheExpires, IndInv, TypeOK, NoneIssued, Ages
<1>5. CASE DeleteExpired(t)
  <2>1. row'[t] = [row[t] EXCEPT !.state = "deleted"] /\ \A s \in Tokens \ {t} : row'[s] = row[s]
    BY <1>5 DEF DeleteExpired, IndInv, TypeOK
  <2>2. row'[t] \in Row /\ Ages(t)
    BY <1>5, <2>1, RowTyping DEF DeleteExpired, IndInv, Ages, Row
  <2>3. row' \in [Tokens -> Row]
    BY <1>5, <2>1, <2>2, RowTyping DEF DeleteExpired, IndInv, TypeOK
  <2> QED
    BY <1>5, <2>1, <2>2, <2>3, RowTyping DEF DeleteExpired, IndInv, NoneIssued, Ages
<1> QED
  BY <1>1, <1>2, <1>3, <1>4, <1>5

LEMMA EnvironmentKeeps ==
    ASSUME IndInv, Track, Environment
    PROVE  IndInv'
<1>1. NoneIssued /\ \A t \in Tokens : cache'[t] \in {cache[t], NoToken}
  BY EnvironmentAges
<1>2. RowsOK' /\ SessionIsOneChain' /\ Evolves /\ raced' = raced
  BY <1>1, NoneIssuedKeepsRows DEF IndInv
<1>3. CacheOK'
  BY <1>1, <1>2, CacheKeepsSuccessors
<1>4. UNCHANGED <<account, denied, pc, req, found, held, snap, calls>>
  BY DEF Environment, Expire, GraceEnds, CacheExpires, DeleteExpired
<1>5. TypeOK'
  <2>1. \A t \in Tokens :
            row'[t].state # "none" => row'[t].user \in Users /\ row'[t].session \in Tokens
    BY <1>1 DEF IndInv, TypeOK, NoneIssued, Ages
  <2>2. cache' \in [Tokens -> Tokens \union {NoToken}]
    BY DEF Environment, Expire, GraceEnds, CacheExpires, DeleteExpired, IndInv, TypeOK
  <2> QED
    BY <1>1, <1>2, <1>4, <2>1, <2>2, TrackTypes DEF IndInv, TypeOK, NoneIssued
<1>6. \A d \in Calls : CallOK(d)'
  BY <1>2, <1>4, OtherCallKept DEF IndInv, Kept
<1> QED
  BY <1>2, <1>3, <1>5, <1>6 DEF IndInv

-----------------------------------------------------------------------------
(* Steps that issue a token. *)

LEMMA IssueRows ==
    ASSUME IndInv, NEW n \in Unused, NEW S \in SUBSET Issued,
           \A t \in S : row[t].state # "deleted",
           NEW u \in Users, NEW p \in Tokens \union {NoToken}, NEW s \in Tokens,
           row' = Issue(Revoke(row, S), n, u, p, s)
    PROVE  /\ row' \in [Tokens -> Row]
           /\ \A t \in Tokens \ {n} : Ages(t)
           /\ \A t \in S : row'[t].state = "revoked"
           /\ row'[n].state = "live" /\ row'[n].user = u /\ row'[n].parent = p
           /\ row'[n].session = s /\ ~ row'[n].expired
<1>1. n \in Tokens /\ n \notin S
  BY DEF Unused, Issued
<1>2. row'[n] = [state |-> "live", user |-> u, parent |-> p, session |-> s,
                 expired |-> FALSE, late |-> FALSE]
  BY <1>1 DEF Issue, Revoke
<1>3. row'[n] \in Row
  BY <1>2 DEF Row
<1>4. ASSUME NEW t \in Tokens \ {n}
      PROVE  row'[t] \in Row /\ Ages(t) /\ (t \in S => row'[t].state = "revoked")
  <2>1. CASE t \in S
    <3>1. row'[t] = [row[t] EXCEPT !.state = "revoked", !.late = FALSE]
      BY <1>1, <2>1 DEF Issue, Revoke
    <3> QED
      BY <3>1, <2>1, RowTyping DEF IndInv, Ages, Row, Issued
  <2>2. CASE t \notin S
    <3>1. row'[t] = row[t]
      BY <1>1, <2>2 DEF Issue, Revoke
    <3> QED
      BY <3>1, <2>2, RowTyping DEF IndInv, Ages
  <2> QED
    BY <2>1, <2>2
<1>5. row' \in [Tokens -> Row]
  BY <1>3, <1>4 DEF Issue, Revoke
<1> QED
  BY <1>1, <1>2, <1>4, <1>5 DEF Issued

LEMMA IssueTypes ==
    ASSUME IndInv, Track, NEW n, NEW u, NEW p, Issues(n, u, p)
    PROVE  \A t \in Tokens :
              row'[t].state # "none" => row'[t].user \in Users /\ row'[t].session \in Tokens
<1>1. \A t \in Tokens \ {n} :
          row'[t].state # "none" => row'[t].user \in Users /\ row'[t].session \in Tokens
  BY DEF Issues, Ages, IndInv, TypeOK
<1>2. n \in Tokens /\ row'[n].user \in Users /\ row'[n].session \in Tokens
  BY DEF Issues, Unused, IndInv, TypeOK
<1> QED
  BY <1>1, <1>2

LEMMA CreateSessionIssues ==
    ASSUME IndInv, NEW c \in Calls, NEW n \in Unused, CreateSession(c, n)
    PROVE  Issues(n, req[c].user, NoToken)
<1>1. req[c].user \in Users /\ n \in Tokens
  BY DEF CreateSession, GoTo, IndInv, CallOK, AskedOK, Unused
<1>2. CASE GoTo(c, "room", "issued") /\ row' = Issue(row, n, req[c].user, NoToken, n)
  <2>1. Revoke(row, {}) = row
    BY DEF Revoke, IndInv, TypeOK
  <2> QED
    BY <1>1, <1>2, <2>1, IssueRows DEF Issues
<1>3. CASE /\ GoTo(c, "evict", "issued")
           /\ row[held[c]].state # "deleted"
           /\ row' = Issue(Revoke(row, {held[c]}), n, req[c].user, NoToken, n)
  <2>1. held[c] \in Issued
    BY <1>3 DEF GoTo, IndInv, CallOK, HeldOK
  <2> DEFINE S == {held[c]}
  <2>2. /\ S \in SUBSET Issued /\ \A t \in S : row[t].state # "deleted"
        /\ row' = Issue(Revoke(row, S), n, req[c].user, NoToken, n)
    BY <1>3, <2>1
  <2> HIDE DEF S
  <2>3. /\ row' \in [Tokens -> Row]
        /\ \A t \in Tokens \ {n} : Ages(t)
        /\ row'[n].state = "live" /\ row'[n].user = req[c].user /\ row'[n].parent = NoToken
        /\ row'[n].session = n /\ ~ row'[n].expired
    BY <1>1, <2>2, IssueRows
  <2> QED
    BY <1>1, <2>3 DEF Issues
<1> QED
  BY <1>2, <1>3 DEF CreateSession

LEMMA RotateIssues ==
    ASSUME IndInv, NEW c \in Calls, NEW n \in Unused, Rotate(c, n)
    PROVE  /\ Issues(n, req[c].user, req[c].token) /\ req[c].token \in Issued
           /\ row[req[c].token].state = "live" /\ row[req[c].token].user = req[c].user
<1>1. /\ req[c].token \in Issued /\ row[req[c].token].state = "live"
      /\ row[req[c].token].user = req[c].user
  BY DEF Rotate, Rotatable, GoTo, IndInv, CallOK, AskedOK
<1>2. req[c].user \in Users /\ row[req[c].token].session \in Tokens
  BY <1>1 DEF IndInv, TypeOK, Issued
<1> DEFINE S == {req[c].token}
<1>3. req[c].token \in Tokens /\ req[c].token \in S
  BY <1>1 DEF Issued
<1>4. /\ S \in SUBSET Issued /\ \A t \in S : row[t].state # "deleted"
      /\ row' = Issue(Revoke(row, S), n, req[c].user, req[c].token, row[req[c].token].session)
  BY <1>1 DEF Rotate
<1> HIDE DEF S
<1>5. /\ row' \in [Tokens -> Row]
      /\ \A t \in Tokens \ {n} : Ages(t)
      /\ row'[req[c].token].state = "revoked"
      /\ row'[n].state = "live" /\ row'[n].user = req[c].user /\ row'[n].parent = req[c].token
      /\ row'[n].session = row[req[c].token].session /\ ~ row'[n].expired
  BY <1>2, <1>3, <1>4, IssueRows
<1> QED
  BY <1>1, <1>2, <1>3, <1>5 DEF Issues

LEMMA CreateSessionKeeps ==
    ASSUME IndInv, Track, NEW c \in Calls, NEW n \in Unused, CreateSession(c, n)
    PROVE  IndInv'
<1>1. Issues(n, req[c].user, NoToken)
  BY CreateSessionIssues
<1>2. RowsOK' /\ SessionIsOneChain' /\ Evolves /\ raced' = raced
  BY <1>1, IssueKeepsRows DEF IndInv
<1>3. CacheOK'
  BY <1>2, CacheKeepsSuccessors DEF CreateSession
<1>4. TypeOK'
  <2>1. raced' \subseteq Tokens /\ missed' \in [Calls -> SUBSET Tokens]
    BY TrackTypes DEF IndInv
  <2>2. row' \in [Tokens -> Row]
    BY <1>1 DEF Issues
  <2>3. \A t \in Tokens :
            row'[t].state # "none" => row'[t].user \in Users /\ row'[t].session \in Tokens
    BY <1>1, IssueTypes
  <2> QED
    BY <2>1, <2>2, <2>3 DEF CreateSession, GoTo, IndInv, TypeOK, Answers
<1>5. pc[c] \in {"room", "evict"} /\ pc'[c] = "issued"
         /\ req' = req /\ snap' = snap /\ found' = found
  BY DEF CreateSession, GoTo, IndInv, TypeOK
<1>6. CallOK(c)'
  <2>1. AskedOK(c) /\ SnapOK(c) /\ EndedOK(c)
    BY DEF IndInv, CallOK
  <2>2. AskedOK(c)'
    BY <1>2, <1>5, <2>1 DEF AskedOK, Evolves, Ages
  <2>3. HeldOK(c)'
    BY <1>5 DEF HeldOK
  <2>4. SnapOK(c)' /\ EndedOK(c)'
    BY <1>2, <1>5, <2>1, SnapKept, EndedKept DEF IndInv
  <2> QED
    BY <2>2, <2>3, <2>4 DEF CallOK
<1>7. \A d \in Calls \ {c} : Kept(d)
  BY DEF Kept, CreateSession, GoTo, IndInv, TypeOK
<1> QED
  BY <1>2, <1>3, <1>4, <1>6, <1>7, StepKeeps

LEMMA RotateKeeps ==
    ASSUME IndInv, Track, NEW c \in Calls, NEW n \in Unused, Rotate(c, n)
    PROVE  IndInv'
<1>1. Issues(n, req[c].user, req[c].token) /\ req[c].token \in Issued
  BY RotateIssues
<1>2. RowsOK' /\ SessionIsOneChain' /\ Evolves
  BY <1>1, IssueKeepsRows DEF IndInv
<1>3. CacheOK'
  BY <1>2, CacheKeepsSuccessors DEF Rotate
<1>4. TypeOK'
  <2>1. raced' \subseteq Tokens /\ missed' \in [Calls -> SUBSET Tokens]
    BY TrackTypes DEF IndInv
  <2>2. row' \in [Tokens -> Row] /\ n \in Tokens
    BY <1>1 DEF Issues, Unused
  <2>3. \A t \in Tokens :
            row'[t].state # "none" => row'[t].user \in Users /\ row'[t].session \in Tokens
    BY <1>1, IssueTypes
  <2> QED
    BY <2>1, <2>2, <2>3 DEF Rotate, GoTo, IndInv, TypeOK, Steps
<1>5. pc[c] = "rotate" /\ pc'[c] = "store" /\ req' = req /\ snap' = snap /\ found' = found
      /\ held'[c] = n
  BY DEF Rotate, GoTo, IndInv, TypeOK
<1>6. CallOK(c)'
  <2>1. AskedOK(c) /\ SnapOK(c) /\ EndedOK(c)
    BY DEF IndInv, CallOK
  <2>2. AskedOK(c)'
    BY <1>2, <1>5, <2>1 DEF AskedOK, Evolves, Ages
  <2>3. HeldOK(c)'
    BY <1>1, <1>5 DEF HeldOK, Issues, Unused
  <2>4. SnapOK(c)' /\ EndedOK(c)'
    BY <1>2, <1>5, <2>1, SnapKept, EndedKept DEF IndInv
  <2> QED
    BY <2>2, <2>3, <2>4 DEF CallOK
<1>7. \A d \in Calls \ {c} : Kept(d)
  BY DEF Kept, Rotate, GoTo, IndInv, TypeOK
<1> QED
  BY <1>2, <1>3, <1>4, <1>6, <1>7, StepKeeps

-----------------------------------------------------------------------------

LEMMA NextKeeps == ASSUME IndInv, Next PROVE IndInv'
<1>1. Track
  BY DEF Next
<1>2. CASE Environment
  BY <1>1, <1>2, EnvironmentKeeps
<1>3. ASSUME NEW c \in Calls, Arrive(c) \/ Work(c) \/ Die(c) \/ Finish(c) PROVE IndInv'
  <2>1. CASE Arrive(c)
    BY <1>1, <2>1, ArriveKeeps
  <2>2. CASE Die(c)
    BY <1>1, <2>2, EndStepKeeps
  <2>3. CASE Finish(c)
    BY <1>1, <2>3, FinishKeeps
  <2>4. CASE Work(c)
    BY <1>1, <2>4, SessionStepKeeps, CreateSessionKeeps, RotateKeeps, RefreshStepKeeps,
       EndStepKeeps, SnapshotAllKeeps, RevokeAllKeeps, RevokeOneKeeps DEF Work
  <2> QED
    BY <1>3, <2>1, <2>2, <2>3, <2>4
<1> QED
  BY <1>2, <1>3 DEF Next

LEMMA StutterKeeps == ASSUME IndInv, UNCHANGED vars PROVE IndInv'
<1> USE DEF vars
<1>1. Issued' = Issued
  BY DEF Issued
<1>2. TypeOK' /\ RowsOK' /\ SessionIsOneChain' /\ CacheOK'
  BY <1>1 DEF IndInv, TypeOK, RowsOK, SessionIsOneChain, CacheOK
<1>3. \A c \in Calls : CallOK(c)'
  BY <1>1 DEF IndInv, CallOK, AskedOK, HeldOK, SnapOK, EndedOK, SeenLive
<1> QED
  BY <1>2, <1>3 DEF IndInv

\* What is inductive: tokens form chains by session, caches and calls refer to
\* tokens of the same chain, and what a call saw live is gone or was missed.
THEOREM SessionInvariance == Spec => []IndInv
<1>1. IndInv /\ [Next]_vars => IndInv'
  BY NextKeeps, StutterKeeps
<1> QED
  BY <1>1, InitEstablishes, PTL DEF Spec

\* Every variable keeps its type: rows, caches and the calls under way.
THEOREM SessionTypeCorrect == Spec => []TypeOK
BY SessionInvariance, PTL DEF IndInv

\* A token is rotated into at most one successor, and at most one token of a
\* session is live, whatever races what.
THEOREM SessionsAreChains == Spec => []SessionIsOneChain
BY SessionInvariance, PTL DEF IndInv

\* A retry is answered with the very pair its token was rotated into.
THEOREM ReplaysAreSuccessors == Spec => []ReplayIsTheSuccessor
<1>1. ASSUME IndInv, NEW c \in Calls, pc[c] = "replayed"
      PROVE  LET pair == row[held[c]]
             IN  /\ pair.parent = req[c].token
                 /\ pair.user = row[req[c].token].user
                 /\ pair.session = row[req[c].token].session
  <2>1. held[c] \in Tokens /\ row[held[c]].parent = req[c].token /\ req[c].token \in Tokens
    BY <1>1 DEF IndInv, CallOK, AskedOK, HeldOK, Issued
  <2> QED
    BY <1>1, <2>1, SessionAssumption DEF IndInv, RowsOK
<1>2. IndInv => ReplayIsTheSuccessor
  BY <1>1 DEF ReplayIsTheSuccessor
<1> QED
  BY <1>2, SessionInvariance, PTL

\* When logout, logout-all, a password change or a closure is answered, no
\* token it read as live is live.
THEOREM SeenIsRevoked == Spec => []WhatWasSeenIsRevoked
<1>1. IndInv => WhatWasSeenIsRevoked
  BY DEF IndInv, CallOK, AskedOK, SnapOK, WhatWasSeenIsRevoked
<1> QED
  BY <1>1, SessionInvariance, PTL

\* A session that a logout, a logout-all, a password change or a closure found
\* live goes on only by a rotation that committed between its reading and its
\* own commit.
THEOREM OnlyRacersSurvive == Spec => []SurvivorsRaced
<1>1. ASSUME IndInv, NEW c \in Calls, pc[c] = "done", NEW s \in SeenLive(c), NEW t \in Tokens,
             row[t].session = row[s].session, row[t].state = "live"
      PROVE  \E r \in missed[c] : row[r].session = row[s].session
  <2>1. t \notin SeenLive(c)
    BY <1>1 DEF IndInv, CallOK, AskedOK, SnapOK, SeenLive
  <2> QED
    BY <1>1, <2>1 DEF IndInv, CallOK, EndedOK
<1>2. IndInv => SurvivorsRaced
  BY <1>1 DEF SurvivorsRaced
<1> QED
  BY <1>2, SessionInvariance, PTL

-----------------------------------------------------------------------------
(* The number of sessions. *)

\* The tokens of u that come from a rotation that overtook somebody.
Raced(u) == {t \in raced : row[t].user = u}

Locked == {"room", "full", "evict"}

\* One login at a time counts a user's sessions, and what it counted still
\* holds when it inserts: nothing but a rotation that is remembered adds to it.
BoundInv ==
    /\ raced \subseteq Issued
    /\ \A c, d \in Calls :
          c # d /\ pc[c] \in Locked /\ pc[d] \in Locked => req[c].user # req[d].user
    /\ SessionsBounded
    /\ \A c \in Calls, u \in Users :
          pc[c] = "room" /\ req[c].user = u =>
              Cardinality(ActiveTokens(u)) < MaxSessions + Cardinality(Raced(u))
    /\ \A c \in Calls, u \in Users, h \in Tokens :
          pc[c] = "evict" /\ req[c].user = u /\ held[c] = h =>
              Cardinality(ActiveTokens(u) \ {h}) < MaxSessions + Cardinality(Raced(u))

LEMMA Counting ==
    ASSUME NEW X, IsFiniteSet(X), NEW Y
    PROVE  /\ Cardinality(X) \in Nat
           /\ Y \subseteq X =>
                 IsFiniteSet(Y) /\ Cardinality(Y) \in Nat /\ Cardinality(Y) <= Cardinality(X)
BY FS_CardinalityType, FS_Subset

LEMMA CountingOneMore ==
    ASSUME NEW X, IsFiniteSet(X), NEW n, NEW p, NEW Y, Y \subseteq (X \ {p}) \union {n}
    PROVE  /\ Cardinality(X) \in Nat /\ Cardinality(Y) \in Nat
           /\ Cardinality(Y) <= Cardinality(X) + 1
           /\ p \in X => Cardinality(Y) <= Cardinality(X)
<1> DEFINE Z == X \ {p}
<1>1. /\ IsFiniteSet(Z) /\ Cardinality(Z) \in Nat /\ Cardinality(Z) <= Cardinality(X)
      /\ Cardinality(X) \in Nat
  BY Counting
<1>2. p \in X => Cardinality(Z) = Cardinality(X) - 1
  BY FS_RemoveElement
<1>3. IsFiniteSet(Z \union {n}) /\ Cardinality(Z \union {n}) <= Cardinality(Z) + 1
      /\ Cardinality(Z \union {n}) \in Nat
  BY <1>1, FS_AddElement, FS_CardinalityType
<1>4. Cardinality(Y) \in Nat /\ Cardinality(Y) <= Cardinality(Z \union {n})
  BY <1>3, Counting
<1> QED
  BY <1>1, <1>2, <1>3, <1>4

LEMMA FiniteCounts ==
    ASSUME IndInv, raced \subseteq Issued, NEW u
    PROVE  /\ IsFiniteSet(ActiveTokens(u)) /\ Cardinality(ActiveTokens(u)) \in Nat
           /\ IsFiniteSet(Raced(u)) /\ Cardinality(Raced(u)) \in Nat
<1>1. ActiveTokens(u) \subseteq Issued /\ Raced(u) \subseteq Issued
  BY DEF ActiveTokens, Unrevoked, Issued, Raced
<1>2. IsFiniteSet(Issued)
  BY DEF IndInv, RowsOK
<1> QED
  BY <1>1, <1>2, Counting

\* Without a new token, nobody has more sessions than before.
LEMMA NoneIssuedShrinks ==
    ASSUME IndInv, raced \subseteq Issued, NoneIssued, raced' = raced, NEW u
    PROVE  ActiveTokens(u)' \subseteq ActiveTokens(u) /\ Raced(u)' = Raced(u)
<1>1. \A t \in Tokens : row'[t].state = "live" => row[t].state = "live"
  BY RowTyping DEF NoneIssued, Ages, IndInv
<1> QED
  BY <1>1 DEF NoneIssued, Ages, ActiveTokens, Unrevoked, Raced, Issued

\* A step that issues nothing, and by which no login gets to count.
LEMMA QuietBound ==
    ASSUME IndInv, BoundInv, NoneIssued, Track,
           \A d \in Calls : pc'[d] \in Locked =>
               pc'[d] = pc[d] /\ req'[d] = req[d] /\ held'[d] = held[d]
    PROVE  BoundInv'
<1>1. raced' = raced /\ Evolves
  BY NoneIssuedKeepsRows DEF IndInv
<1>2. \A u : ActiveTokens(u)' \subseteq ActiveTokens(u) /\ Raced(u)' = Raced(u)
  BY <1>1, NoneIssuedShrinks DEF BoundInv
<1>3. \A u : IsFiniteSet(ActiveTokens(u)) /\ Cardinality(ActiveTokens(u)) \in Nat
             /\ Cardinality(Raced(u)) \in Nat
  BY FiniteCounts DEF BoundInv
<1>4. \A u : Cardinality(ActiveTokens(u)') \in Nat
             /\ Cardinality(ActiveTokens(u)') <= Cardinality(ActiveTokens(u))
  BY <1>2, <1>3, Counting
<1>5. ASSUME NEW u, NEW h
      PROVE  /\ Cardinality(ActiveTokens(u)' \ {h}) \in Nat
             /\ Cardinality(ActiveTokens(u) \ {h}) \in Nat
             /\ Cardinality(ActiveTokens(u)' \ {h}) <= Cardinality(ActiveTokens(u) \ {h})
  <2>1. IsFiniteSet(ActiveTokens(u) \ {h})
    BY <1>3, Counting
  <2>2. (ActiveTokens(u)' \ {h}) \subseteq (ActiveTokens(u) \ {h})
    BY <1>2
  <2> QED
    BY <2>1, <2>2, Counting
<1>6. (raced \subseteq Issued)'
  BY <1>1 DEF BoundInv, Evolves
<1>7. \A c, d \in Calls :
          c # d /\ pc'[c] \in Locked /\ pc'[d] \in Locked => req'[c].user # req'[d].user
  BY DEF BoundInv
<1>8. SessionsBounded'
  <2> SUFFICES ASSUME NEW u \in Users
               PROVE  Cardinality(ActiveTokens(u)') <= MaxSessions + Cardinality(Raced(u)')
    BY DEF SessionsBounded, Raced
  <2>1. Cardinality(ActiveTokens(u)) <= MaxSessions + Cardinality(Raced(u))
    BY DEF BoundInv, SessionsBounded, Raced
  <2> QED
    BY <2>1, <1>2, <1>3, <1>4, SessionAssumption
<1>9. ASSUME NEW c \in Calls, NEW u \in Users, pc'[c] = "room", req'[c].user = u
      PROVE  Cardinality(ActiveTokens(u)') < MaxSessions + Cardinality(Raced(u)')
  <2>1. Cardinality(ActiveTokens(u)) < MaxSessions + Cardinality(Raced(u))
    BY <1>9 DEF Locked, BoundInv
  <2> QED
    BY <2>1, <1>2, <1>3, <1>4, SessionAssumption
<1>10. ASSUME NEW c \in Calls, NEW u \in Users, NEW h \in Tokens,
              pc'[c] = "evict", req'[c].user = u, held'[c] = h
       PROVE  Cardinality(ActiveTokens(u)' \ {h}) < MaxSessions + Cardinality(Raced(u)')
  <2>1. Cardinality(ActiveTokens(u) \ {h}) < MaxSessions + Cardinality(Raced(u))
    BY <1>10 DEF Locked, BoundInv
  <2>2. /\ Cardinality(ActiveTokens(u)' \ {h}) \in Nat
        /\ Cardinality(ActiveTokens(u) \ {h}) \in Nat
        /\ Cardinality(ActiveTokens(u)' \ {h}) <= Cardinality(ActiveTokens(u) \ {h})
    BY <1>5
  <2>3. Cardinality(Raced(u)) \in Nat /\ Raced(u)' = Raced(u)
    BY <1>2, <1>3
  <2> QED
    BY <2>1, <2>2, <2>3, SessionAssumption
<1> QED
  BY <1>6, <1>7, <1>8, <1>9, <1>10 DEF BoundInv

\* A login counts with the advisory lock, and chooses a victim that is active.
LEMMA CountSessionsBound ==
    ASSUME IndInv, IndInv', BoundInv, Track, NEW c \in Calls, CountSessions(c)
    PROVE  BoundInv'
<1> USE DEF CountSessions, GoTo, storeVars
<1>1. row' = row /\ raced' = raced /\ req' = req /\ held' = held /\ Issued' = Issued
  BY SameRows
<1>2. /\ pc[c] = "session" /\ pc'[c] \in {"full", "room"}
      /\ \A d \in Calls \ {c} : pc'[d] = pc[d]
      /\ pc'[c] = "room" => ~ (Cardinality(ActiveTokens(req[c].user)) >= MaxSessions)
  BY DEF IndInv, TypeOK
<1>3. \A u : ActiveTokens(u)' = ActiveTokens(u) /\ Raced(u)' = Raced(u)
  BY <1>1 DEF ActiveTokens, Unrevoked, Raced
<1>4. \A d \in Calls : req[d].user = req[c].user => pc[d] \notin Locked
  BY DEF AdvisoryLockFree, Locked
<1>5. SessionsBounded'
  BY <1>3 DEF BoundInv, SessionsBounded, Raced
<1>6. ASSUME NEW d \in Calls, NEW u \in Users, pc'[d] = "room", req'[d].user = u
      PROVE  Cardinality(ActiveTokens(u)') < MaxSessions + Cardinality(Raced(u)')
  <2>1. CASE d = c
    <3>1. Cardinality(ActiveTokens(u)) \in Nat /\ Cardinality(Raced(u)) \in Nat
      BY FiniteCounts DEF BoundInv
    <3>2. ~ (Cardinality(ActiveTokens(u)) >= MaxSessions)
      BY <1>1, <1>2, <1>6, <2>1
    <3> QED
      BY <1>3, <3>1, <3>2, SessionAssumption
  <2>2. CASE d # c
    BY <1>1, <1>2, <1>3, <1>6, <2>2 DEF BoundInv
  <2> QED
    BY <2>1, <2>2
<1>7. ASSUME NEW d \in Calls, NEW u \in Users, NEW h \in Tokens,
             pc'[d] = "evict", req'[d].user = u, held'[d] = h
      PROVE  Cardinality(ActiveTokens(u)' \ {h}) < MaxSessions + Cardinality(Raced(u)')
  BY <1>1, <1>2, <1>3, <1>7 DEF BoundInv
<1>8. \A d, e \in Calls :
          d # e /\ pc'[d] \in Locked /\ pc'[e] \in Locked => req'[d].user # req'[e].user
  BY <1>1, <1>2, <1>4 DEF BoundInv
<1>9. (raced \subseteq Issued)'
  BY <1>1 DEF BoundInv
<1> QED
  BY <1>5, <1>6, <1>7, <1>8, <1>9 DEF BoundInv

LEMMA ChooseVictimBound ==
    ASSUME IndInv, IndInv', BoundInv, Track, NEW c \in Calls, ChooseVictim(c)
    PROVE  BoundInv'
<1> USE DEF ChooseVictim, GoTo, storeVars
<1>1. row' = row /\ raced' = raced /\ req' = req /\ Issued' = Issued
  BY SameRows
<1>2. /\ pc[c] = "full" /\ pc'[c] \in {"evict", "room"}
      /\ \A d \in Calls \ {c} : pc'[d] = pc[d] /\ held'[d] = held[d]
      /\ pc'[c] = "room" => ActiveTokens(req[c].user) = {}
      /\ pc'[c] = "evict" => held'[c] \in ActiveTokens(req[c].user)
  BY DEF IndInv, TypeOK
<1>3. \A u : ActiveTokens(u)' = ActiveTokens(u) /\ Raced(u)' = Raced(u)
  BY <1>1 DEF ActiveTokens, Unrevoked, Raced
<1>4. SessionsBounded'
  BY <1>3 DEF BoundInv, SessionsBounded, Raced
<1>5. ASSUME NEW d \in Calls, NEW u \in Users, pc'[d] = "room", req'[d].user = u
      PROVE  Cardinality(ActiveTokens(u)') < MaxSessions + Cardinality(Raced(u)')
  <2>1. CASE d = c
    <3>1. Cardinality(Raced(u)) \in Nat
      BY FiniteCounts DEF BoundInv
    <3>2. Cardinality(ActiveTokens(u)) = 0
      BY <1>1, <1>2, <1>5, <2>1, FS_EmptySet
    <3> QED
      BY <1>3, <3>1, <3>2, SessionAssumption
  <2>2. CASE d # c
    BY <1>1, <1>2, <1>3, <1>5, <2>2 DEF BoundInv
  <2> QED
    BY <2>1, <2>2
<1>6. ASSUME NEW d \in Calls, NEW u \in Users, NEW h \in Tokens,
             pc'[d] = "evict", req'[d].user = u, held'[d] = h
      PROVE  Cardinality(ActiveTokens(u)' \ {h}) < MaxSessions + Cardinality(Raced(u)')
  <2>1. CASE d = c
    <3>1. IsFiniteSet(ActiveTokens(u)) /\ Cardinality(ActiveTokens(u)) \in Nat
             /\ Cardinality(Raced(u)) \in Nat
      BY FiniteCounts DEF BoundInv
    <3>2. Cardinality(ActiveTokens(u) \ {h}) = Cardinality(ActiveTokens(u)) - 1
      BY <1>1, <1>2, <1>6, <2>1, <3>1, FS_RemoveElement
    <3>3. Cardinality(ActiveTokens(u)) <= MaxSessions + Cardinality(Raced(u))
      BY DEF BoundInv, SessionsBounded, Raced
    <3>4. ActiveTokens(u)' \ {h} = ActiveTokens(u) \ {h} /\ Raced(u)' = Raced(u)
      BY <1>3
    <3>5. Cardinality(ActiveTokens(u)' \ {h}) = Cardinality(ActiveTokens(u)) - 1
      BY <3>2, <3>4, Zenon
    <3> QED
      BY <3>1, <3>3, <3>4, <3>5, SessionAssumption
  <2>2. CASE d # c
    BY <1>1, <1>2, <1>3, <1>6, <2>2 DEF BoundInv
  <2> QED
    BY <2>1, <2>2
<1>7. \A d, e \in Calls :
          d # e /\ pc'[d] \in Locked /\ pc'[e] \in Locked => req'[d].user # req'[e].user
  BY <1>1, <1>2 DEF BoundInv, Locked
<1>8. (raced \subseteq Issued)'
  BY <1>1 DEF BoundInv
<1> QED
  BY <1>4, <1>5, <1>6, <1>7, <1>8 DEF BoundInv

\* A step that issues n to u leaves the others what they had.
LEMMA IssueCounts ==
    ASSUME IndInv, raced \subseteq Issued, NEW n, NEW u, NEW p, Issues(n, u, p), Track
    PROVE  /\ (raced \subseteq Issued)'
           /\ n \notin Issued
           /\ \A v : v # u => ActiveTokens(v)' \subseteq ActiveTokens(v) /\ Raced(v)' = Raced(v)
           /\ ActiveTokens(u)' \subseteq
                     (ActiveTokens(u) \ {t \in Tokens : row'[t].state # "live"}) \union {n}
           /\ raced' = raced => Raced(u)' = Raced(u)
           /\ raced' = raced \union {n} => Raced(u)' = Raced(u) \union {n}
<1>1. n \in Tokens /\ row[n].state = "none" /\ n \notin Issued /\ n \notin raced
  BY DEF Issues, Unused, Issued
<1>2. \A t \in Tokens \ {n} : row'[t].state = "live" => row[t].state = "live"
  BY RowTyping DEF Issues, Ages, IndInv
<1>3. raced' \subseteq raced \union {n}
  BY IssueKeepsRows DEF IndInv
<1>4. \A t \in raced : t \in Tokens \ {n} /\ row'[t].user = row[t].user /\ row'[t].state # "none"
  BY <1>1 DEF Issues, Ages, Issued
<1>5. (raced \subseteq Issued)'
  BY <1>1, <1>3, <1>4 DEF Issues, Issued
<1>6. \A v : v # u => ActiveTokens(v)' \subseteq ActiveTokens(v)
  BY <1>2 DEF Issues, Ages, ActiveTokens, Unrevoked
<1>7. \A v : v # u => Raced(v)' = Raced(v)
  BY <1>3, <1>4, IssueKeepsRows DEF Issues, Raced, IndInv
<1>8. ActiveTokens(u)' \subseteq
          (ActiveTokens(u) \ {t \in Tokens : row'[t].state # "live"}) \union {n}
  BY <1>2 DEF Issues, Ages, ActiveTokens, Unrevoked
<1>9. raced' = raced => Raced(u)' = Raced(u)
  BY <1>4 DEF Raced
<1>10. raced' = raced \union {n} => Raced(u)' = Raced(u) \union {n}
  BY <1>4 DEF Raced, Issues
<1> QED
  BY <1>1, <1>5, <1>6, <1>7, <1>8, <1>9, <1>10

\* The bounds of the users that get no token.
LEMMA OthersBound ==
    ASSUME IndInv, BoundInv, NEW n, NEW u, NEW p, Issues(n, u, p), Track, NEW v \in Users, v # u
    PROVE  /\ Cardinality(ActiveTokens(v)') <= MaxSessions + Cardinality(Raced(v)')
           /\ Cardinality(ActiveTokens(v)) < MaxSessions + Cardinality(Raced(v)) =>
                 Cardinality(ActiveTokens(v)') < MaxSessions + Cardinality(Raced(v)')
           /\ \A h : Cardinality(ActiveTokens(v) \ {h}) < MaxSessions + Cardinality(Raced(v)) =>
                 Cardinality(ActiveTokens(v)' \ {h}) < MaxSessions + Cardinality(Raced(v)')
<1>1. ActiveTokens(v)' \subseteq ActiveTokens(v) /\ Raced(v)' = Raced(v)
  BY IssueCounts DEF BoundInv
<1>2. /\ IsFiniteSet(ActiveTokens(v)) /\ Cardinality(ActiveTokens(v)) \in Nat
      /\ Cardinality(Raced(v)) \in Nat
  BY FiniteCounts DEF BoundInv
<1>3. Cardinality(ActiveTokens(v)') \in Nat
         /\ Cardinality(ActiveTokens(v)') <= Cardinality(ActiveTokens(v))
  BY <1>1, <1>2, Counting
<1>4. Cardinality(ActiveTokens(v)) <= MaxSessions + Cardinality(Raced(v))
  BY DEF BoundInv, SessionsBounded, Raced
<1>5. ASSUME NEW h, Cardinality(ActiveTokens(v) \ {h}) < MaxSessions + Cardinality(Raced(v))
      PROVE  Cardinality(ActiveTokens(v)' \ {h}) < MaxSessions + Cardinality(Raced(v)')
  <2>1. IsFiniteSet(ActiveTokens(v) \ {h})
    BY <1>2, Counting
  <2>2. (ActiveTokens(v)' \ {h}) \subseteq (ActiveTokens(v) \ {h})
    BY <1>1
  <2>3. /\ Cardinality(ActiveTokens(v)' \ {h}) \in Nat /\ Cardinality(ActiveTokens(v) \ {h}) \in Nat
        /\ Cardinality(ActiveTokens(v)' \ {h}) <= Cardinality(ActiveTokens(v) \ {h})
    BY <2>1, <2>2, Counting
  <2> QED
    BY <1>1, <1>2, <1>5, <2>3, SessionAssumption
<1>6. Cardinality(Raced(v)') = Cardinality(Raced(v))
  BY <1>1
<1>7. /\ Cardinality(ActiveTokens(v)') <= MaxSessions + Cardinality(Raced(v)')
      /\ Cardinality(ActiveTokens(v)) < MaxSessions + Cardinality(Raced(v)) =>
            Cardinality(ActiveTokens(v)') < MaxSessions + Cardinality(Raced(v)')
  BY <1>2, <1>3, <1>4, <1>6, SessionAssumption
<1> QED
  BY <1>5, <1>7

\* The insertion takes the place that was counted free, or the victim's.
LEMMA CreateSessionBound ==
    ASSUME IndInv, IndInv', BoundInv, Track, NEW c \in Calls, NEW n \in Unused, CreateSession(c, n)
    PROVE  BoundInv'
<1>1. PICK u \in Users : u = req[c].user /\ Issues(n, u, NoToken)
  BY CreateSessionIssues DEF Issues
<1>2. raced' = raced
  BY <1>1, IssueKeepsRows DEF IndInv
<1>3. /\ pc[c] \in {"room", "evict"} /\ pc'[c] = "issued" /\ req' = req
      /\ \A d \in Calls \ {c} : pc'[d] = pc[d] /\ held'[d] = held[d]
  BY DEF CreateSession, GoTo, IndInv, TypeOK
<1>4. \A d \in Calls : pc'[d] \in Locked =>
          d # c /\ pc[d] = pc'[d] /\ held'[d] = held[d] /\ req[d].user # u
  BY <1>1, <1>3 DEF BoundInv, Locked
<1>5. (raced \subseteq Issued)' /\ Raced(u)' = Raced(u)
  BY <1>1, <1>2, IssueCounts DEF BoundInv
<1>6. /\ IsFiniteSet(ActiveTokens(u)) /\ Cardinality(ActiveTokens(u)) \in Nat
      /\ Cardinality(Raced(u)) \in Nat
  BY FiniteCounts DEF BoundInv
<1>7. Cardinality(ActiveTokens(u)') <= MaxSessions + Cardinality(Raced(u)')
  <2>1. CASE pc[c] = "room"
    <3>1. Cardinality(ActiveTokens(u)) < MaxSessions + Cardinality(Raced(u))
      BY <1>1, <2>1 DEF BoundInv
    <3>2. ActiveTokens(u)' \subseteq (ActiveTokens(u) \ {n}) \union {n}
      BY <1>1, IssueCounts DEF BoundInv
    <3>3. /\ Cardinality(ActiveTokens(u)') \in Nat
          /\ Cardinality(ActiveTokens(u)') <= Cardinality(ActiveTokens(u)) + 1
      BY <1>6, <3>2, CountingOneMore
    <3> QED
      BY <1>5, <1>6, <3>1, <3>3, SessionAssumption
  <2>2. CASE pc[c] = "evict"
    <3>1. PICK h \in Tokens : h = held[c] /\ h \in Issued
      BY <2>2 DEF IndInv, CallOK, HeldOK, Issued
    <3>2. Cardinality(ActiveTokens(u) \ {h}) < MaxSessions + Cardinality(Raced(u))
      BY <1>1, <2>2, <3>1 DEF BoundInv
    <3>3. row'[h].state = "revoked"
      <4>1. row' = Issue(Revoke(row, {h}), n, u, NoToken, n)
        BY <1>1, <2>2, <3>1 DEF CreateSession, GoTo
      <4>2. h # n
        BY <3>1 DEF Issued, Unused
      <4>3. row'[h] = [row[h] EXCEPT !.state = "revoked", !.late = FALSE]
        BY <3>1, <4>1, <4>2 DEF Issue, Revoke
      <4> QED
        BY <4>3, RowTyping DEF IndInv, Row
    <3>4. ActiveTokens(u)' \subseteq ((ActiveTokens(u) \ {h}) \ {n}) \union {n}
      BY <1>1, <3>1, <3>3, IssueCounts DEF BoundInv
    <3>5. IsFiniteSet(ActiveTokens(u) \ {h})
      BY <1>6, Counting
    <3>6. /\ Cardinality(ActiveTokens(u)') \in Nat /\ Cardinality(ActiveTokens(u) \ {h}) \in Nat
          /\ Cardinality(ActiveTokens(u)') <= Cardinality(ActiveTokens(u) \ {h}) + 1
      BY <3>4, <3>5, CountingOneMore
    <3> QED
      BY <1>5, <1>6, <3>2, <3>6, SessionAssumption
  <2> QED
    BY <1>3, <2>1, <2>2
<1>8. ASSUME NEW v \in Users
      PROVE  Cardinality(ActiveTokens(v)') <= MaxSessions + Cardinality(Raced(v)')
  BY <1>1, <1>7, OthersBound
<1>9. SessionsBounded'
  BY <1>8 DEF SessionsBounded, Raced
<1>10. ASSUME NEW d \in Calls, NEW v \in Users, pc'[d] = "room", req'[d].user = v
       PROVE  Cardinality(ActiveTokens(v)') < MaxSessions + Cardinality(Raced(v)')
  <2>1. v # u /\ Cardinality(ActiveTokens(v)) < MaxSessions + Cardinality(Raced(v))
    BY <1>3, <1>4, <1>10 DEF Locked, BoundInv
  <2> QED
    BY <1>1, <2>1, OthersBound
<1>11. ASSUME NEW d \in Calls, NEW v \in Users, NEW h \in Tokens,
              pc'[d] = "evict", req'[d].user = v, held'[d] = h
       PROVE  Cardinality(ActiveTokens(v)' \ {h}) < MaxSessions + Cardinality(Raced(v)')
  <2>1. v # u /\ Cardinality(ActiveTokens(v) \ {h}) < MaxSessions + Cardinality(Raced(v))
    BY <1>3, <1>4, <1>11 DEF Locked, BoundInv
  <2> QED
    BY <1>1, <2>1, OthersBound
<1>12. \A d, e \in Calls :
          d # e /\ pc'[d] \in Locked /\ pc'[e] \in Locked => req'[d].user # req'[e].user
  BY <1>3, <1>4 DEF BoundInv
<1> QED
  BY <1>5, <1>9, <1>10, <1>11, <1>12 DEF BoundInv

\* A rotation takes the place of the token it revokes, unless that token did
\* not count or was about to be evicted; then it is remembered.
LEMMA RotateBound ==
    ASSUME IndInv, IndInv', BoundInv, Track, NEW c \in Calls, NEW n \in Unused, Rotate(c, n)
    PROVE  BoundInv'
<1>1. PICK u \in Users, p \in Tokens :
          /\ u = req[c].user /\ p = req[c].token /\ Issues(n, u, p)
          /\ row[p].state = "live" /\ row[p].user = u
  BY RotateIssues DEF Issues, Issued
<1>2. p # NoToken
  BY <1>1, SessionAssumption
<1>3. raced' = raced \union (IF Overtakes(p) THEN {n} ELSE {})
  BY <1>1, <1>2, IssueKeepsRows DEF IndInv
<1>4. /\ pc[c] = "rotate" /\ pc'[c] = "store" /\ req' = req
      /\ \A d \in Calls \ {c} : pc'[d] = pc[d] /\ held'[d] = held[d]
  BY DEF Rotate, GoTo, IndInv, TypeOK
<1>5. \A d \in Calls : pc'[d] \in Locked =>
          pc[d] = pc'[d] /\ held'[d] = held[d] /\ req'[d] = req[d]
  BY <1>4 DEF Locked
<1>6. /\ (raced \subseteq Issued)' /\ n \notin Issued
      /\ raced' = raced => Raced(u)' = Raced(u)
      /\ raced' = raced \union {n} => Raced(u)' = Raced(u) \union {n}
  BY <1>1, IssueCounts DEF BoundInv
<1>7. /\ IsFiniteSet(ActiveTokens(u)) /\ Cardinality(ActiveTokens(u)) \in Nat
      /\ IsFiniteSet(Raced(u)) /\ Cardinality(Raced(u)) \in Nat
  BY FiniteCounts DEF BoundInv
<1>8. /\ Cardinality(Raced(u)') \in Nat /\ Cardinality(Raced(u)') >= Cardinality(Raced(u))
      /\ Overtakes(p) => Cardinality(Raced(u)') = Cardinality(Raced(u)) + 1
  <2>1. n \notin Raced(u)
    BY <1>6 DEF Raced, BoundInv
  <2>2. CASE Overtakes(p)
    <3>1. Raced(u)' = Raced(u) \union {n}
      BY <1>3, <1>6, <2>2
    <3>2. Cardinality(Raced(u) \union {n}) = Cardinality(Raced(u)) + 1
      BY <1>7, <2>1, FS_AddElement
    <3>3. Cardinality(Raced(u)') = Cardinality(Raced(u)) + 1
      BY <3>1, <3>2, Zenon
    <3> QED
      BY <1>7, <3>3
  <2>3. CASE ~ Overtakes(p)
    BY <1>3, <1>6, <1>7, <2>3
  <2> QED
    BY <2>2, <2>3
<1>9. ActiveTokens(u)' \subseteq (ActiveTokens(u) \ {p}) \union {n}
  <2>1. row'[p].state # "live"
    BY <1>1, SessionAssumption DEF Issues
  <2> QED
    BY <1>1, <2>1, IssueCounts DEF BoundInv
<1>10. ASSUME NEW X \in SUBSET ActiveTokens(u), NEW Y, Y \subseteq (X \ {p}) \union {n},
              p \in X \/ Overtakes(p)
       PROVE  /\ Cardinality(X) \in Nat /\ Cardinality(Y) \in Nat
              /\ Cardinality(Y) + Cardinality(Raced(u)) <= Cardinality(X) + Cardinality(Raced(u)')
  <2>1. IsFiniteSet(X)
    BY <1>7, Counting
  <2>2. /\ Cardinality(X) \in Nat /\ Cardinality(Y) \in Nat
        /\ Cardinality(Y) <= Cardinality(X) + 1
        /\ p \in X => Cardinality(Y) <= Cardinality(X)
    BY <1>10, <2>1, CountingOneMore
  <2>3. CASE p \in X
    BY <1>7, <1>8, <2>2, <2>3
  <2>4. CASE Overtakes(p)
    BY <1>7, <1>8, <2>2, <2>4
  <2> QED
    BY <1>10, <2>2, <2>3, <2>4
<1>11. p \in ActiveTokens(u) \/ Overtakes(p)
  BY <1>1 DEF ActiveTokens, Unrevoked, Overtakes
<1>12. /\ Cardinality(ActiveTokens(u)') \in Nat
       /\ Cardinality(ActiveTokens(u)') + Cardinality(Raced(u)) <=
              Cardinality(ActiveTokens(u)) + Cardinality(Raced(u)')
  BY <1>9, <1>10, <1>11
<1>13. ASSUME NEW v \in Users
       PROVE  Cardinality(ActiveTokens(v)') <= MaxSessions + Cardinality(Raced(v)')
  <2>1. CASE v = u
    <3>1. Cardinality(ActiveTokens(u)) <= MaxSessions + Cardinality(Raced(u))
      BY DEF BoundInv, SessionsBounded, Raced
    <3> QED
      BY <1>7, <1>8, <1>12, <2>1, <3>1, SessionAssumption
  <2>2. CASE v # u
    BY <1>1, <2>2, OthersBound
  <2> QED
    BY <2>1, <2>2
<1>14. SessionsBounded'
  BY <1>13 DEF SessionsBounded, Raced
<1>15. ASSUME NEW d \in Calls, NEW v \in Users, pc'[d] = "room", req'[d].user = v
       PROVE  Cardinality(ActiveTokens(v)') < MaxSessions + Cardinality(Raced(v)')
  <2>1. Cardinality(ActiveTokens(v)) < MaxSessions + Cardinality(Raced(v))
    BY <1>5, <1>15 DEF Locked, BoundInv
  <2>2. CASE v = u
    BY <1>7, <1>8, <1>12, <2>1, <2>2, SessionAssumption
  <2>3. CASE v # u
    BY <1>1, <2>1, <2>3, OthersBound
  <2> QED
    BY <2>2, <2>3
<1>16. ASSUME NEW d \in Calls, NEW v \in Users, NEW h \in Tokens,
              pc'[d] = "evict", req'[d].user = v, held'[d] = h
       PROVE  Cardinality(ActiveTokens(v)' \ {h}) < MaxSessions + Cardinality(Raced(v)')
  <2>1. /\ Cardinality(ActiveTokens(v) \ {h}) < MaxSessions + Cardinality(Raced(v))
        /\ pc[d] = "evict" /\ held[d] = h /\ h \in Issued
    BY <1>5, <1>16 DEF Locked, BoundInv, IndInv, CallOK, HeldOK
  <2>2. CASE v = u
    <3> DEFINE X == ActiveTokens(u) \ {h}
               Y == ActiveTokens(u)' \ {h}
    <3>1. Y \subseteq (X \ {p}) \union {n} /\ X \in SUBSET ActiveTokens(u)
      BY <1>9
    <3>2. p \in X \/ Overtakes(p)
      BY <1>11, <2>1 DEF Overtakes
    <3>3. /\ Cardinality(X) \in Nat /\ Cardinality(Y) \in Nat
          /\ Cardinality(Y) + Cardinality(Raced(u)) <= Cardinality(X) + Cardinality(Raced(u)')
      <4> HIDE DEF X, Y
      <4> QED
        BY <1>10, <3>1, <3>2
    <3>4. Cardinality(X) < MaxSessions + Cardinality(Raced(u))
      BY <2>1, <2>2
    <3>5. Cardinality(Y) < MaxSessions + Cardinality(Raced(u)')
      <4> HIDE DEF X, Y
      <4> QED
        BY <1>7, <1>8, <3>3, <3>4, SessionAssumption
    <3> QED
      BY <2>2, <3>5
  <2>3. CASE v # u
    BY <1>1, <2>1, <2>3, OthersBound
  <2> QED
    BY <2>2, <2>3
<1>17. \A d, e \in Calls :
          d # e /\ pc'[d] \in Locked /\ pc'[e] \in Locked => req'[d].user # req'[e].user
  BY <1>5 DEF BoundInv
<1> QED
  BY <1>6, <1>14, <1>15, <1>16, <1>17 DEF BoundInv

LEMMA InitBound == ASSUME Init PROVE BoundInv
<1>1. \A u : ActiveTokens(u) = {} /\ Raced(u) = {}
  BY DEF Init, ActiveTokens, Unrevoked, NoRow, Raced
<1>2. SessionsBounded
  <2>1. \A u : Cardinality(ActiveTokens(u)) = 0 /\ Cardinality({t \in raced : row[t].user = u}) = 0
    BY <1>1, FS_EmptySet DEF Raced
  <2> QED
    BY <2>1, SessionAssumption DEF SessionsBounded
<1> QED
  BY <1>2 DEF Init, BoundInv, Locked

LEMMA NextBound == ASSUME IndInv, IndInv', BoundInv, Next PROVE BoundInv'
<1>1. Track
  BY DEF Next
<1>2. CASE Environment
  <2>1. NoneIssued
    BY <1>2, EnvironmentAges
  <2>2. UNCHANGED <<pc, req, held>>
    BY <1>2 DEF Environment, Expire, GraceEnds, CacheExpires, DeleteExpired
  <2> QED
    BY <1>1, <2>1, <2>2, QuietBound
<1>3. ASSUME row' = row PROVE NoneIssued
  BY <1>3, RowTyping DEF IndInv, TypeOK, NoneIssued, Ages
<1>4. ASSUME NEW c \in Calls, Arrive(c) PROVE BoundInv'
  <2>1. row' = row /\ held' = held /\ pc'[c] \notin Locked
        /\ \A d \in Calls \ {c} : pc'[d] = pc[d] /\ req'[d] = req[d]
    <3> USE DEF storeVars, Begin, Locked
    <3>1. ASSUME NEW u \in Users, Register(c, u) \/ Login(c, u) \/ UpdateUserStatus(c, u)
          PROVE  row' = row /\ held' = held /\ pc'[c] \notin Locked
                 /\ \A d \in Calls \ {c} : pc'[d] = pc[d] /\ req'[d] = req[d]
      BY <3>1 DEF Register, Login, UpdateUserStatus, IndInv, TypeOK
    <3>2. ASSUME NEW t \in Tokens, Refresh(c, t)
          PROVE  row' = row /\ held' = held /\ pc'[c] \notin Locked
                 /\ \A d \in Calls \ {c} : pc'[d] = pc[d] /\ req'[d] = req[d]
      BY <3>2, ClassifyType DEF Refresh, IndInv, TypeOK
    <3>3. ASSUME NEW j \in Tokens, NEW t \in Tokens, Logout(c, j, t)
          PROVE  row' = row /\ held' = held /\ pc'[c] \notin Locked
                 /\ \A d \in Calls \ {c} : pc'[d] = pc[d] /\ req'[d] = req[d]
      BY <3>3 DEF Logout, IndInv, TypeOK
    <3>4. ASSUME NEW op \in Ops, NEW j \in Tokens, EndAll(c, op, j)
          PROVE  row' = row /\ held' = held /\ pc'[c] \notin Locked
                 /\ \A d \in Calls \ {c} : pc'[d] = pc[d] /\ req'[d] = req[d]
      BY <3>4 DEF EndAll, IndInv, TypeOK
    <3> QED
      BY <1>4, <3>1, <3>2, <3>3, <3>4 DEF Arrive
  <2> QED
    BY <1>1, <1>3, <2>1, QuietBound
<1>5. ASSUME NEW c \in Calls,
             \/ VictimGone(c) \/ LookUp(c) \/ Replay(c) \/ CacheMiss(c) \/ CheckUser(c)
             \/ RotateFails(c) \/ StoreCache(c) \/ SnapshotAll(c) \/ ClearCache(c) \/ Deny(c)
             \/ Die(c) \/ Finish(c)
      PROVE  BoundInv'
  <2>1. row' = row /\ pc'[c] \notin Locked
        /\ \A d \in Calls \ {c} : pc'[d] = pc[d] /\ req'[d] = req[d] /\ held'[d] = held[d]
    BY <1>5 DEF VictimGone, LookUp, Replay, CacheMiss, CheckUser, RotateFails, StoreCache,
                SnapshotAll, ClearCache, Deny, Die, Finish, GoTo, storeVars, Locked, IndInv, TypeOK
  <2> QED
    BY <1>1, <1>3, <2>1, QuietBound
<1>6. ASSUME NEW c \in Calls, RevokeAll(c) PROVE BoundInv'
  <2>1. NoneIssued
    <3>1. Targets(c) \in SUBSET Issued /\ \A t \in Targets(c) : row[t].state # "deleted"
      BY DEF Targets, Issued, IndInv, TypeOK
    <3>2. row' = Revoke(row, Targets(c))
      BY <1>6 DEF RevokeAll
    <3> QED
      BY <3>1, <3>2, RevokeAges
  <2>2. pc'[c] \notin Locked
        /\ \A d \in Calls \ {c} : pc'[d] = pc[d] /\ req'[d] = req[d] /\ held'[d] = held[d]
    BY <1>6 DEF RevokeAll, AfterRevokeAll, GoTo, Locked, IndInv, TypeOK
  <2> QED
    BY <1>1, <2>1, <2>2, QuietBound
<1>7. ASSUME NEW c \in Calls, RevokeOne(c) PROVE BoundInv'
  <2>1. NoneIssued
    <3> DEFINE S == {t \in {req[c].token} : row[t].state = "live"}
    <3>1. S \in SUBSET Issued /\ \A t \in S : row[t].state # "deleted"
      BY <1>7 DEF RevokeOne, GoTo, IndInv, CallOK, AskedOK
    <3> QED
      BY <1>7, <3>1, RevokeAges DEF RevokeOne
  <2>2. pc'[c] \notin Locked
        /\ \A d \in Calls \ {c} : pc'[d] = pc[d] /\ req'[d] = req[d] /\ held'[d] = held[d]
    BY <1>7 DEF RevokeOne, GoTo, Locked, IndInv, TypeOK
  <2> QED
    BY <1>1, <2>1, <2>2, QuietBound
<1>8. ASSUME NEW c \in Calls, Work(c) PROVE BoundInv'
  BY <1>1, <1>5, <1>6, <1>7, <1>8, CountSessionsBound, ChooseVictimBound, CreateSessionBound,
     RotateBound DEF Work
<1> QED
  BY <1>2, <1>4, <1>5, <1>8 DEF Next

\* A user has at most MaxSessions active sessions, and one more for each
\* rotation that got past a login's choice of a victim or renewed a token that
\* had expired: concurrent logins add nothing.
THEOREM SessionCount == Spec => []SessionsBounded
<1>1. Init => BoundInv
  BY InitBound
<1>2. IndInv /\ IndInv' /\ BoundInv /\ [Next]_vars => BoundInv'
  <2>1. ASSUME IndInv, BoundInv, UNCHANGED vars PROVE BoundInv'
    BY <2>1 DEF vars, BoundInv, Issued, SessionsBounded, ActiveTokens, Unrevoked, Raced
  <2> QED
    BY <2>1, NextBound
<1>3. BoundInv => SessionsBounded
  BY DEF BoundInv
<1> QED
  BY <1>1, <1>2, <1>3, SessionInvariance, PTL DEF Spec
=============================================================================
