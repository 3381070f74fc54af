----------------------------- MODULE PagedReads -----------------------------
(***************************************************************************)
(* The lists clients read page by page while other transactions commit:    *)
(* the ledger and the wallet list by keyset cursor (WalletService with     *)
(* WalletRepository.findLedgerPage and findAll), the transaction history   *)
(* and the user list by page number (findByWalletPaginated,                *)
(* UsersRepository.findAll).                                               *)
(*                                                                         *)
(* A row's createdAt is older than its commit, so rows become visible out  *)
(* of createdAt order, and several rows may share a millisecond. Rows are  *)
(* never deleted and never change their place in the order. The filters of *)
(* the admin lists select rows by what does not change; a filter by a      *)
(* user's status, which rows can leave, is not modelled.                   *)
(***************************************************************************)
EXTENDS Naturals, FiniteSets

CONSTANTS
    Rows,           \* ids of the rows there can be, ordered as the UUIDs are
    Limits,         \* page sizes clients ask for
    MaxTime,        \* bound on the clock
    NoCursor        \* "omit to fetch the first page"

Times == 1..MaxTime

\* What decodeCursor lets through; anything else is a 400.
Cursor == [createdAt : Times, id : Rows]

ASSUME PagesAssumption ==
    /\ Rows \subseteq Nat
    /\ IsFiniteSet(Rows)
    /\ Limits \subseteq Nat \ {0}
    /\ MaxTime \in Nat \ {0}
    /\ NoCursor \notin Cursor

VARIABLES
    clock,
    created,        \* createdAt of each row; 0 before its insert
    visible,        \* rows whose transaction has committed
    kind,           \* how the client walks: "keyset" or "offset"
    pc,             \* "idle", "more" to fetch, "count", "done"
    cursor,         \* nextCursor of the page before
    page,           \* the page number asked for next ...
    size,           \* ... and its limit, the same for the whole walk
    started,        \* history: rows visible when the walk began
    shown,          \* history: rows the walk has shown
    again,          \* history: rows it has shown more than once
    quiet           \* history: nothing has committed since it began

tableVars == <<clock, created, visible>>
walkVars == <<kind, pc, cursor, page, size, started, shown, again>>
vars == <<tableVars, walkVars, quiet>>

Walking == pc \in {"more", "count"}

TypeOK ==
    /\ clock \in Times
    /\ created \in [Rows -> Times \union {0}]
    /\ visible \in SUBSET {r \in Rows : created[r] # 0}
    /\ kind \in {"keyset", "offset"}
    /\ pc \in {"idle", "more", "count", "done"}
    /\ cursor \in Cursor \union {NoCursor}
    /\ page \in Nat \ {0}
    /\ size \in Limits
    /\ started \subseteq visible
    /\ shown \subseteq visible
    /\ again \subseteq shown
    /\ quiet \in BOOLEAN

Init ==
    /\ clock = 1
    /\ created = [r \in Rows |-> 0]
    /\ visible = {}
    /\ kind = "keyset"
    /\ pc = "idle"
    /\ cursor = NoCursor
    /\ page = 1
    /\ size \in Limits
    /\ started = {}
    /\ shown = {}
    /\ again = {}
    /\ quiet = TRUE

-----------------------------------------------------------------------------
(* The table *)

Tick ==
    /\ clock < MaxTime
    /\ clock' = clock + 1
    /\ UNCHANGED <<created, visible, walkVars, quiet>>

\* @default(now()), in a transaction that has yet to commit.
Insert(r) ==
    /\ created[r] = 0
    /\ created' = [created EXCEPT ![r] = clock]
    /\ UNCHANGED <<clock, visible, walkVars, quiet>>

Commit(r) ==
    /\ created[r] # 0
    /\ r \notin visible
    /\ visible' = visible \union {r}
    /\ quiet' = (quiet /\ ~ Walking)
    /\ UNCHANGED <<clock, created, walkVars>>

-----------------------------------------------------------------------------
(* Keyset pages *)

\* orderBy: [{ createdAt: 'desc' }, { id: 'desc' }]
Before(q, r) ==
    \/ created[q] > created[r]
    \/ created[q] = created[r] /\ q > r

\* Mutant: the tie on createdAt is not broken.
MutFollows(r, c) == c = NoCursor \/ created[r] < c.createdAt

\* Mutant: id: { lte: cursor.id }
MutFollowsOrIs(r, c) ==
    \/ c = NoCursor
    \/ created[r] < c.createdAt
    \/ created[r] = c.createdAt /\ r <= c.id

\* Mutant: the cursor does not reach the where clause.
MutFollowsAll(r, c) == TRUE

\* The OR of the where clause.
Follows(r, c) ==
    \/ c = NoCursor
    \/ created[r] < c.createdAt
    \/ created[r] = c.createdAt /\ r < c.id

\* take: n, of a findMany over S
IsTop(P, S, n) ==
    /\ P \subseteq S
    /\ Cardinality(P) <= n
    /\ P = S \/ Cardinality(P) = n
    /\ \A q \in P, r \in S \ P : Before(q, r)

\* rows.length > limit, of the limit + 1 rows taken
HasMore(rows, limit) == Cardinality(rows) > limit

\* Mutant: the cursor carries the date only.
MutEncodeCursor(r) == [createdAt |-> created[r]]

\* toISOString keeps the milliseconds, which is all the column has.
EncodeCursor(r) == [createdAt |-> created[r], id |-> r]

Last(P) == {r \in P : \A q \in P : q = r \/ Before(q, r)}

Show(P) ==
    /\ shown' = shown \union P
    /\ again' = again \union (shown \intersect P)

\* fetchLedgerPage and listWallets: the client follows nextCursor until it
\* is null, with any limit on any page.
FetchKeysetPage(limit) ==
    /\ kind = "keyset"
    /\ pc = "more"
    /\ \E rows \in SUBSET visible :
          /\ IsTop(rows, {r \in visible : Follows(r, cursor)}, limit + 1)
          /\ \/ /\ HasMore(rows, limit)
                /\ \E entries \in SUBSET rows :
                      /\ IsTop(entries, rows, limit)
                      /\ Show(entries)
                      /\ \E r \in Last(entries) : cursor' = EncodeCursor(r)
                /\ UNCHANGED pc
             \/ /\ ~ HasMore(rows, limit)
                /\ Show(rows)
                /\ cursor' = NoCursor
                /\ pc' = "done"
    /\ UNCHANGED <<tableVars, kind, page, size, started, quiet>>

-----------------------------------------------------------------------------
(* Numbered pages *)

\* Mutant: pages are counted from 0.
MutSkip == page * size

Skip == (page - 1) * size

\* orderBy: { createdAt: 'desc' }: rows of one millisecond come in any order,
\* and in another one the next time.
IsNewest(P, S, n) ==
    /\ P \subseteq S
    /\ Cardinality(P) <= n
    /\ P = S \/ Cardinality(P) = n
    /\ \A q \in P, r \in S \ P : created[q] >= created[r]

\* findMany with skip and take ...
FetchNumberedPage ==
    /\ kind = "offset"
    /\ pc = "more"
    /\ \E head \in SUBSET visible :
          /\ IsNewest(head, visible, Skip)
          /\ \E items \in SUBSET (visible \ head) :
                /\ IsNewest(items, visible \ head, size)
                /\ Show(items)
    /\ pc' = "count"
    /\ UNCHANGED <<tableVars, kind, cursor, page, size, started, quiet>>

\* Math.ceil(total / limit)
TotalPages(total) == (total + size - 1) \div size

\* ... and the count, a statement of its own: under READ COMMITTED it sees
\* what committed in between. The client asks for the next page up to
\* meta.totalPages.
CountRows ==
    /\ pc = "count"
    /\ \/ /\ page < TotalPages(Cardinality(visible))
          /\ page' = page + 1
          /\ pc' = "more"
       \/ /\ page >= TotalPages(Cardinality(visible))
          /\ pc' = "done"
          /\ UNCHANGED page
    /\ UNCHANGED <<tableVars, kind, cursor, size, started, shown, again, quiet>>

-----------------------------------------------------------------------------

\* A client asks for a first page.
StartWalk ==
    /\ ~ Walking
    /\ pc' = "more"
    /\ kind' \in {"keyset", "offset"}
    /\ size' \in Limits
    /\ cursor' = NoCursor
    /\ page' = 1
    /\ started' = visible
    /\ shown' = {}
    /\ again' = {}
    /\ quiet' = TRUE
    /\ UNCHANGED tableVars

Fetch == FetchNumberedPage \/ CountRows \/ \E limit \in Limits : FetchKeysetPage(limit)

Next ==
    \/ Tick
    \/ \E r \in Rows : Insert(r) \/ Commit(r)
    \/ StartWalk
    \/ Fetch

Spec == Init /\ [][Next]_vars

\* The client goes on asking, and is answered.
FairSpec == Spec /\ WF_vars(Fetch)

-----------------------------------------------------------------------------
(* Properties *)

\* Everything a walk by cursor shows, it shows once, whatever commits
\* between its pages (findLedgerPage's where clause and its order agree).
ShownOnce == kind = "keyset" => again = {}

\* When a walk by cursor has ended, every row that was there when it began
\* has been shown, although rows older than the cursor, newer than it and of
\* its very millisecond became visible meanwhile.
NothingMissed == kind = "keyset" /\ pc = "done" => started \subseteq shown

\* A walk by page number shows every row exactly once if nothing commits
\* until it ends and no two rows share a millisecond.
ExactWhenQuiet ==
    kind = "offset" /\ pc = "done" /\ quiet
       /\ (\A q, r \in started : q # r => created[q] # created[r]) =>
          shown = started /\ again = {}

\* A walk ends: the cursor only moves down and hasMore becomes false.
WalkEnds == Walking ~> ~ Walking

=============================================================================
