-------------------------- MODULE PagedReadsProofs --------------------------
(***************************************************************************)
(* What a walk by cursor shows, for any number of rows, any page sizes and *)
(* any commits between the pages, and what a walk by page number shows     *)
(* when nothing commits.                                                   *)
(***************************************************************************)
EXTENDS PagedReads, FiniteSetTheorems, TLAPS

\* The count belongs to numbered pages.
CountIsNumbered == pc = "count" => kind = "offset"

\* Between two pages the cursor splits the list: what has been shown does
\* not follow it, what is still owed does.
CursorSplits ==
    kind = "keyset" /\ pc = "more" =>
        /\ \A r \in shown : ~ Follows(r, cursor)
        /\ \A r \in started \ shown : Follows(r, cursor)

IndInv ==
    /\ TypeOK
    /\ CountIsNumbered
    /\ CursorSplits
    /\ ShownOnce
    /\ NothingMissed

DatesDistinct == \A q, r \in started : q # r => created[q] # created[r]

\* In a quiet walk by page number what has been shown is the head of the list
\* that the next query skips.
ShownIsHead ==
    kind = "offset" /\ quiet /\ DatesDistinct =>
        /\ pc = "more" =>
              started = visible /\ again = {} /\ IsNewest(shown, visible, (page - 1) * size)
        /\ pc = "count" =>
              started = visible /\ again = {} /\ IsNewest(shown, visible, page * size)
        /\ pc = "done" => shown = started /\ again = {}

-----------------------------------------------------------------------------
(* Pages *)

\* A page that is not full is all there is (findMany's take).
LEMMA ShortPageIsAll ==
    ASSUME NEW P, NEW S, NEW limit \in Limits,
           IsTop(P, S, limit + 1), ~ HasMore(P, limit), IsFiniteSet(P)
    PROVE  P = S
<1>1. limit \in Nat
  BY PagesAssumption
<1>2. Cardinality(P) \in Nat
  BY FS_CardinalityType
<1>3. Cardinality(P) # limit + 1
  BY <1>1, <1>2 DEF HasMore
<1> QED
  BY <1>3 DEF IsTop

\* The cursor made of the last row of a full page splits the rows that
\* followed the old one: the page's rows do not follow it, all others do, and
\* nothing that did not follow the old cursor follows the new one.
LEMMA CursorMoves ==
    ASSUME TypeOK,
           NEW rows \in SUBSET visible, NEW entries \in SUBSET rows,
           NEW limit \in Limits, NEW last \in Last(entries),
           IsTop(rows, {r \in visible : Follows(r, cursor)}, limit + 1),
           IsTop(entries, rows, limit)
    PROVE  /\ \A r \in entries : ~ Follows(r, EncodeCursor(last))
           /\ \A r \in visible \ entries :
                 Follows(r, cursor) => Follows(r, EncodeCursor(last))
           /\ \A r \in visible :
                 ~ Follows(r, cursor) => ~ Follows(r, EncodeCursor(last))
<1> DEFINE c == EncodeCursor(last)
<1>1. /\ last \in entries
      /\ \A q \in entries : q = last \/ Before(q, last)
  BY DEF Last
<1>2. /\ c.createdAt = created[last]
      /\ c.id = last
      /\ c # NoCursor
  <2>1. c \in Cursor
    BY <1>1, PagesAssumption DEF TypeOK, EncodeCursor, Cursor, Times
  <2> QED
    BY <2>1, PagesAssumption DEF EncodeCursor
<1>3. \A r \in visible : r \in Nat /\ created[r] \in Nat
  BY PagesAssumption DEF TypeOK, Times
<1>4. \A r \in visible : Follows(r, c) <=> Before(last, r)
  BY <1>1, <1>2, <1>3 DEF Follows, Before
<1>5. \A r \in entries : ~ Follows(r, c)
  BY <1>1, <1>3, <1>4 DEF Before
<1>6. ASSUME NEW r \in visible \ entries, Follows(r, cursor)
      PROVE  Follows(r, c)
  <2>1. CASE r \in rows
    BY <1>1, <1>4, <2>1 DEF IsTop
  <2>2. CASE r \notin rows
    BY <1>1, <1>4, <1>6, <2>2 DEF IsTop
  <2> QED
    BY <2>1, <2>2
<1>7. ASSUME NEW r \in visible, ~ Follows(r, cursor)
      PROVE  ~ Follows(r, c)
  <2>1. Follows(last, cursor) /\ last \in visible
    BY <1>1 DEF IsTop
  <2>2. cursor \in Cursor
    BY <1>7 DEF TypeOK, Follows
  <2>3. cursor.createdAt \in Nat /\ cursor.id \in Nat
    <3>1. cursor.createdAt \in Times /\ cursor.id \in Rows
      BY <2>2 DEF Cursor
    <3>2. Times \subseteq Nat
      BY PagesAssumption DEF Times
    <3> QED
      BY <3>1, <3>2, PagesAssumption
  <2>4. ~ Before(last, r)
    BY <1>3, <1>7, <2>1, <2>2, <2>3, PagesAssumption DEF Follows, Before
  <2> QED
    BY <1>4, <2>4
<1> QED
  BY <1>5, <1>6, <1>7

-----------------------------------------------------------------------------
(* The actions *)

LEMMA InitKeeps == Init => IndInv
BY PagesAssumption
   DEF Init, IndInv, TypeOK, Times, CountIsNumbered, CursorSplits, ShownOnce, NothingMissed

LEMMA TickKeeps == IndInv /\ Tick => IndInv'
BY PagesAssumption
   DEF Tick, walkVars, IndInv, TypeOK, Times, CountIsNumbered, CursorSplits, Follows, ShownOnce,
       NothingMissed

\* A row being inserted is not visible, so no row of the walk gets a new date.
LEMMA InsertKeeps ==
    ASSUME IndInv, NEW r \in Rows, Insert(r)
    PROVE  IndInv'
<1>1. TypeOK'
  BY PagesAssumption DEF Insert, walkVars, IndInv, TypeOK, Times
<1>2. \A q \in visible : created'[q] = created[q]
  BY DEF Insert, IndInv, TypeOK
<1>3. CursorSplits'
  <2>1. \A q \in visible : Follows(q, cursor)' <=> Follows(q, cursor)
    BY <1>2 DEF Insert, walkVars, Follows
  <2> QED
    BY <2>1 DEF CursorSplits, Insert, walkVars, IndInv, TypeOK
<1> QED
  BY <1>1, <1>3 DEF IndInv, Insert, walkVars, CountIsNumbered, ShownOnce, NothingMissed

LEMMA CommitKeeps ==
    ASSUME IndInv, NEW r \in Rows, Commit(r)
    PROVE  IndInv'
<1>1. TypeOK'
  BY DEF Commit, walkVars, IndInv, TypeOK, Walking
<1> QED
  BY <1>1 DEF IndInv, Commit, walkVars, CountIsNumbered, CursorSplits, Follows, ShownOnce,
              NothingMissed

LEMMA StartWalkKeeps == IndInv /\ StartWalk => IndInv'
BY DEF StartWalk, tableVars, IndInv, TypeOK, CountIsNumbered, CursorSplits, Follows,
       ShownOnce, NothingMissed

LEMMA FetchNumberedPageKeeps == IndInv /\ FetchNumberedPage => IndInv'
<1> SUFFICES ASSUME IndInv, FetchNumberedPage PROVE IndInv'
  OBVIOUS
<1>1. PICK items \in SUBSET visible : Show(items)
  BY DEF FetchNumberedPage
<1>2. TypeOK'
  BY <1>1 DEF FetchNumberedPage, Show, tableVars, IndInv, TypeOK
<1> QED
  BY <1>2 DEF FetchNumberedPage, IndInv, CountIsNumbered, CursorSplits, ShownOnce, NothingMissed

LEMMA CountRowsKeeps == IndInv /\ CountRows => IndInv'
BY DEF CountRows, tableVars, IndInv, TypeOK, CountIsNumbered, CursorSplits, ShownOnce,
       NothingMissed

LEMMA FetchKeysetPageKeeps ==
    ASSUME IndInv, NEW limit \in Limits, FetchKeysetPage(limit)
    PROVE  IndInv'
<1> DEFINE S == {r \in visible : Follows(r, cursor)}
<1>0. /\ kind = "keyset" /\ pc = "more"
      /\ UNCHANGED <<clock, created, visible, kind, page, size, started, quiet>>
  BY DEF FetchKeysetPage, tableVars
<1>1. PICK rows \in SUBSET visible :
          /\ IsTop(rows, S, limit + 1)
          /\ \/ /\ HasMore(rows, limit)
                /\ \E entries \in SUBSET rows :
                      /\ IsTop(entries, rows, limit)
                      /\ Show(entries)
                      /\ \E r \in Last(entries) : cursor' = EncodeCursor(r)
                /\ UNCHANGED pc
             \/ /\ ~ HasMore(rows, limit)
                /\ Show(rows)
                /\ cursor' = NoCursor
                /\ pc' = "done"
  BY DEF FetchKeysetPage
<1>2. \A r \in rows : Follows(r, cursor) /\ r \notin shown
  BY <1>0, <1>1 DEF IsTop, IndInv, CursorSplits
<1>3. CASE ~ HasMore(rows, limit)
  <2>1. Show(rows) /\ cursor' = NoCursor /\ pc' = "done"
    BY <1>1, <1>3
  <2>2. IsFiniteSet(rows)
    <3>1. visible \subseteq Rows
      BY DEF IndInv, TypeOK
    <3> QED
      BY <3>1, PagesAssumption, FS_Subset
  <2>3. rows = S
    BY <1>1, <1>3, <2>2, ShortPageIsAll
  <2>4. started' \subseteq shown'
    BY <1>0, <2>1, <2>3 DEF Show, IndInv, TypeOK, CursorSplits
  <2>5. again' = {}
    BY <1>0, <1>2, <2>1 DEF Show, IndInv, ShownOnce
  <2>6. TypeOK'
    BY <1>0, <2>1, <2>5 DEF Show, IndInv, TypeOK
  <2> QED
    BY <1>0, <2>1, <2>4, <2>5, <2>6
       DEF IndInv, CountIsNumbered, CursorSplits, ShownOnce, NothingMissed
<1>4. CASE HasMore(rows, limit)
  <2>1. PICK entries \in SUBSET rows :
            /\ IsTop(entries, rows, limit)
            /\ Show(entries)
            /\ \E r \in Last(entries) : cursor' = EncodeCursor(r)
    BY <1>1, <1>4
  <2>2. PICK last \in Last(entries) : cursor' = EncodeCursor(last)
    BY <2>1
  <2>3. pc' = pc
    BY <1>1, <1>4
  <2>4. /\ \A r \in entries : ~ Follows(r, EncodeCursor(last))
        /\ \A r \in visible \ entries :
              Follows(r, cursor) => Follows(r, EncodeCursor(last))
        /\ \A r \in visible :
              ~ Follows(r, cursor) => ~ Follows(r, EncodeCursor(last))
    BY <1>1, <2>1, CursorMoves DEF IndInv
  <2>5. \A r : Follows(r, cursor)' <=> Follows(r, EncodeCursor(last))
    BY <1>0, <2>2 DEF Follows
  <2>6. shown' = shown \union entries /\ again' = {}
    BY <1>0, <1>2, <2>1 DEF Show, IndInv, ShownOnce
  <2>7. CursorSplits'
    <3>1. ASSUME NEW r \in shown' PROVE ~ Follows(r, EncodeCursor(last))
      BY <1>0, <2>4, <2>6, <3>1 DEF IndInv, TypeOK, CursorSplits
    <3>2. ASSUME NEW r \in started' \ shown' PROVE Follows(r, EncodeCursor(last))
      BY <1>0, <2>4, <2>6, <3>2 DEF IndInv, TypeOK, CursorSplits
    <3> QED
      BY <2>5, <3>1, <3>2 DEF CursorSplits
  <2>8. cursor' \in Cursor
    BY <2>2 DEF Last, EncodeCursor, Cursor, IndInv, TypeOK
  <2>9. TypeOK'
    BY <1>0, <2>3, <2>6, <2>8 DEF IndInv, TypeOK
  <2> QED
    BY <1>0, <2>3, <2>6, <2>7, <2>9 DEF IndInv, CountIsNumbered, ShownOnce, NothingMissed
<1> QED
  BY <1>3, <1>4

-----------------------------------------------------------------------------
(* Numbered pages *)

\* Where no two dates are equal, a query has one head of a given length.
LEMMA OneHead ==
    ASSUME TypeOK, NEW n \in Nat, NEW P, NEW Q,
           \A q, r \in visible : q # r => created[q] # created[r],
           IsNewest(P, visible, n), IsNewest(Q, visible, n)
    PROVE  P = Q
<1>1. IsFiniteSet(P) /\ IsFiniteSet(Q)
  BY PagesAssumption, FS_Subset DEF TypeOK, IsNewest
<1>2. P \subseteq Q \/ Q \subseteq P
  <2>1. SUFFICES ASSUME NEW q \in P \ Q, NEW r \in Q \ P PROVE FALSE
    OBVIOUS
  <2>2. q \in visible /\ r \in visible /\ q # r
    BY DEF IsNewest
  <2>3. created[q] >= created[r] /\ created[r] >= created[q]
    BY <2>2 DEF IsNewest
  <2>4. created[q] \in Nat /\ created[r] \in Nat
    BY <2>2, PagesAssumption DEF TypeOK, Times
  <2> QED
    BY <2>2, <2>3, <2>4
<1>3. ASSUME NEW A, NEW B, IsNewest(A, visible, n), IsNewest(B, visible, n),
             A \subseteq B, IsFiniteSet(B)
      PROVE  A = B
  <2>1. CASE A = visible
    BY <1>3, <2>1 DEF IsNewest
  <2>2. CASE Cardinality(A) = n
    <3>1. Cardinality(A) <= Cardinality(B) /\ (Cardinality(B) = Cardinality(A) => B = A)
      BY <1>3, FS_Subset
    <3>2. Cardinality(B) <= n /\ Cardinality(B) \in Nat
      BY <1>3, FS_CardinalityType DEF IsNewest
    <3> QED
      BY <2>2, <3>1, <3>2
  <2> QED
    BY <1>3, <2>1, <2>2 DEF IsNewest
<1> QED
  BY <1>1, <1>2, <1>3

\* A head and the page after it are a longer head (skip and take).
LEMMA HeadGrows ==
    ASSUME TypeOK, NEW n \in Nat, NEW k \in Nat, NEW head, NEW items,
           IsNewest(head, visible, n), IsNewest(items, visible \ head, k)
    PROVE  IsNewest(head \union items, visible, n + k)
<1>1. IsFiniteSet(head) /\ IsFiniteSet(items)
  BY PagesAssumption, FS_Subset DEF TypeOK, IsNewest
<1>2. head \intersect items = {}
  BY DEF IsNewest
<1>3. Cardinality(head \union items) = Cardinality(head) + Cardinality(items)
  <2>1. Cardinality(head \union items) =
            Cardinality(head) + Cardinality(items) - Cardinality({})
    BY <1>1, <1>2, FS_Union
  <2> QED
    BY <1>1, <2>1, FS_EmptySet, FS_CardinalityType
<1>4. Cardinality(head) \in Nat /\ Cardinality(items) \in Nat
  BY <1>1, FS_CardinalityType
<1>5. head \union items \subseteq visible /\ Cardinality(head \union items) <= n + k
  BY <1>3, <1>4 DEF IsNewest
<1>6. head \union items = visible \/ Cardinality(head \union items) = n + k
  <2>1. CASE items = visible \ head
    BY <1>5, <2>1
  <2>2. CASE items # visible \ head
    <3>1. Cardinality(items) = k /\ head # visible
      BY <2>2 DEF IsNewest
    <3> QED
      BY <1>3, <1>4, <3>1 DEF IsNewest
  <2> QED
    BY <2>1, <2>2
<1>7. \A q \in head \union items, r \in visible \ (head \union items) :
          created[q] >= created[r]
  BY DEF IsNewest
<1> QED
  BY <1>5, <1>6, <1>7 DEF IsNewest

\* The last page has been fetched when page number times limit reaches the
\* total (Math.ceil(total / limit)).
LEMMA LastPage ==
    ASSUME NEW total \in Nat, NEW p \in Nat, size \in Nat \ {0}, p >= TotalPages(total)
    PROVE  p * size >= total
<1> DEFINE a == total + size - 1
           d == a \div size
<1>1. a \in Nat
  OBVIOUS
<1>2. d \in Nat /\ a < size * d + size
  BY <1>1
<1>3. p * size >= d * size
  BY <1>2 DEF TotalPages
<1>4. size * d = d * size /\ size * d \in Nat /\ p * size \in Nat
  BY <1>2
<1> QED
  BY <1>2, <1>3, <1>4

\* A quiet walk goes on where it stopped: the rows the next query skips are
\* the rows that have been shown.
LEMMA NumberedPageExtendsHead ==
    IndInv /\ ShownIsHead /\ FetchNumberedPage => ShownIsHead'
<1> SUFFICES ASSUME IndInv, ShownIsHead, FetchNumberedPage, quiet', DatesDistinct'
             PROVE  started' = visible' /\ again' = {}
                       /\ IsNewest(shown, visible, page * size)'
  BY DEF ShownIsHead, FetchNumberedPage
<1>1. /\ kind = "offset" /\ pc = "more" /\ quiet
      /\ UNCHANGED <<created, visible, started, page, size>>
  BY DEF FetchNumberedPage, tableVars
<1>2. DatesDistinct
  BY <1>1 DEF DatesDistinct
<1>3. started = visible /\ again = {} /\ IsNewest(shown, visible, (page - 1) * size)
  BY <1>1, <1>2 DEF ShownIsHead
<1>4. page \in Nat \ {0} /\ size \in Nat \ {0}
  BY PagesAssumption DEF IndInv, TypeOK
<1>5. (page - 1) * size \in Nat /\ (page - 1) * size + size = page * size
  BY <1>4
<1>6. PICK head \in SUBSET visible :
          /\ IsNewest(head, visible, Skip)
          /\ \E items \in SUBSET (visible \ head) :
                IsNewest(items, visible \ head, size) /\ Show(items)
  BY DEF FetchNumberedPage
<1>7. head = shown
  BY <1>2, <1>3, <1>5, <1>6, OneHead DEF IndInv, Skip, DatesDistinct
<1>8. PICK items \in SUBSET (visible \ shown) :
          IsNewest(items, visible \ shown, size) /\ Show(items)
  BY <1>6, <1>7
<1>9. IsNewest(shown \union items, visible, (page - 1) * size + size)
  BY <1>3, <1>4, <1>5, <1>8, HeadGrows DEF IndInv
<1>10. shown' = shown \union items /\ again' = {}
  BY <1>3, <1>8 DEF Show
<1> QED
  BY <1>1, <1>3, <1>5, <1>9, <1>10 DEF IsNewest

\* The count sees what the query saw, and the walk ends when all is shown.
LEMMA CountClosesHead == IndInv /\ ShownIsHead /\ CountRows => ShownIsHead'
<1> SUFFICES ASSUME IndInv, ShownIsHead, CountRows, kind' = "offset", quiet', DatesDistinct'
             PROVE  /\ pc' = "more" => started' = visible' /\ again' = {}
                          /\ IsNewest(shown, visible, (page - 1) * size)'
                    /\ pc' = "done" => shown' = started' /\ again' = {}
  BY DEF ShownIsHead, CountRows
<1>1. /\ kind = "offset" /\ pc = "count" /\ quiet
      /\ UNCHANGED <<created, visible, started, size, shown, again>>
  BY DEF CountRows, tableVars
<1>2. DatesDistinct
  BY <1>1 DEF DatesDistinct
<1>3. started = visible /\ again = {} /\ IsNewest(shown, visible, page * size)
  BY <1>1, <1>2 DEF ShownIsHead
<1>4. page \in Nat \ {0} /\ size \in Nat \ {0}
  BY PagesAssumption DEF IndInv, TypeOK
<1>5. CASE page' = page + 1 /\ pc' = "more"
  <2>1. page' - 1 = page
    BY <1>4, <1>5
  <2> QED
    BY <1>1, <1>3, <1>5, <2>1 DEF IsNewest
<1>6. CASE page >= TotalPages(Cardinality(visible)) /\ pc' = "done"
  <2>1. IsFiniteSet(visible)
    BY PagesAssumption, FS_Subset DEF IndInv, TypeOK
  <2>2. Cardinality(visible) \in Nat
    BY <2>1, FS_CardinalityType
  <2>3. page * size >= Cardinality(visible)
    BY <1>4, <1>6, <2>2, LastPage
  <2>4. Cardinality(shown) <= Cardinality(visible)
           /\ (Cardinality(visible) = Cardinality(shown) => visible = shown)
    BY <2>1, FS_Subset DEF IndInv, TypeOK
  <2>5. shown = visible
    BY <1>3, <1>4, <2>2, <2>3, <2>4 DEF IsNewest
  <2> QED
    BY <1>1, <1>3, <1>6, <2>5
<1> QED
  BY <1>5, <1>6 DEF CountRows

-----------------------------------------------------------------------------

LEMMA Invariance == Spec => []IndInv
<1>1. IndInv /\ [Next]_vars => IndInv'
  <2> SUFFICES ASSUME IndInv, [Next]_vars PROVE IndInv'
    OBVIOUS
  <2>1. CASE Tick
    BY <2>1, TickKeeps
  <2>2. ASSUME NEW r \in Rows, Insert(r) \/ Commit(r) PROVE IndInv'
    BY <2>2, InsertKeeps, CommitKeeps
  <2>3. CASE StartWalk
    BY <2>3, StartWalkKeeps
  <2>4. CASE Fetch
    BY <2>4, FetchNumberedPageKeeps, CountRowsKeeps, FetchKeysetPageKeeps DEF Fetch
  <2>5. CASE UNCHANGED vars
    BY <2>5 DEF vars, tableVars, walkVars, IndInv, TypeOK, CountIsNumbered, CursorSplits,
                Follows, ShownOnce, NothingMissed
  <2> QED
    BY <2>1, <2>2, <2>3, <2>4, <2>5 DEF Next
<1> QED
  BY InitKeeps, <1>1, PTL DEF Spec

\* The pages, the cursor and the history of a walk are well typed; what is
\* shown has been committed.
THEOREM PagesTypeCorrect == Spec => []TypeOK
BY Invariance, PTL DEF IndInv

\* A walk by cursor never shows a row twice, whatever commits between its
\* pages (where clause and order of findLedgerPage and findAll).
THEOREM PagesShowOnce == Spec => []ShownOnce
BY Invariance, PTL DEF IndInv

\* A walk by cursor that has ended has shown every row that was visible when
\* it began.
THEOREM PagesMissNothing == Spec => []NothingMissed
BY Invariance, PTL DEF IndInv

LEMMA HeadInvariance == Spec => []ShownIsHead
<1>1. Init => ShownIsHead
  BY DEF Init, ShownIsHead
<1>2. IndInv /\ ShownIsHead /\ [Next]_vars => ShownIsHead'
  <2> SUFFICES ASSUME IndInv, ShownIsHead, [Next]_vars PROVE ShownIsHead'
    OBVIOUS
  <2>1. CASE Tick
    BY <2>1 DEF Tick, walkVars, ShownIsHead, DatesDistinct, IsNewest
  <2>2. ASSUME NEW r \in Rows, Insert(r) PROVE ShownIsHead'
    <3>1. UNCHANGED <<visible, kind, pc, page, size, started, shown, again, quiet>>
      BY <2>2 DEF Insert, walkVars
    <3>2. \A q \in visible : created'[q] = created[q]
      BY <2>2 DEF Insert, IndInv, TypeOK
    <3>3. DatesDistinct' <=> DatesDistinct
      BY <3>1, <3>2 DEF DatesDistinct, IndInv, TypeOK
    <3>4. /\ IsNewest(shown, visible, (page - 1) * size)' <=>
                IsNewest(shown, visible, (page - 1) * size)
          /\ IsNewest(shown, visible, page * size)' <=>
                IsNewest(shown, visible, page * size)
      BY <3>1, <3>2 DEF IsNewest, IndInv, TypeOK
    <3> QED
      BY <3>1, <3>3, <3>4 DEF ShownIsHead
  <2>3. ASSUME NEW r \in Rows, Commit(r) PROVE ShownIsHead'
    BY <2>3 DEF Commit, walkVars, Walking, ShownIsHead, DatesDistinct
  <2>4. CASE StartWalk
    <3>1. CASE kind' = "offset"
      <4>1. /\ pc' = "more" /\ page' = 1 /\ shown' = {} /\ again' = {}
            /\ started' = visible' /\ size' \in Nat
        BY <2>4, PagesAssumption DEF StartWalk, tableVars
      <4>2. (page' - 1) * size' = 0
        <5>1. \A n \in Nat : (1 - 1) * n = 0
          OBVIOUS
        <5> QED
          BY <4>1, <5>1
      <4>3. IsNewest(shown, visible, (page - 1) * size)'
        BY <4>1, <4>2, FS_EmptySet DEF IsNewest
      <4> QED
        BY <4>1, <4>3 DEF ShownIsHead
    <3> QED
      BY <3>1 DEF ShownIsHead
  <2>5. ASSUME NEW limit \in Limits, FetchKeysetPage(limit) PROVE ShownIsHead'
    BY <2>5 DEF FetchKeysetPage, ShownIsHead
  <2>6. CASE UNCHANGED vars
    BY <2>6 DEF vars, tableVars, walkVars, ShownIsHead, DatesDistinct, IsNewest
  <2> QED
    BY <2>1, <2>2, <2>3, <2>4, <2>5, <2>6, NumberedPageExtendsHead, CountClosesHead
       DEF Next, Fetch
<1> QED
  BY Invariance, <1>1, <1>2, PTL DEF Spec

\* A walk by page number shows every row exactly once when nothing commits
\* until it ends and no two rows share a millisecond: the rows that skip
\* passes over are those that the pages before have shown.
THEOREM QuietPagesAreExact == Spec => []ExactWhenQuiet
<1>1. ShownIsHead => ExactWhenQuiet
  BY DEF ShownIsHead, DatesDistinct, ExactWhenQuiet
<1> QED
  BY HeadInvariance, <1>1, PTL

=============================================================================
