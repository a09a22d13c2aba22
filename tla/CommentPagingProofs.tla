------------------------ MODULE CommentPagingProofs ------------------------
(***************************************************************************)
(* Theorems about CommentPaging, for any comments, times and sizes of a    *)
(* page: the cursor falls, and a reading that ends by itself has missed    *)
(* nothing.                                                                *)
(***************************************************************************)
EXTENDS CommentPaging, FiniteSetTheorems, TLAPS

(***************************************************************************)
(* The inductive invariant                                                 *)
(***************************************************************************)
\* The comments a page that is asked for with the present cursor may hold.
IsBefore(c) == cursor = NoCursor \/ time[c] < cursor

\* A page that the blog has answered to the present cursor: all its comments are
\* before the cursor and none before its own, and it is full if there are more.
PageFits ==
    /\ \A c \in page.comments : IsBefore(c) /\ page.cursor \in Int /\ page.cursor <= time[c]
    /\ \A c \in page.first : time[c] = page.cursor
    /\ page.hasMore => Cardinality(page.comments) = BatchSize /\ page.comments # {}

\* What is expected of the part that the page covers.
Covered(S) ==
    \A c \in expected : IsBefore(c) /\ (page.hasMore => page.cursor < time[c]) => c \in S

\* A cursor that was used is not below the present one.
Seen == \A s \in seenCursors : cursor \in Int /\ cursor <= s

\* The loop works its way back: all that is not before the cursor is stored.
Backwards ==
    ~ignored /\ Sparse =>
        /\ \A c \in expected : ~IsBefore(c) => c \in stored
        /\ pc \in {"store", "advance"} => PageFits
        /\ pc = "store" => Covered(page.comments)
        /\ pc = "advance" => page.comments \subseteq stored /\ Covered(stored)

\* Whole minutes from since on.
Wanted == {c \in expected : time[c] - (time[c] % Minute) >= since}

\* What a reading has when it is over.
Ended ==
    ~ignored /\ Sparse /\ pc \in {"stats", "done"} /\ ~error =>
        /\ ~stoppedEarly => expected \subseteq stored
        /\ since # NoSince /\ ~cancelled => Wanted \subseteq stored

PagingInv == TypeOK /\ Seen /\ Backwards /\ Ended

(***************************************************************************)
(* Arithmetic and the cursor rule                                          *)
(***************************************************************************)
\* Truncation to the minute keeps the order.
LEMMA TruncatedInOrder ==
  ASSUME NEW m \in Nat \ {0}, NEW t \in Nat, NEW u \in Nat, t <= u
  PROVE  t - (t % m) <= u - (u % m) /\ t - (t % m) <= t
<1>1. t = m * (t \div m) + (t % m) /\ t % m \in 0..(m - 1) /\ t \div m \in Int
  BY SMT
<1>2. u = m * (u \div m) + (u % m) /\ u % m \in 0..(m - 1) /\ u \div m \in Int
  BY SMT
<1>. DEFINE q == t \div m
            r == u \div m
<1>3. q <= r
  <2>. SUFFICES ASSUME r + 1 <= q PROVE FALSE
    BY <1>1, <1>2
  <2>1. m * (r + 1) <= m * q
    BY <1>1, <1>2
  <2>2. m * (r + 1) = m * r + m
    BY <1>2
  <2>. QED BY <1>1, <1>2, <2>1, <2>2
<1>4. m * q <= m * r
  BY <1>1, <1>2, <1>3
<1>. QED BY <1>1, <1>2, <1>4

LEMMA CursorRule ==
  ASSUME NEW p \in CursorType, NEW n \in CursorType
  PROVE  /\ NextCursor(p, n) \in CursorType
         /\ NextCursor(p, n) # NoCursor /\ n # NoCursor => NextCursor(p, n) <= n
         /\ NextCursor(p, n) # NoCursor => p \in Int
         /\ NextCursor(p, n) \in {NoCursor, n, p, p + 1}
  BY PagingAssumption DEF NextCursor, CursorType

-----------------------------------------------------------------------------
(***************************************************************************)
(* Types                                                                   *)
(***************************************************************************)
LEMMA TimeIsNat == \A t \in Times : t \in Nat /\ t \in Int
  BY PagingAssumption

LEMMA PagingTypeInit == Init => TypeOK
<1>. SUFFICES ASSUME Init PROVE TypeOK
  OBVIOUS
<1>1. /\ page.comments = {} /\ page.first = {}
      /\ page.cursor = NoCursor /\ page.hasMore = FALSE
  BY DEF Init, EmptyPage
<1>2. cursor \in CursorType /\ page.cursor \in CursorType
  BY <1>1 DEF Init, CursorType
<1>. QED BY <1>1, <1>2 DEF Init, TypeOK

LEMMA PagingTypeStep == TypeOK /\ [Next]_vars => TypeOK'
<1>. SUFFICES ASSUME TypeOK, [Next]_vars PROVE TypeOK'
  OBVIOUS
<1>. USE PagingAssumption DEF TypeOK, postVars, loopVars
<1>1. CASE StopCancelled
  BY <1>1 DEF StopCancelled
<1>2. CASE FetchPage
  <2>1. /\ page'.comments \in SUBSET Comment /\ page'.first \in SUBSET Comment
        /\ page'.cursor \in CursorType /\ page'.hasMore \in BOOLEAN
    <3>1. CASE page' = EmptyPage
      BY <3>1 DEF EmptyPage, CursorType
    <3>2. ASSUME NEW from, NEW S \in Batches(from), NEW c \in Oldest(S), page' = PageOf(from, S, c)
          PROVE  /\ page'.comments \in SUBSET Comment /\ page'.first \in SUBSET Comment
                 /\ page'.cursor \in CursorType /\ page'.hasMore \in BOOLEAN
      <4>1. S \subseteq Comment /\ c \in S
        BY DEF Batches, Before, Oldest
      <4>2. /\ page'.comments = S /\ page'.first = {c} /\ page'.cursor = time[c]
            /\ page'.hasMore = (S # Before(from))
        BY <3>2 DEF PageOf
      <4>3. time[c] \in Int
        <5>1. time \in [Comment -> Times] /\ c \in Comment
          BY <4>1
        <5>2. time[c] \in Times
          BY <5>1
        <5>. QED BY <5>2, TimeIsNat
      <4>4. page'.cursor \in CursorType
        BY <4>2, <4>3 DEF CursorType
      <4>5. page'.comments \in SUBSET Comment /\ page'.first \in SUBSET Comment
        BY <4>1, <4>2
      <4>6. page'.hasMore \in BOOLEAN
        BY <4>2
      <4>. QED BY <4>4, <4>5, <4>6
    <3>. QED BY <1>2, <3>1, <3>2 DEF FetchPage
  <2>. QED BY <1>2, <2>1 DEF FetchPage
<1>3. CASE Raise
  BY <1>3 DEF Raise
<1>4. CASE StorePage
  BY <1>4 DEF StorePage
<1>5. CASE EndLoop
  BY <1>5 DEF EndLoop, BatchReaches
<1>6. CASE NextPage
  <2>1. cursor' \in CursorType /\ cursor' # NoCursor
    BY <1>6, CursorRule DEF NextPage, Stuck
  <2>. QED BY <1>6, <2>1 DEF NextPage, CursorType
<1>7. CASE UpdateStats
  BY <1>7 DEF UpdateStats
<1>8. CASE Cancel
  BY <1>8 DEF Cancel
<1>9. ASSUME NEW c \in Comment, Arrive(c) \/ Vanish(c) PROVE TypeOK'
  BY <1>9 DEF Arrive, Vanish
<1>10. CASE UNCHANGED vars
  BY <1>10 DEF vars
<1>. QED BY <1>1, <1>2, <1>3, <1>4, <1>5, <1>6, <1>7, <1>8, <1>9, <1>10 DEF Next, LoopStep

\* The state of a reading is always well typed.
THEOREM PagingTypes == Spec => []TypeOK
  BY PagingTypeInit, PagingTypeStep, PTL DEF Spec

\* For any blog, whether or not it pays attention to the cursor: the cursor only falls.
THEOREM CursorAlwaysFalls == Spec => CursorFalls
<1>1. TypeOK /\ [Next]_vars => [cursor' # cursor => cursor = NoCursor \/ cursor' < cursor]_vars
  <2>. SUFFICES ASSUME TypeOK, Next, cursor' # cursor
                PROVE  cursor = NoCursor \/ cursor' < cursor
    OBVIOUS
  <2>1. NextPage
    BY DEF Next, LoopStep, StopCancelled, FetchPage, Raise, StorePage, EndLoop, UpdateStats,
           Cancel, Arrive, Vanish, loopVars
  <2>2. cursor' = NextCursor(page.cursor, cursor) /\ cursor' # NoCursor
    BY <2>1 DEF NextPage, Stuck
  <2>3. cursor # NoCursor => cursor' <= cursor /\ cursor' \in Int /\ cursor \in Int
    BY <2>2, CursorRule DEF TypeOK, CursorType
  <2>. QED BY <2>3
<1>. QED BY <1>1, PagingTypes, PTL DEF Spec, CursorFalls
-----------------------------------------------------------------------------
(***************************************************************************)
(* A reading that ends by itself has missed nothing                        *)
(***************************************************************************)
\* A full page of comments of one second holds all comments of that second.
LEMMA FullSecond ==
  ASSUME TypeOK, Sparse, NEW S \in SUBSET Comment, NEW t \in Times,
         Cardinality(S) = BatchSize, \A c \in S : time[c] = t
  PROVE  \A c \in Comment : time[c] = t => c \in S
<1>. DEFINE T == {c \in Comment : time[c] = t}
<1>1. T \subseteq Comment /\ IsFiniteSet(Comment) /\ S \subseteq T
  BY PagingAssumption
<1>2. IsFiniteSet(T)
  BY <1>1, FS_Subset
<1>3. Cardinality(T) <= BatchSize
  BY DEF Sparse
<1>4. /\ IsFiniteSet(S) /\ Cardinality(S) \in Nat /\ Cardinality(T) \in Nat
      /\ Cardinality(S) <= Cardinality(T)
      /\ Cardinality(S) = Cardinality(T) => S = T
  BY <1>1, <1>2, FS_Subset, FS_CardinalityType
<1>5. S = T
  <2>. HIDE DEF T
  <2>. QED BY <1>3, <1>4, PagingAssumption
<1>. QED BY <1>5

LEMMA PagingInit == Init => PagingInv
<1>. SUFFICES ASSUME Init PROVE PagingInv
  OBVIOUS
<1>1. Seen /\ Backwards /\ Ended
  BY DEF Init, Seen, Backwards, IsBefore, Ended
<1>. QED BY <1>1, PagingTypeInit DEF PagingInv

LEMMA SeenStep == TypeOK /\ Seen /\ [Next]_vars => Seen'
<1>. SUFFICES ASSUME TypeOK, Seen, [Next]_vars PROVE Seen'
  OBVIOUS
<1>1. CASE NextPage
  <2>1. /\ cursor' = NextCursor(page.cursor, cursor) /\ cursor' # NoCursor
        /\ seenCursors' = seenCursors \cup {cursor'}
    BY <1>1 DEF NextPage, Stuck
  <2>2. cursor' \in Int /\ (cursor # NoCursor => cursor' <= cursor /\ cursor \in Int)
    BY <2>1, CursorRule DEF TypeOK, CursorType
  <2>. QED BY <2>1, <2>2, PagingAssumption DEF Seen, TypeOK
<1>2. CASE UNCHANGED <<cursor, seenCursors>>
  BY <1>2 DEF Seen
<1>. QED BY <1>1, <1>2
     DEF Next, LoopStep, StopCancelled, FetchPage, Raise, StorePage, EndLoop, UpdateStats,
         Cancel, Arrive, Vanish, loopVars, vars

\* The answer to the present cursor covers what is expected before it.
LEMMA PageOfCursor ==
  ASSUME TypeOK, FetchPage, ~ignored'
  PROVE  PageFits' /\ Covered(page.comments)'
<1>1. /\ pc' = "store"
      /\ UNCHANGED <<time, blog, expected, cursor>>
      /\ \/ Before(cursor) = {} /\ page' = EmptyPage
         \/ \E S \in Batches(cursor) : \E c \in Oldest(S) : page' = PageOf(cursor, S, c)
  BY DEF FetchPage
<1>2. \A c \in expected : c \in Comment /\ (IsBefore(c) => c \in Before(cursor))
  BY DEF TypeOK, IsBefore, Before
<1>3. CASE Before(cursor) = {} /\ page' = EmptyPage
  <2>1. page'.comments = {} /\ page'.first = {} /\ page'.hasMore = FALSE
    BY <1>3 DEF EmptyPage
  <2>. QED BY <1>1, <1>2, <1>3, <2>1 DEF PageFits, Covered, IsBefore
<1>4. ASSUME NEW S \in Batches(cursor), NEW c \in Oldest(S), page' = PageOf(cursor, S, c)
      PROVE  PageFits' /\ Covered(page.comments)'
  <2>1. /\ page'.comments = S /\ page'.first = {c} /\ page'.cursor = time[c]
        /\ page'.hasMore = (S # Before(cursor))
    BY <1>4 DEF PageOf
  <2>2. /\ S \subseteq Before(cursor) /\ Before(cursor) \subseteq Comment
        /\ S # Before(cursor) => Cardinality(S) = BatchSize
        /\ \A b \in S, d \in Before(cursor) \ S : time[d] <= time[b]
    BY DEF Batches, Before, TypeOK
  <2>3. c \in S /\ \A d \in S : time[c] <= time[d]
    BY DEF Oldest
  <2>4. \A d \in Comment : time[d] \in Int
    BY TimeIsNat DEF TypeOK
  <2>5. PageFits'
    BY <1>1, <2>1, <2>2, <2>3, <2>4 DEF PageFits, IsBefore, Before
  <2>6. Covered(page.comments)'
    <3>. SUFFICES ASSUME NEW d \in expected', IsBefore(d)',
                         page'.hasMore => page'.cursor < time'[d], d \notin S
                  PROVE  FALSE
      BY <2>1 DEF Covered
    <3>1. d \in Before(cursor) \ S
      BY <1>1, <1>2 DEF IsBefore
    <3>2. time[d] <= time[c] /\ time[c] \in Int /\ time[d] \in Int
      BY <2>2, <2>3, <2>4, <3>1
    <3>3. page'.hasMore
      BY <2>1, <3>1
    <3>4. time[c] < time[d]
      BY <1>1, <2>1, <3>3
    <3>. QED BY <3>2, <3>4
  <2>. QED BY <2>5, <2>6
<1>. QED BY <1>1, <1>3, <1>4

\* The next cursor leaves nothing behind: it is one above the page's, or the page is
\* full of comments of its one second.
LEMMA NothingBehind ==
  ASSUME TypeOK, Backwards, ~ignored, Sparse, NextPage
  PROVE  \A c \in expected : ~IsBefore(c)' => c \in stored
<1>1. /\ pc = "advance" /\ page.hasMore /\ ~Stuck
      /\ cursor' = NextCursor(page.cursor, cursor)
      /\ UNCHANGED <<time, expected, stored>>
  BY DEF NextPage, postVars
<1>2. /\ \A c \in expected : ~IsBefore(c) => c \in stored
      /\ PageFits /\ page.comments \subseteq stored /\ Covered(stored)
  BY <1>1 DEF Backwards
<1>3. page.cursor \in Int /\ cursor' \in {page.cursor, page.cursor + 1}
  BY <1>1, CursorRule DEF Stuck, TypeOK, CursorType
<1>4. \A c \in Comment : time[c] \in Int /\ time[c] \in Times
  BY TimeIsNat DEF TypeOK
<1>. SUFFICES ASSUME NEW c \in expected, cursor' <= time[c] PROVE c \in stored
  BY <1>1, <1>3, <1>4, PagingAssumption DEF IsBefore, TypeOK
<1>5. c \in Comment
  BY DEF TypeOK
<1>6. CASE ~IsBefore(c) \/ page.cursor < time[c]
  BY <1>2, <1>6 DEF Covered
<1>7. CASE IsBefore(c) /\ time[c] <= page.cursor
  <2>1. cursor' = page.cursor /\ time[c] = page.cursor
    BY <1>3, <1>4, <1>5, <1>7
  <2>2. cursor # NoCursor /\ cursor \in Int /\ cursor <= page.cursor + 1
    BY <1>1, <1>3, <2>1, PagingAssumption DEF NextCursor, TypeOK, CursorType
  <2>3. \A d \in page.comments : d \in Comment /\ time[d] = time[c]
    BY <1>2, <1>3, <1>4, <2>1, <2>2 DEF PageFits, IsBefore, TypeOK
  <2>4. c \in page.comments
    BY <1>1, <1>2, <1>4, <1>5, <2>3, FullSecond DEF PageFits, TypeOK
  <2>. QED BY <1>2, <2>4
<1>. QED BY <1>3, <1>4, <1>5, <1>6, <1>7

\* The times are fixed, nothing becomes expected, and the blog stays as attentive.
LEMMA PostKept ==
  ASSUME [Next]_vars
  PROVE  time' = time /\ since' = since /\ expected' \subseteq expected /\ (~ignored' => ~ignored)
<1>1. CASE FetchPage
  BY <1>1 DEF FetchPage
<1>2. CASE StopCancelled \/ Raise \/ StorePage \/ EndLoop \/ NextPage \/ UpdateStats
  BY <1>2 DEF StopCancelled, Raise, StorePage, EndLoop, NextPage, UpdateStats, postVars
<1>3. ASSUME NEW c \in Comment, Cancel \/ Arrive(c) \/ Vanish(c)
      PROVE  time' = time /\ since' = since /\ expected' \subseteq expected /\ ignored' = ignored
  BY <1>3 DEF Cancel, Arrive, Vanish, loopVars
<1>4. CASE Cancel
  BY <1>4 DEF Cancel, loopVars
<1>5. CASE UNCHANGED vars
  BY <1>5 DEF vars
<1>. QED BY <1>1, <1>2, <1>3, <1>4, <1>5 DEF Next, LoopStep

LEMMA BackwardsStep == PagingInv /\ [Next]_vars => Backwards'
<1>. SUFFICES ASSUME PagingInv, [Next]_vars, ~ignored', Sparse' PROVE
        /\ \A c \in expected' : ~IsBefore(c)' => c \in stored'
        /\ pc' \in {"store", "advance"} => PageFits'
        /\ pc' = "store" => Covered(page.comments)'
        /\ pc' = "advance" => page'.comments \subseteq stored' /\ Covered(stored)'
  BY DEF Backwards
<1>1. time' = time /\ ~ignored /\ expected' \subseteq expected
  BY PostKept
<1>2. Sparse
  BY <1>1 DEF Sparse
<1>3. /\ TypeOK /\ \A c \in expected : ~IsBefore(c) => c \in stored
      /\ pc \in {"store", "advance"} => PageFits
      /\ pc = "store" => Covered(page.comments)
      /\ pc = "advance" => page.comments \subseteq stored /\ Covered(stored)
  BY <1>1, <1>2 DEF PagingInv, Backwards
<1>4. CASE FetchPage
  <2>1. pc' = "store" /\ UNCHANGED <<expected, cursor, stored>>
    BY <1>4 DEF FetchPage
  <2>2. \A c \in expected' : ~IsBefore(c)' => c \in stored'
    BY <1>1, <1>3, <2>1 DEF IsBefore
  <2>. QED BY <1>3, <1>4, <2>1, <2>2, PageOfCursor
<1>5. CASE StorePage
  <2>1. /\ pc = "store" /\ pc' = "advance" /\ stored' = stored \cup page.comments
        /\ UNCHANGED <<expected, cursor, page>>
    BY <1>5 DEF StorePage, postVars
  <2>. QED BY <1>1, <1>3, <2>1 DEF IsBefore, PageFits, Covered
<1>6. CASE NextPage
  <2>1. pc' = "fetch" /\ UNCHANGED <<expected, stored>>
    BY <1>6 DEF NextPage, postVars
  <2>2. \A c \in expected : ~IsBefore(c)' => c \in stored
    BY <1>1, <1>2, <1>6, NothingBehind DEF PagingInv
  <2>. QED BY <2>1, <2>2
<1>7. CASE UNCHANGED <<cursor, page, stored>> /\ (pc' = pc \/ pc' \in {"stats", "done"})
  BY <1>1, <1>3, <1>7 DEF IsBefore, PageFits, Covered
<1>8. \/ FetchPage \/ StorePage \/ NextPage
      \/ UNCHANGED <<cursor, page, stored>> /\ (pc' = pc \/ pc' \in {"stats", "done"})
  <2>1. CASE StopCancelled \/ Raise \/ EndLoop \/ UpdateStats
    BY <2>1 DEF StopCancelled, Raise, EndLoop, UpdateStats
  <2>2. CASE Cancel \/ UNCHANGED vars
    BY <2>2 DEF Cancel, loopVars, vars
  <2>3. ASSUME NEW c \in Comment, Arrive(c) \/ Vanish(c)
        PROVE  UNCHANGED <<cursor, page, stored>> /\ pc' = pc
    BY <2>3 DEF Arrive, Vanish, loopVars
  <2>. QED BY <2>1, <2>2, <2>3 DEF Next, LoopStep
<1>. QED BY <1>4, <1>5, <1>6, <1>7, <1>8

\* The time of a stored comment is at most that of the minute it was written in, and
\* not younger than it.
LEMMA WrittenInOrder ==
  ASSUME TypeOK, PageFits, NEW c \in page.comments, NEW d \in Comment,
         time[d] <= time[c], time[d] <= page.cursor
  PROVE  time[d] - (time[d] % Minute) <= WrittenAt(c)
<1>1. time[c] \in Nat /\ time[d] \in Nat /\ Minute \in Nat \ {0}
  BY TimeIsNat, PagingAssumption DEF TypeOK
<1>2. CASE c \in page.first
  <2>1. WrittenAt(c) = time[c]
    BY <1>2 DEF WrittenAt
  <2>2. time[d] - (time[d] % Minute) <= time[d]
    BY <1>1, TruncatedInOrder
  <2>3. time[d] - (time[d] % Minute) \in Int
    BY <1>1
  <2>. QED BY <1>1, <2>1, <2>2, <2>3
<1>3. CASE c \notin page.first
  BY <1>1, <1>3, TruncatedInOrder DEF WrittenAt
<1>. QED BY <1>2, <1>3

\* The loop ends when the page has no more, or with since reached: a cursor that does
\* not move is not met as long as the blog pays attention.
LEMMA LoopEnds ==
  ASSUME TypeOK, Seen, Backwards, ~ignored, Sparse, EndLoop
  PROVE  /\ ~stoppedEarly' => expected \subseteq stored
         /\ since # NoSince => Wanted \subseteq stored
<1>0. pc = "advance"
  BY DEF EndLoop
<1>1. /\ BatchReaches \/ ~page.hasMore \/ Stuck
      /\ stoppedEarly' = (BatchReaches \/ page.hasMore)
  BY DEF EndLoop
<1>2. /\ \A c \in expected : ~IsBefore(c) => c \in stored
      /\ PageFits /\ page.comments \subseteq stored /\ Covered(stored)
  BY <1>0 DEF Backwards
<1>3. ~page.hasMore => expected \subseteq stored
  BY <1>2 DEF Covered
<1>4. \A c \in Comment : time[c] \in Int
  BY TimeIsNat DEF TypeOK
<1>5. page.hasMore => ~Stuck
  <2>. SUFFICES ASSUME page.hasMore PROVE ~Stuck
    OBVIOUS
  <2>1. PICK c \in page.comments : IsBefore(c) /\ page.cursor \in Int /\ page.cursor <= time[c]
    BY <1>2 DEF PageFits
  <2>2. cursor # NoCursor => page.cursor < cursor /\ cursor \in Int
    BY <1>4, <2>1 DEF IsBefore, TypeOK, CursorType
  <2>3. /\ NextCursor(page.cursor, cursor) \in Int
        /\ cursor # NoCursor => NextCursor(page.cursor, cursor) < cursor
    BY <2>1, <2>2, PagingAssumption DEF NextCursor
  <2>. QED BY <2>3, PagingAssumption DEF Stuck, Seen, TypeOK, CursorType
<1>6. ASSUME since # NoSince, page.hasMore PROVE Wanted \subseteq stored
  <2>1. PICK c \in page.comments : WrittenAt(c) < since
    BY <1>1, <1>5, <1>6 DEF BatchReaches
  <2>. SUFFICES ASSUME NEW d \in expected, d \notin stored,
                       time[d] - (time[d] % Minute) >= since
                PROVE  FALSE
    BY DEF Wanted
  <2>2. d \in Comment /\ c \in Comment /\ page.cursor \in Int /\ page.cursor <= time[c]
    BY <1>2 DEF PageFits, TypeOK
  <2>3. time[d] <= page.cursor
    BY <1>2, <1>4, <1>6, <2>2 DEF Covered
  <2>4. time[d] - (time[d] % Minute) <= WrittenAt(c)
    BY <1>2, <1>4, <2>2, <2>3, WrittenInOrder
  <2>5. since \in Int /\ time[d] \in Nat /\ time[c] \in Nat /\ Minute \in Nat \ {0}
    BY <1>6, <2>2, TimeIsNat, PagingAssumption DEF TypeOK
  <2>6. WrittenAt(c) \in Int /\ time[d] - (time[d] % Minute) \in Int
    BY <2>5 DEF WrittenAt
  <2>. QED BY <2>1, <2>4, <2>5, <2>6
<1>7. since # NoSince /\ ~page.hasMore => Wanted \subseteq stored
  BY <1>3 DEF Wanted
<1>. QED BY <1>1, <1>3, <1>6, <1>7

LEMMA EndedStep == PagingInv /\ [Next]_vars => Ended'
<1>. SUFFICES ASSUME PagingInv, [Next]_vars, ~ignored', Sparse', pc' \in {"stats", "done"}, ~error'
              PROVE  /\ ~stoppedEarly' => expected' \subseteq stored'
                     /\ since' # NoSince /\ ~cancelled' => Wanted' \subseteq stored'
  BY DEF Ended
<1>1. time' = time /\ since' = since /\ ~ignored /\ expected' \subseteq expected
  BY PostKept
<1>2. Sparse /\ Wanted' \subseteq Wanted
  BY <1>1 DEF Sparse, Wanted
<1>3. TypeOK /\ Seen /\ Backwards /\ Ended
  BY DEF PagingInv
<1>4. CASE EndLoop
  <2>1. UNCHANGED <<stored, expected>>
    BY <1>4 DEF EndLoop, postVars
  <2>. QED BY <1>1, <1>2, <1>3, <1>4, <2>1, LoopEnds
<1>5. CASE StopCancelled
  BY <1>5 DEF StopCancelled
<1>6. CASE UNCHANGED <<stored, stoppedEarly, error>> /\ pc \in {"stats", "done"}
           /\ (cancelled => cancelled')
  BY <1>1, <1>2, <1>3, <1>6 DEF Ended
<1>7. \/ EndLoop \/ StopCancelled
      \/ /\ UNCHANGED <<stored, stoppedEarly, error>> /\ pc \in {"stats", "done"}
         /\ cancelled => cancelled'
  <2>1. CASE FetchPage \/ Raise \/ StorePage \/ NextPage \/ UpdateStats
    BY <2>1 DEF FetchPage, Raise, StorePage, NextPage, UpdateStats
  <2>2. CASE Cancel \/ UNCHANGED vars
    BY <2>2 DEF Cancel, loopVars, vars
  <2>3. ASSUME NEW c \in Comment, Arrive(c) \/ Vanish(c)
        PROVE  UNCHANGED <<stored, stoppedEarly, error>> /\ pc' = pc /\ cancelled' = cancelled
    BY <2>3 DEF Arrive, Vanish, loopVars
  <2>. QED BY <2>1, <2>2, <2>3 DEF Next, LoopStep
<1>. QED BY <1>4, <1>5, <1>6, <1>7

LEMMA PagingInvariant == Spec => []PagingInv
<1>1. PagingInv /\ [Next]_vars => PagingInv'
  BY PagingTypeStep, SeenStep, BackwardsStep, EndedStep DEF PagingInv
<1>. QED BY <1>1, PagingInit, PTL DEF Spec

\* A reading that ends by itself has stored every comment that was there all the time,
\* for any comments, times and size of a page, whatever arrives and vanishes meanwhile.
THEOREM ReadingIsComplete == Spec => []NothingMissed
<1>1. PagingInv => NothingMissed
  BY DEF PagingInv, Ended, NothingMissed
<1>. QED BY <1>1, PagingInvariant, PTL

\* The same for a reading with since, in whole minutes.
THEOREM ReadingSinceIsComplete == Spec => []NothingMissedSince
<1>1. PagingInv => NothingMissedSince
  BY DEF PagingInv, Ended, Wanted, NothingMissedSince
<1>. QED BY <1>1, PagingInvariant, PTL
=============================================================================
