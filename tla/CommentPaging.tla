---------------------------- MODULE CommentPaging ----------------------------
(***************************************************************************)
(* Reading the comments of one post page by page: the loop of              *)
(* CollectorService._run_pages (src/app/services/collector.py) and the     *)
(* cursor rule next_comment_cursor it shares with the verification of a    *)
(* deletion. The blog answers with the newest BatchSize comments older     *)
(* than the cursor, or pays no attention to the cursor, and may gain and   *)
(* lose comments meanwhile.                                                *)
(***************************************************************************)
EXTENDS Integers, FiniteSets

CONSTANTS
    Comment,    \* the ids of the comments that the post has or will have
    Times,      \* the seconds at which they may have been written
    BatchSize,  \* comments per page of the blog
    Minute,     \* seconds of a minute: the listing shows minutes only
    NoCursor,   \* None: the first request, or a page without a cursor
    NoSince     \* None

ASSUME PagingAssumption ==
    /\ Comment \subseteq Nat /\ IsFiniteSet(Comment)
    /\ Times \subseteq Nat
    /\ BatchSize \in Nat \ {0} /\ Minute \in Nat \ {0}
    /\ NoCursor \notin Int /\ NoSince \notin Int

VARIABLES
    time,       \* when each comment was (or will be) written
    blog,       \* the comments the post has now
    since,      \* parameter since of collect_entry
    pc,         \* "fetch", "store", "advance", "stats" or "done"
    cursor, seenCursors, page,
    stored,     \* the comments stored so far
    stoppedEarly, error, cancelled,
    expected,   \* the comments that were there from the beginning and still are
    ignored     \* the blog has paid no attention to a cursor

vars == <<time, blog, since, pc, cursor, seenCursors, page, stored, stoppedEarly,
          error, cancelled, expected, ignored>>

(***************************************************************************)
(* The cursor rule                                                         *)
(***************************************************************************)
\* Plausible bug: ts itself, which excludes the rest of its second.
NextCursorExclusive(pageCursor, current) == pageCursor

\* next_comment_cursor: ts of the page plus one, so that the second at the
\* border is read again; ts itself only if that would not move the cursor;
\* the current cursor if the blog goes no further back.
NextCursor(pageCursor, current) ==
    IF pageCursor = NoCursor THEN NoCursor
    ELSE IF current = NoCursor \/ (pageCursor + 1) < current THEN pageCursor + 1
    ELSE IF pageCursor < current THEN pageCursor
    ELSE current

(***************************************************************************)
(* The blog                                                                *)
(***************************************************************************)
Before(cur) == {c \in blog : cur = NoCursor \/ time[c] < cur}

Oldest(S) == {c \in S : \A d \in S : time[c] <= time[d]}

\* The newest candidates, in any order within a second.
Batches(cur) ==
    {S \in SUBSET Before(cur) :
        /\ Cardinality(S) <= BatchSize
        /\ S # Before(cur) => Cardinality(S) = BatchSize
        /\ \A c \in S, d \in Before(cur) \ S : time[d] <= time[c]}

\* A page; its cursor (ts) is the time of an oldest comment of the page, the
\* one that firstCommentId names.
PageOf(cur, S, c) ==
    [comments |-> S, cursor |-> time[c], first |-> {c}, hasMore |-> S # Before(cur)]

EmptyPage == [comments |-> {}, cursor |-> NoCursor, first |-> {}, hasMore |-> FALSE]

Init ==
    /\ time \in [Comment -> Times]
    /\ \A c, d \in Comment : c < d => time[c] <= time[d]
    /\ blog \in SUBSET Comment
    /\ \A c \in blog, d \in Comment \ blog : time[c] <= time[d]
    /\ since \in {NoSince} \cup Times
    /\ pc = "fetch"
    /\ cursor = NoCursor /\ seenCursors = {} /\ page = EmptyPage
    /\ stored = {}
    /\ stoppedEarly = FALSE /\ error = FALSE /\ cancelled = FALSE
    /\ expected = blog
    /\ ignored = FALSE

(***************************************************************************)
(* The loop                                                                *)
(***************************************************************************)
postVars == <<time, blog, since, expected, ignored>>

\* The cancel event is seen before the next request.
StopCancelled ==
    /\ pc = "fetch"
    /\ cancelled
    /\ pc' = "stats"
    /\ stoppedEarly' = TRUE
    /\ UNCHANGED <<postVars, cursor, seenCursors, page, stored, error, cancelled>>

\* fetch_comment_page returns a page.
FetchPage ==
    /\ pc = "fetch"
    /\ ~cancelled
    /\ \E from \in {cursor, NoCursor} :
          /\ \/ Before(from) = {} /\ page' = EmptyPage
             \/ \E S \in Batches(from) : \E c \in Oldest(S) : page' = PageOf(from, S, c)
          /\ ignored' = (ignored \/ from # cursor)
    /\ pc' = "store"
    /\ UNCHANGED <<time, blog, since, expected, cursor, seenCursors, stored,
                   stoppedEarly, error, cancelled>>

\* The request or a transaction raises: collect_entry reports an error, or
\* the cancellation when the event is set.
Raise ==
    /\ pc \in {"fetch", "store", "stats"}
    /\ pc = "fetch" => ~cancelled
    /\ pc' = "done"
    /\ error' = TRUE
    /\ stoppedEarly' = (stoppedEarly \/ cancelled)
    /\ UNCHANGED <<postVars, cursor, seenCursors, page, stored, cancelled>>

\* _store commits the page.
StorePage ==
    /\ pc = "store"
    /\ stored' = stored \cup page.comments
    /\ pc' = "advance"
    /\ UNCHANGED <<postVars, cursor, seenCursors, page, stoppedEarly, error, cancelled>>

\* The time a stored comment gets: exact for the oldest of the page, the
\* minute for the others (_with_second_precision).
WrittenAt(c) == IF c \in page.first THEN time[c] ELSE time[c] - (time[c] % Minute)

\* Plausible bug: the page that holds since itself ends the reading.
BatchReachesAt ==
    since # NoSince /\ \E c \in page.comments : WrittenAt(c) <= since

BatchReaches ==
    since # NoSince /\ \E c \in page.comments : WrittenAt(c) < since

\* Plausible bug: only a missing cursor ends the loop.
StuckWithoutCursor == NextCursor(page.cursor, cursor) = NoCursor

\* The cursor does not move: without a stop the same page would come for ever.
Stuck ==
    LET next == NextCursor(page.cursor, cursor) IN
    next = NoCursor \/ next = cursor \/ next \in seenCursors

\* The loop ends: since is reached, the blog has no more, or the cursor is stuck.
EndLoop ==
    /\ pc = "advance"
    /\ BatchReaches \/ ~page.hasMore \/ Stuck
    /\ pc' = "stats"
    /\ stoppedEarly' = (BatchReaches \/ page.hasMore)
    /\ UNCHANGED <<postVars, cursor, seenCursors, page, stored, error, cancelled>>

\* The next page is due.
NextPage ==
    /\ pc = "advance"
    /\ ~BatchReaches /\ page.hasMore /\ ~Stuck
    /\ cursor' = NextCursor(page.cursor, cursor)
    /\ seenCursors' = seenCursors \cup {cursor'}
    /\ pc' = "fetch"
    /\ UNCHANGED <<postVars, page, stored, stoppedEarly, error, cancelled>>

\* _update_target_stats counts the stored comments of the post.
UpdateStats ==
    /\ pc = "stats"
    /\ pc' = "done"
    /\ UNCHANGED <<postVars, cursor, seenCursors, page, stored, stoppedEarly, error,
                   cancelled>>

LoopStep ==
    \/ StopCancelled \/ FetchPage \/ Raise \/ StorePage \/ EndLoop \/ NextPage
    \/ UpdateStats

(***************************************************************************)
(* The user and the readers of the blog                                    *)
(***************************************************************************)
loopVars == <<time, since, pc, cursor, seenCursors, page, stored, stoppedEarly, error,
              ignored>>

Cancel ==
    /\ pc # "done" /\ ~cancelled
    /\ cancelled' = TRUE
    /\ UNCHANGED <<loopVars, blog, expected>>

\* A comment is written now, so no comment on the blog is younger.
Arrive(c) ==
    /\ pc # "done"
    /\ c \notin blog
    /\ \A d \in blog : time[d] < time[c]
    /\ c \notin expected
    /\ blog' = blog \cup {c}
    /\ UNCHANGED <<loopVars, cancelled, expected>>

Vanish(c) ==
    /\ pc # "done"
    /\ c \in expected
    /\ blog' = blog \ {c}
    /\ expected' = expected \ {c}
    /\ UNCHANGED <<loopVars, cancelled>>

Next == LoopStep \/ Cancel \/ \E c \in Comment : Arrive(c) \/ Vanish(c)

Spec == Init /\ [][Next]_vars
FairSpec == Spec /\ WF_vars(LoopStep)

(***************************************************************************)
(* Properties                                                              *)
(***************************************************************************)
CursorType == Int \cup {NoCursor}

TypeOK ==
    /\ time \in [Comment -> Times]
    /\ blog \in SUBSET Comment
    /\ since \in Times \cup {NoSince}
    /\ pc \in {"fetch", "store", "advance", "stats", "done"}
    /\ cursor \in CursorType
    /\ seenCursors \in SUBSET Int
    /\ page.comments \in SUBSET Comment /\ page.first \in SUBSET Comment
    /\ page.cursor \in CursorType /\ page.hasMore \in BOOLEAN
    /\ stored \in SUBSET Comment
    /\ stoppedEarly \in BOOLEAN /\ error \in BOOLEAN /\ cancelled \in BOOLEAN
    /\ expected \in SUBSET blog
    /\ ignored \in BOOLEAN

\* No second holds more comments than a page.
Sparse == \A t \in Times : Cardinality({c \in Comment : time[c] = t}) <= BatchSize

\* A reading that ends by itself has missed nothing, if no second holds more
\* comments than a page: every comment that was on the blog all the time is
\* stored, whatever arrives or vanishes meanwhile (client.py:51-60; the same
\* loop decides in a verification what is gone).
NothingMissed ==
    pc = "done" /\ ~stoppedEarly /\ ~error /\ ~ignored /\ Sparse
        => expected \subseteq stored

\* A reading with since has all comments of the minutes from then on, the page at the
\* border being stored as a whole (collector.py:72-73), unless the blog ignored a
\* cursor or a second is too full. Of the minute that since lies in some may be missed,
\* because the times of a page are truncated but for one comment (collector.py:169-192).
NothingMissedSince ==
    pc = "done" /\ since # NoSince /\ ~cancelled /\ ~error /\ ~ignored /\ Sparse
        => {c \in expected : time[c] - (time[c] % Minute) >= since} \subseteq stored

\* The cursor always moves back, whatever the blog answers, so that no page is
\* asked for again (client.py:60).
CursorFalls == [][cursor' # cursor => cursor = NoCursor \/ cursor' < cursor]_vars

\* Every reading ends.
ReadingEnds == <>(pc = "done")
=============================================================================
