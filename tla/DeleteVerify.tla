---------------------------- MODULE DeleteVerify ----------------------------
(***************************************************************************)
(* The verification after a deletion: JobManager._verify_after_delete and  *)
(* DeletionService.verify (src/app/services/{jobs,deleter}.py). The posts  *)
(* of the job are read again one after the other, and the records of the   *)
(* job's comments are corrected in two transactions.                       *)
(***************************************************************************)
EXTENDS FiniteSets

CONSTANTS
    Entry,      \* the posts in params["entry_ids"]
    Comment,    \* the comments whose items succeeded or failed
    EntryOf     \* the post of each comment

ASSUME VerifyAssumption ==
    /\ IsFiniteSet(Entry) /\ Entry # {}
    /\ EntryOf \in [Comment -> Entry]

VARIABLES
    alive,      \* the comments the blog has now
    item,       \* job_items.status
    status,     \* comments.status
    circuitOpen,\* summary.circuit_open
    pc,         \* "start", "fetch", "correct", "revert", "done" or "raised"
    todo,       \* posts that are still to be read
    before,     \* the items when the verification began: deleted_ids, failed_ids
    stillAlive, seenAlive, unverified,
    cut         \* posts whose reading ended at a cursor that did not move

vars == <<alive, item, status, circuitOpen, pc, todo, before, stillAlive,
          seenAlive, unverified, cut>>

Deleted == {c \in Comment : before[c] = "succeeded"}   \* target
Failed  == {c \in Comment : before[c] = "failed"}      \* failed_target

LiveIds(e) == {c \in alive : EntryOf[c] = e}

\* What _fetch_live_comment_ids may return for a post: everything, or what came
\* before a cursor that did not move, a cut that it does not report.
Reads(e, live) ==
    \/ live = LiveIds(e) /\ UNCHANGED cut
    \/ live \in SUBSET LiveIds(e) /\ cut' = cut \cup {e}

\* The item of this job and the comment are two rows: a trial or another job of the same
\* comment may have written the comment since.
Init ==
    /\ item \in [Comment -> {"succeeded", "failed"}]
    /\ status \in [Comment -> {"deleted", "failed"}]
    /\ alive \in SUBSET Comment
    /\ circuitOpen \in BOOLEAN
    /\ pc = "start"
    /\ todo = Entry
    /\ before = item
    /\ stillAlive = {} /\ seenAlive = {} /\ unverified = {} /\ cut = {}

recordVars == <<item, status>>

\* Nothing is asked of a blog whose circuit has opened.
Start ==
    /\ pc = "start"
    /\ pc' = IF circuitOpen THEN "done" ELSE "fetch"
    /\ UNCHANGED <<alive, recordVars, circuitOpen, todo, before, stillAlive, seenAlive,
                   unverified, cut>>

\* Plausible bug: what earlier posts have shown is overwritten.
FetchEntryOverwrites(e) ==
    /\ pc = "fetch" /\ e \in todo
    /\ todo' = todo \ {e}
    /\ \E live \in SUBSET LiveIds(e) :
          /\ Reads(e, live)
          /\ stillAlive' = Deleted \cap live
          /\ seenAlive' = seenAlive \cup live
    /\ UNCHANGED <<alive, recordVars, circuitOpen, pc, before, unverified>>

\* The reading of a post returns.
FetchEntry(e) ==
    /\ pc = "fetch" /\ e \in todo
    /\ todo' = todo \ {e}
    /\ \E live \in SUBSET LiveIds(e) :
          /\ Reads(e, live)
          /\ stillAlive' = stillAlive \cup (Deleted \cap live)
          /\ seenAlive' = seenAlive \cup live
    /\ UNCHANGED <<alive, recordVars, circuitOpen, pc, before, unverified>>

\* TistoryApiError: the post stays unverified and the next one is read.
FetchFails(e) ==
    /\ pc = "fetch" /\ e \in todo
    /\ todo' = todo \ {e}
    /\ unverified' = unverified \cup {e}
    /\ UNCHANGED <<alive, recordVars, circuitOpen, pc, before, stillAlive, seenAlive, cut>>

\* Any other exception ends the verification without a correction; so does a
\* failing transaction, which leaves what an earlier one has committed.
Raise ==
    /\ pc \in {"fetch", "correct", "revert"}
    /\ pc' = "raised"
    /\ UNCHANGED <<alive, recordVars, circuitOpen, todo, before, stillAlive, seenAlive,
                   unverified, cut>>

AllRead ==
    /\ pc = "fetch" /\ todo = {}
    /\ pc' = "correct"
    /\ UNCHANGED <<alive, recordVars, circuitOpen, todo, before, stillAlive, seenAlive,
                   unverified, cut>>

\* One transaction sets the items and the comments of S.
SetRecords(S, itemStatus, commentStatus) ==
    /\ item' = [c \in Comment |-> IF c \in S THEN itemStatus ELSE item[c]]
    /\ status' = [c \in Comment |-> IF c \in S THEN commentStatus ELSE status[c]]

\* Plausible bug: nothing seen is enough, even if no post could be read.
UnseenFailed == Failed \ seenAlive

\* Failed comments that were not seen, provided that any post could be read.
ActuallyDeleted == IF unverified # Entry THEN Failed \ seenAlive ELSE {}

CorrectDeleted ==
    /\ pc = "correct"
    /\ SetRecords(ActuallyDeleted, "succeeded", "deleted")
    /\ pc' = "revert"
    /\ UNCHANGED <<alive, circuitOpen, todo, before, stillAlive, seenAlive, unverified, cut>>

RevertAlive ==
    /\ pc = "revert"
    /\ SetRecords(stillAlive, "failed", "failed")
    /\ pc' = "done"
    /\ UNCHANGED <<alive, circuitOpen, todo, before, stillAlive, seenAlive, unverified, cut>>

\* The owner of the blog removes a comment by hand.
Vanish(c) ==
    /\ c \in alive
    /\ pc \notin {"done", "raised"}
    /\ alive' = alive \ {c}
    /\ UNCHANGED <<recordVars, circuitOpen, pc, todo, before, stillAlive, seenAlive, unverified, cut>>

Next ==
    \/ Start \/ AllRead \/ CorrectDeleted \/ RevertAlive \/ Raise
    \/ \E e \in Entry : FetchEntry(e) \/ FetchFails(e)
    \/ \E c \in Comment : Vanish(c)

Spec == Init /\ [][Next]_vars

(***************************************************************************)
(* Properties                                                              *)
(***************************************************************************)
Records == [Comment -> {"succeeded", "failed"}]

TypeOK ==
    /\ alive \in SUBSET Comment
    /\ item \in Records /\ before \in Records
    /\ status \in [Comment -> {"deleted", "failed"}]
    /\ circuitOpen \in BOOLEAN
    /\ pc \in {"start", "fetch", "correct", "revert", "done", "raised"}
    /\ todo \in SUBSET Entry /\ unverified \in SUBSET Entry
    /\ cut \in SUBSET Entry
    /\ stillAlive \in SUBSET Comment /\ seenAlive \in SUBSET Comment

\* After a verification the records of the posts that were read to their end
\* are right: a success is gone from the blog, a failure was still there when
\* its post was read (deleter.py:383-384).
VerifiedIsTrue ==
    pc = "done" /\ ~circuitOpen =>
        \A c \in Comment : EntryOf[c] \notin unverified \cup cut =>
            /\ item[c] = "succeeded" => c \notin alive
            /\ item[c] = "failed" => c \in seenAlive

\* A success is taken back only for a comment that was seen again; a post that
\* could not be read takes back nothing.
OnlySeenReverted ==
    \A c \in Comment :
        before[c] = "succeeded" /\ item[c] = "failed"
            => c \in seenAlive /\ EntryOf[c] \notin unverified

\* A failure is corrected to a success only for a comment that is gone, when
\* no reading was cut short (deleter.py:87, 383-384: what could not be read is
\* reported as unverified).
CorrectedIsGone ==
    cut = {} =>
        \A c \in Comment : before[c] = "failed" /\ item[c] = "succeeded" => c \notin alive

\* The same, when the blog answered for all posts or for none: the condition
\* of deleter.py:407 knows no more than this.
WholeCorrectedIsGone == unverified \in {{}, Entry} => CorrectedIsGone
=============================================================================
