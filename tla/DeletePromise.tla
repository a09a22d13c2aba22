---------------------------- MODULE DeletePromise ----------------------------
(***************************************************************************)
(* What a run of the deletion engine promises, without workers, queues,    *)
(* batches or retries: comments disappear from the blog, results are       *)
(* recorded once and only as the blog has told, and nothing is recorded    *)
(* after the run has been closed.                                          *)
(***************************************************************************)
CONSTANT Comment

VARIABLES
    rehearsal,  \* the run only pretends to delete (dry run)
    gone,       \* the comments the blog has removed or said to have removed
    record,     \* the recorded result of each comment
    closed      \* the run has ended

promiseVars == <<rehearsal, gone, record, closed>>

PromiseInit ==
    /\ rehearsal \in BOOLEAN
    /\ gone = {}
    /\ record = [c \in Comment |-> "pending"]
    /\ closed = FALSE

\* Some comments disappear, never in a rehearsal.
Perish ==
    /\ ~rehearsal /\ ~closed
    /\ \E S \in SUBSET Comment : gone' = gone \cup S
    /\ UNCHANGED <<rehearsal, record, closed>>

\* Results are recorded for comments that have none; a success of a real run
\* is recorded for a comment that is gone, or told to be.
Store ==
    /\ ~closed
    /\ \E good, bad \in SUBSET {c \in Comment : record[c] = "pending"} :
          /\ good \cap bad = {}
          /\ rehearsal \/ good \subseteq gone
          /\ record' = [c \in Comment |-> IF c \in good THEN "succeeded"
                                          ELSE IF c \in bad THEN "failed" ELSE record[c]]
    /\ UNCHANGED <<rehearsal, gone, closed>>

Close ==
    /\ closed' = TRUE
    /\ UNCHANGED <<rehearsal, gone, record>>

PromiseNext == Perish \/ Store \/ Close

PromiseSpec == PromiseInit /\ [][PromiseNext]_promiseVars
=============================================================================
