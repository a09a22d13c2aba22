----------------------------- MODULE DeleteJob -----------------------------
(***************************************************************************)
(* What a deletion job may touch and what it reports: the resolution of    *)
(* its targets, the backup, the protection check of every run, the totals  *)
(* and the status it ends with (src/app/services/jobs.py), next to a trial *)
(* deletion (api/routes/settings.py) and rescorings that change the rows.  *)
(* DeleteEngine details the run between Filter and EndWork, DeleteVerify   *)
(* the verification, JobLifecycle the tasks and who may start; that one    *)
(* deletion is at work at a time follows here from the same checks.        *)
(***************************************************************************)
EXTENDS Integers, FiniteSets

CONSTANTS
    Comment,
    Job,            \* ids of jobs
    Request,        \* concurrent requests for a deletion
    NoJob, NoComment, NoRequest,
    MaxEvents       \* bound on the rescorings, trial deletions, cancels, wrong answers,
                    \* partial verifications, lost batches, exceptions and crashes together

ASSUME JobAssumption ==
    /\ NoJob \notin Job /\ NoComment \notin Comment /\ NoRequest \notin Request
    /\ IsFiniteSet(Comment)
    /\ MaxEvents \in Nat

VARIABLES
    class,      \* per comment: "protected" (whitelisted or admin), "spam" or "other"
    status,     \* comments.status
    alive,      \* the comments the blog has
    owner,      \* cached_diagnosis().can_delete
    job,        \* rows of jobs
    item,       \* item[j][c]: job_items.status, "none" without a row
    backup,     \* backup[j]: the comments in the backup of the job
    req,        \* requests of create_delete_job and retry_failed
    lock,       \* _creation_lock
    run,        \* the task of the running deletion; unread says that its verification
                \* could not read or write everything
    test,       \* a trial deletion
    events,     \* how many of the events that MaxEvents bounds have happened
    barred,     \* history: comments a run must leave alone ever since its launch
    doubtful,   \* history: comments the blog still has, although it has accepted a
                \* request for them or a partial verification has not seen them
    unverified, \* history: jobs with requests after their last verification was begun
    resumed,    \* history: jobs that were run more than once
    overlap     \* history: a trial deletion met a comment of a running job

vars == <<class, status, alive, owner, job, item, backup, req, lock, run, test,
          events, barred, doubtful, unverified, resumed, overlap>>

Classes == {"protected", "spam", "other"}
Active  == {"pending", "running"}

NewJob == [status |-> "absent", dry |-> FALSE, allow |-> FALSE, done |-> 0,
           succeeded |-> 0, failed |-> 0, skipped |-> 0]
IdleReq == [pc |-> "idle", ids |-> {}, dry |-> FALSE, allow |-> FALSE]
IdleRun == [pc |-> "idle", job |-> NoJob, todo |-> {}, good |-> {}, bad |-> {},
            succ |-> 0, fail |-> 0, cancel |-> FALSE, cancelled |-> FALSE,
            stopped |-> {}, unread |-> FALSE]
IdleTest == [pc |-> "idle", c |-> NoComment, ok |-> FALSE]

\* protected_condition
Protected(c) == class[c] = "protected"

\* Plausible bug: deleted comments can be selected again.
SelectableAgain(c) == ~Protected(c)

\* selectable_condition
Selectable(c) == ~Protected(c) /\ status[c] # "deleted"

Items(j, s) == {c \in Comment : item[j][c] = s}     \* pending_item_ids, list_items
Counts(j, s) == Cardinality(Items(j, s))            \* item_counts

\* Plausible bug: the levels are not checked again when a run starts.
SkipsButLevels(j, c) == ~Selectable(c)

\* The reasons of _filter_protected to skip a comment.
Skips(j, c) == ~Selectable(c) \/ (~job[j].allow /\ class[c] # "spam")

Init ==
    /\ class \in [Comment -> Classes]
    /\ status = [c \in Comment |-> "active"]
    /\ alive = Comment
    /\ owner \in BOOLEAN
    /\ job = [j \in Job |-> NewJob]
    /\ item = [j \in Job |-> [c \in Comment |-> "none"]]
    /\ backup = [j \in Job |-> {}]
    /\ req = [r \in Request |-> IdleReq]
    /\ lock = NoRequest
    /\ run = IdleRun
    /\ test = IdleTest
    /\ events = 0
    /\ barred = {} /\ doubtful = {} /\ unverified = {} /\ resumed = {} /\ overlap = FALSE

rows    == <<class, status, alive>>
records == <<job, item, backup>>

Happens == events < MaxEvents /\ events' = events + 1

(***************************************************************************)
(* Requests                                                                *)
(***************************************************************************)
EndRequest(r) ==
    /\ req' = [req EXCEPT ![r] = IdleReq]
    /\ lock' = IF lock = r THEN NoRequest ELSE lock

\* A request names comments, or a filter, which may give any of them (ids_for).
Selections == (SUBSET Comment) \ {{}}

\* retry_failed reads the failed items before it waits for the creation lock.
RetryFailed(r) ==
    /\ req[r].pc = "idle"
    /\ \E j \in Job :
          /\ Items(j, "failed") # {}
          /\ req' = [req EXCEPT ![r] = [pc |-> "lock", ids |-> Items(j, "failed"),
                                       dry |-> job[j].dry, allow |-> job[j].allow]]
    /\ UNCHANGED <<rows, owner, records, lock, run, test, events>>

\* _create_delete_job_locked up to the backup: the checks and the targets
\* (_resolve_delete_targets).
Accepts(ids, dry, allow) ==
    LET targets == {c \in ids : Selectable(c)} IN
    /\ \A j \in Job : job[j].status \notin Active       \* _ensure_no_running
    /\ dry \/ owner
    /\ targets # {}
    /\ allow \/ \A c \in targets : class[c] = "spam"

Resolve(r, ids, dry, allow) ==
    /\ lock = NoRequest /\ Accepts(ids, dry, allow)
    /\ \E j \in Job : job[j].status = "absent"           \* bound
    /\ lock' = r
    /\ req' = [req EXCEPT ![r] = [pc |-> "backup", ids |-> {c \in ids : Selectable(c)},
                                 dry |-> dry, allow |-> allow]]
    /\ UNCHANGED <<rows, owner, records, run, test, events>>

\* create_delete_job: a refused request changes nothing.
CreateDelete(r) ==
    /\ req[r].pc = "idle"
    /\ \E ids \in Selections, dry, allow \in BOOLEAN : Resolve(r, ids, dry, allow)

\* The retry gets the lock, or is refused.
RetryLocked(r) ==
    /\ req[r].pc = "lock"
    /\ Resolve(r, req[r].ids, req[r].dry, req[r].allow)

RetryRefused(r) ==
    /\ req[r].pc = "lock" /\ lock = NoRequest
    /\ ~Accepts(req[r].ids, req[r].dry, req[r].allow)
    /\ EndRequest(r)
    /\ UNCHANGED <<rows, owner, records, run, test, events>>

\* The backup fails: no job is made.
BackupFails(r) ==
    /\ req[r].pc = "backup" /\ ~req[r].dry
    /\ Happens
    /\ EndRequest(r)
    /\ UNCHANGED <<rows, owner, records, run, test>>

Launch(j) == run' = [IdleRun EXCEPT !.pc = "start", !.job = j]

\* Plausible bug: the items are resolved once more after the backup.
CreateLate(r, j) ==
    /\ req[r].pc = "backup" /\ job[j].status = "absent"
    /\ job' = [job EXCEPT ![j] = [NewJob EXCEPT !.status = "pending",
                                  !.dry = req[r].dry, !.allow = req[r].allow]]
    /\ item' = [item EXCEPT ![j] = [c \in Comment |->
                    IF class[c] = "spam" THEN "pending" ELSE "none"]]
    /\ backup' = [backup EXCEPT ![j] = IF req[r].dry THEN {} ELSE req[r].ids]
    /\ Launch(j)
    /\ EndRequest(r)
    /\ UNCHANGED <<rows, owner, test, events>>

\* One transaction makes the job and its items; the task is launched.
Create(r, j) ==
    /\ req[r].pc = "backup" /\ job[j].status = "absent"
    /\ job' = [job EXCEPT ![j] = [NewJob EXCEPT !.status = "pending",
                                  !.dry = req[r].dry, !.allow = req[r].allow]]
    /\ item' = [item EXCEPT ![j] = [c \in Comment |->
                    IF c \in req[r].ids THEN "pending" ELSE "none"]]
    /\ backup' = [backup EXCEPT ![j] = IF req[r].dry THEN {} ELSE req[r].ids]
    /\ Launch(j)
    /\ EndRequest(r)
    /\ UNCHANGED <<rows, owner, test, events>>

\* Plausible bug: resume does not look at the other jobs.
ResumeUnchecked(j) ==
    /\ lock = NoRequest
    /\ job[j].status = "paused"
    /\ job' = [job EXCEPT ![j].status = "running"]
    /\ Launch(j)
    /\ UNCHANGED <<rows, owner, item, backup, req, lock, test, events>>

\* resume holds the creation lock; a pending job refuses itself.
Resume(j) ==
    /\ lock = NoRequest
    /\ job[j].status = "paused"
    /\ \A k \in Job : job[k].status \notin Active
    /\ job' = [job EXCEPT ![j].status = "running"]
    /\ Launch(j)
    /\ UNCHANGED <<rows, owner, item, backup, req, lock, test, events>>

Cancel ==
    /\ run.pc # "idle" /\ ~run.cancel
    /\ Happens
    /\ run' = [run EXCEPT !.cancel = TRUE]
    /\ UNCHANGED <<rows, owner, records, req, lock, test>>

(***************************************************************************)
(* The task: _run_delete                                                   *)
(***************************************************************************)
j0 == run.job

\* _mark_running, then _filter_protected: one transaction skips what may not be deleted now.
Filter ==
    /\ run.pc = "start"
    /\ LET pending == Items(j0, "pending")
           skipped == {c \in pending : Skips(j0, c)}
       IN  /\ item' = [item EXCEPT ![j0] = [c \in Comment |->
                          IF c \in skipped THEN "skipped" ELSE @[c]]]
           /\ job' = [job EXCEPT ![j0].status = "running", ![j0].skipped =
                          IF skipped = {} THEN @ ELSE Cardinality(skipped)]
           /\ run' = [run EXCEPT !.todo = pending \ skipped,
                          !.pc = IF pending = skipped THEN "total" ELSE "work"]
    /\ UNCHANGED <<rows, owner, backup, req, lock, test, events>>

\* A worker's request. A dry run asks nothing of the blog. The answer may be wrong: an
\* accepted comment may stay, and the answer of a removal may be lost.
AskBlog(c) ==
    /\ run.pc = "work" /\ run.stopped = {} /\ c \in run.todo
    /\ \/ /\ run' = [run EXCEPT !.todo = @ \ {c}, !.good = @ \cup {c}]
          /\ \/ alive' = (IF job[j0].dry THEN alive ELSE alive \ {c}) /\ UNCHANGED events
             \/ ~job[j0].dry /\ Happens /\ UNCHANGED alive
       \/ /\ ~job[j0].dry
          /\ run' = [run EXCEPT !.todo = @ \ {c}, !.bad = @ \cup {c}]
          /\ \/ UNCHANGED <<alive, events>>
             \/ Happens /\ alive' = alive \ {c}
    /\ UNCHANGED <<class, status, owner, records, req, lock, test>>

Unsaved == run.good \cup run.bad

\* Plausible bug: a dry run marks the comments.
StoreAlsoDry(S) ==
    /\ run.pc = "work" /\ S # {}
    /\ LET succ == run.succ + Cardinality(S \cap run.good)
           fail == run.fail + Cardinality(S \cap run.bad)
       IN  /\ job' = [job EXCEPT ![j0].done = succ + fail, ![j0].succeeded = succ,
                                 ![j0].failed = fail]
           /\ run' = [run EXCEPT !.good = @ \ S, !.bad = @ \ S, !.succ = succ, !.fail = fail]
    /\ item' = [item EXCEPT ![j0] = [c \in Comment |->
                    IF c \in S \cap run.good THEN "succeeded"
                    ELSE IF c \in S \cap run.bad THEN "failed" ELSE @[c]]]
    /\ status' = [c \in Comment |-> IF c \in S \cap run.good THEN "deleted"
                                    ELSE IF c \in S \cap run.bad THEN "failed" ELSE status[c]]
    /\ UNCHANGED <<class, alive, owner, backup, req, lock, test, events>>

\* _flush: items, comments and counters in one transaction. The counters are
\* those of this run.
Store(S) ==
    /\ run.pc = "work" /\ S # {}
    /\ LET succ == run.succ + Cardinality(S \cap run.good)
           fail == run.fail + Cardinality(S \cap run.bad)
       IN  /\ job' = [job EXCEPT ![j0].done = succ + fail, ![j0].succeeded = succ,
                                 ![j0].failed = fail]
           /\ run' = [run EXCEPT !.good = @ \ S, !.bad = @ \ S, !.succ = succ, !.fail = fail]
    /\ item' = [item EXCEPT ![j0] = [c \in Comment |->
                    IF c \in S \cap run.good THEN "succeeded"
                    ELSE IF c \in S \cap run.bad THEN "failed" ELSE @[c]]]
    /\ status' = [c \in Comment |->
                    IF c \in S \cap run.good /\ ~job[j0].dry THEN "deleted"
                    ELSE IF c \in S \cap run.bad THEN "failed" ELSE status[c]]
    /\ UNCHANGED <<class, alive, owner, backup, req, lock, test, events>>

\* Failures in a row open the circuit; workers take nothing more.
OpenCircuit ==
    /\ run.pc = "work" /\ run.stopped = {}
    /\ run.fail > 0 \/ run.bad # {}
    /\ run' = [run EXCEPT !.stopped = {"circuit"}]
    /\ UNCHANGED <<rows, owner, records, req, lock, test, events>>

\* An attempt to store a batch fails: the workers stop, and the batch is stored
\* by the next attempt or lost.
Abort ==
    /\ run.pc = "work" /\ Unsaved # {}
    /\ Happens
    /\ run' \in {[run EXCEPT !.stopped = @ \cup {"aborted"}],
                 [run EXCEPT !.stopped = @ \cup {"aborted"}, !.good = {}, !.bad = {}]}
    /\ UNCHANGED <<rows, owner, records, req, lock, test>>

\* Plausible bug: without a success there is nothing to verify.
EndWorkEager ==
    /\ run.pc = "work" /\ Unsaved = {}
    /\ run.todo = {} \/ run.cancel \/ run.stopped # {}
    /\ run' = [run EXCEPT !.cancelled = run.cancel,
                          !.pc = IF job[j0].dry \/ "circuit" \in run.stopped \/ run.succ = 0
                                 THEN "total" ELSE "verify"]
    /\ UNCHANGED <<rows, owner, records, req, lock, test, events>>

\* DeletionService.run returns. A dry run, and a run whose circuit has opened,
\* are not verified (verify_after is left at its default). A cancel that comes
\* later is not heard.
EndWork ==
    /\ run.pc = "work" /\ Unsaved = {}
    /\ run.todo = {} \/ run.cancel \/ run.stopped # {}
    /\ run' = [run EXCEPT !.cancelled = run.cancel,
                          !.pc = IF job[j0].dry \/ "circuit" \in run.stopped
                                 THEN "total" ELSE "verify"]
    /\ UNCHANGED <<rows, owner, records, req, lock, test, events>>

\* verify_deletions: the items of all runs are compared with the comments of the posts that
\* could be read, in two transactions (DeleteVerify has the readings).
Correct(read, corrected, reverted) ==
    LET gone    == IF corrected THEN Items(j0, "failed") \ (alive \cap read) ELSE {}
        revived == IF reverted THEN Items(j0, "succeeded") \cap alive \cap read ELSE {}
        whole   == read = Comment /\ reverted
    IN  /\ item' = [item EXCEPT ![j0] = [c \in Comment |->
                       IF c \in gone THEN "succeeded"
                       ELSE IF c \in revived THEN "failed" ELSE @[c]]]
        /\ status' = [c \in Comment |-> IF c \in gone THEN "deleted"
                          ELSE IF c \in revived THEN "failed" ELSE status[c]]
        /\ run' = [run EXCEPT !.pc = "total", !.unread = ~whole]
        /\ IF whole \/ ~corrected THEN UNCHANGED events ELSE Happens

\* _verify_after_delete: whatever could not be read or written, the run goes on.
Verify ==
    /\ run.pc = "verify"
    /\ \E read \in SUBSET Comment, corrected, reverted \in BOOLEAN :
          (reverted => corrected) /\ Correct(read, corrected, reverted)
    /\ UNCHANGED <<class, alive, owner, job, backup, req, lock, test>>

\* Plausible bug: what this run did is added to the totals, which have it.
TotalAdds ==
    /\ run.pc = "total"
    /\ job' = [job EXCEPT ![j0].done = @ + run.succ + run.fail + job[j0].skipped,
                          ![j0].succeeded = @ + run.succ, ![j0].failed = @ + run.fail]
    /\ run' = [run EXCEPT !.pc = "finish"]
    /\ UNCHANGED <<rows, owner, item, backup, req, lock, test, events>>

\* _finalize_delete, first part: the totals of all items.
Total ==
    /\ run.pc = "total"
    /\ job' = [job EXCEPT
          ![j0].done = Counts(j0, "succeeded") + Counts(j0, "failed") + Counts(j0, "skipped"),
          ![j0].succeeded = Counts(j0, "succeeded"),
          ![j0].failed = Counts(j0, "failed"),
          ![j0].skipped = Counts(j0, "skipped")]
    /\ run' = [run EXCEPT !.pc = "finish"]
    /\ UNCHANGED <<rows, owner, item, backup, req, lock, test, events>>

FinalStatus ==
    IF run.stopped # {} THEN "paused"
    ELSE IF run.cancelled THEN "cancelled"
    ELSE IF Items(j0, "pending") # {} THEN "paused"
    ELSE "completed"

\* _finalize_delete, second part: _finish
Finish ==
    /\ run.pc = "finish"
    /\ job' = [job EXCEPT ![j0].status = FinalStatus]
    /\ run' = IdleRun
    /\ UNCHANGED <<rows, owner, item, backup, req, lock, test, events>>

\* Any exception outside the engine: the job fails. Its items stay as they are.
RunRaises ==
    /\ run.pc \in {"start", "verify", "total", "finish"}
          \/ (run.pc = "work" /\ Unsaved = {} /\ run.succ + run.fail = 0)  \* build_client
    /\ Happens
    /\ job' = [job EXCEPT ![j0].status = "failed"]
    /\ run' = IdleRun
    /\ UNCHANGED <<rows, owner, item, backup, req, lock, test>>

\* The process ends and starts again: running jobs are paused
\* (recover_on_startup).
Crash ==
    /\ Happens
    /\ job' = [j \in Job |-> IF job[j].status = "running"
                             THEN [job[j] EXCEPT !.status = "paused"] ELSE job[j]]
    /\ req' = [r \in Request |-> IdleReq] /\ lock' = NoRequest
    /\ run' = IdleRun /\ test' = IdleTest
    /\ UNCHANGED <<rows, owner, item, backup>>

(***************************************************************************)
(* What changes the rows meanwhile                                         *)
(***************************************************************************)
\* A rescoring with edited rules, or the owner's mark of a new collection;
\* deleted comments are not scored.
Rescore(c, k) ==
    /\ Happens
    /\ status[c] # "deleted" /\ class[c] # k
    /\ class' = [class EXCEPT ![c] = k]
    /\ UNCHANGED <<status, alive, owner, records, req, lock, run, test>>

\* test_delete: the checks and the request, whose answer may be wrong; between them
\* nothing happens that the properties tell apart ...
TestAsk(c) ==
    /\ test.pc = "idle" /\ owner /\ Selectable(c)
    /\ Happens
    /\ \E ok \in BOOLEAN : test' = [pc |-> "record", c |-> c, ok |-> ok]
    /\ alive' \in {alive, alive \ {c}}
    /\ UNCHANGED <<class, status, owner, records, req, lock, run>>

\* ... and the record, whatever has been recorded since the checks.
TestRecord ==
    /\ test.pc = "record"
    /\ status' = [status EXCEPT ![test.c] = IF test.ok THEN "deleted" ELSE "failed"]
    /\ test' = IdleTest
    /\ UNCHANGED <<class, alive, owner, records, req, lock, run, events>>

(***************************************************************************)
Step ==
    \/ \E r \in Request : CreateDelete(r) \/ RetryFailed(r) \/ RetryLocked(r)
                            \/ RetryRefused(r) \/ BackupFails(r)
    \/ \E r \in Request, j \in Job : Create(r, j)
    \/ \E j \in Job : Resume(j)
    \/ Cancel \/ Filter \/ OpenCircuit \/ Abort \/ EndWork \/ Verify
    \/ Total \/ Finish \/ RunRaises \/ Crash
    \/ \E c \in Comment : AskBlog(c) \/ TestAsk(c)
    \/ Store(Unsaved)
    \/ TestRecord
    \/ \E c \in Comment, k \in Classes : Rescore(c, k)

\* What a job must leave alone, stated without its own check.
Forbidden(j, c) ==
    \/ class[c] = "protected" \/ status[c] = "deleted"
    \/ class[c] = "other" /\ ~job[j].allow

Launched == run'.pc = "start" /\ run.pc = "idle"

Verified == run.pc = "verify" /\ run'.pc = "total"

\* What the blog, or the verification, has told of the removal of comments ...
Told ==
    (IF run'.pc # "idle" /\ ~job[run'.job].dry THEN run'.good ELSE {})
        \cup (IF test'.pc = "record" /\ test'.ok THEN {test'.c} ELSE {})
        \cup (IF Verified THEN {c \in Items(j0, "failed") : item'[j0][c] = "succeeded"} ELSE {})

\* ... and what a verification of everything has put right.
PutRight == IF Verified /\ ~run'.unread THEN Items(j0, "succeeded") ELSE {}

\* The history variables follow every step.
Watch ==
    /\ barred' = IF run'.pc = "idle" THEN {}
                 ELSE (IF Launched THEN Comment ELSE barred)
                         \cap {c \in Comment : Forbidden(run.job, c)'}
    /\ doubtful' = ((doubtful \ PutRight) \cup Told) \cap alive'
    /\ unverified' = IF Verified THEN unverified \ {j0}
                     ELSE IF run.pc = "work" /\ run'.todo # run.todo /\ ~job[j0].dry
                          THEN unverified \cup {j0} ELSE unverified
    /\ resumed' = IF Launched /\ job[run'.job].status = "paused"
                  THEN resumed \cup {run'.job} ELSE resumed
    /\ overlap' = \/ overlap
                  \/ /\ run'.pc # "idle" /\ test'.pc # "idle"
                     /\ item'[run'.job][test'.c] # "none"

Next == Step /\ Watch

Spec == Init /\ [][Next]_vars

(***************************************************************************)
(* Properties                                                              *)
(***************************************************************************)
Totals(j) == <<Counts(j, "succeeded"), Counts(j, "failed"), Counts(j, "skipped")>>

TypeOK ==
    /\ class \in [Comment -> Classes]
    /\ status \in [Comment -> {"active", "deleted", "failed"}]
    /\ alive \in SUBSET Comment /\ owner \in BOOLEAN
    /\ \A j \in Job :
          /\ job[j].status \in Active \cup {"absent", "paused", "completed", "failed", "cancelled"}
          /\ job[j].done \in 0..Cardinality(Comment)
          /\ item[j] \in [Comment -> {"none", "pending", "succeeded", "failed", "skipped"}]
          /\ backup[j] \in SUBSET Comment
    /\ run.pc \in {"idle", "start", "work", "verify", "total", "finish"}
    /\ run.job \in Job \cup {NoJob}
    /\ run.todo \cup Unsaved \subseteq Comment
    /\ \A r \in Request : req[r].pc \in {"idle", "lock", "backup"}
    /\ lock \in Request \cup {NoRequest}
    /\ test.pc \in {"idle", "record"}

\* A comment that was protected, deleted or not approved when the task of a job
\* was launched, and has been ever since, is not asked for by it, however long
\* the job was paused (_filter_protected, jobs.py:859-861).
BarredLeftAlone == barred \cap Unsaved = {}

\* A real run asks only for comments whose backup was made before the job was, however
\* often it is resumed (jobs.py:345-356, with backup_before_delete on, its default).
AskedIsBackedUp ==
    run.pc # "idle" /\ ~job[run.job].dry => run.todo \cup Unsaved \subseteq backup[run.job]

\* A comment recorded as deleted is gone from the blog, dry runs, trial deletions, retries
\* and lost answers included, unless the blog has accepted a request for it without
\* removing it (deleter.py:377-378), or a verification that did not read everything has
\* taken it for gone; a verification of everything puts the comments of its job right.
DeletedIsGone ==
    \A c \in Comment : status[c] = "deleted" /\ c \in alive => c \in doubtful

\* A job that reached the end of its items says so in its totals, over all its
\* runs; a completed one has nothing left (_finalize_delete, jobs.py:936-937).
SettledTotals ==
    \A j \in Job :
        /\ job[j].status \in {"completed", "cancelled"} =>
              /\ <<job[j].succeeded, job[j].failed, job[j].skipped>> = Totals(j)
              /\ job[j].done = job[j].succeeded + job[j].failed + job[j].skipped
        /\ job[j].status = "completed" => Items(j, "pending") = {}

\* The verification of a completed job was begun after its last request; jobs.py:791-793
\* promises it for a run whose circuit opened when the job is resumed.
CompletedIsVerified == \A j \in Job : job[j].status = "completed" => j \notin unverified

\* A job that completes in its first run leaves its items as the blog is, failures and
\* successes, whatever the answers said and even if all of them failed (jobs.py:751-757):
\* as long as the verification could read and write everything, and no trial deletion
\* has met its comments.
FirstRunEndsTrue ==
    [][\A j \in Job :
          /\ job'[j].status = "completed" /\ job[j].status # "completed"
          /\ ~job[j].dry /\ ~run.unread /\ j \notin resumed /\ ~overlap
          => Items(j, "succeeded") \cap alive = {} /\ Items(j, "failed") \subseteq alive]_vars

\* What is rightly recorded as deleted stays so, as long as no trial deletion meets a
\* comment that a job has in hand (settings.py:145-146): only a comment that is still
\* there is set back (deleter.py:429-445).
DeletedStays ==
    [][\A c \in Comment :
          status[c] = "deleted" /\ c \notin alive /\ ~overlap' => status'[c] = "deleted"]_vars

Promise == INSTANCE JobPromise
    WITH state <- [j \in Job |-> job[j].status],
         at_work <- IF run.pc = "idle" THEN {} ELSE {run.job}

\* The jobs of this module keep the promise that JobLifecycle keeps: none is made or
\* resumed while another is pending or running, whatever crashes and retries come
\* between the check and the row (jobs.py:284-307, 450-478).
KeepsPromise == Promise!PromiseSpec
=============================================================================
