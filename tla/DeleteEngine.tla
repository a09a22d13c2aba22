---------------------------- MODULE DeleteEngine ----------------------------
(***************************************************************************)
(* One run of DeletionService.run (src/app/services/deleter.py): workers   *)
(* take comments from a queue and ask the blog to delete them through      *)
(* TistoryClient._request; one writer collects the outcomes and stores     *)
(* them in batches; a circuit breaker, a cancel event and a failing        *)
(* database stop the run early.                                            *)
(*                                                                         *)
(* A step of the model is the code between two suspension points of the    *)
(* asyncio task that runs it, or a part of it.                             *)
(***************************************************************************)
EXTENDS Integers, Sequences, FiniteSets

CONSTANTS
    Comment,      \* the comment ids handed to run
    Worker,       \* the worker tasks; as many as the job's concurrency
    Replies,      \* Replies[c]: comments the blog removes together with c
    BatchSize,    \* _FLUSH_BATCH_SIZE
    FlushRetries, \* _FLUSH_RETRIES
    MaxRetries,   \* max_retries of the client
    Threshold,    \* threshold of the circuit breaker
    MaxFaults,    \* bound: how often a storing step may fail
    NoComment     \* the comment in the hand of a worker that holds none

ASSUME EngineAssumption ==
    /\ IsFiniteSet(Comment) /\ IsFiniteSet(Worker)
    /\ Worker # {}
    /\ NoComment \notin Comment
    /\ Replies \in [Comment -> SUBSET Comment]
    /\ BatchSize \in Nat \ {0}
    /\ FlushRetries \in Nat \ {0}
    /\ MaxRetries \in Nat
    /\ Threshold \in Nat \ {0}
    /\ MaxFaults \in Nat

VARIABLES
    mode,       \* "live", "dry" (dry_run) or "nocookie" (no session cookie)
    workQueue,  \* work_queue
    resultQueue,\* result_queue: outcomes and the sentinel
    worker,     \* per worker: where it is, its comment, attempt and answer
    breaker,    \* CircuitBreaker
    summary,    \* DeleteSummary
    writer,     \* the writer task: where it is, its buffer and flush attempt
    run,        \* where the coroutine run itself is
    cancelEvent,\* cancel_event
    item,       \* job_items.status in the database
    status,     \* comments.status in the database
    jobDone,    \* jobs.done in the database
    standing,   \* the comments the blog has neither removed nor, for them or for what they
                \* reply to, confirmed to have removed (deleter.py:377-378: the verification
                \* may find one that it confirmed)
    faults,     \* storing steps that have failed so far
    hist        \* observations that the properties are about

engineVars == <<mode, workQueue, resultQueue, worker, breaker, summary, writer,
                run, cancelEvent, item, status, jobDone, standing, faults, hist>>

WorkerState == {"take", "token", "wire", "answered", "backoff", "done"}
Answer      == {"none", "ok", "gone", "refused", "retryable"}
WriterState == {"get", "flush", "progress", "delay", "exit"}
RunState    == {"gather", "drain", "drainKilled", "done", "killed"}

Outcome  == [comment : Comment, success : BOOLEAN]
Sentinel == [sentinel |-> TRUE]

(***************************************************************************)
(* Derived values                                                          *)
(***************************************************************************)
\* Plausible bug: the workers do not look at aborted.
ShouldStopOnCircuit == summary.circuitOpen

ShouldStop == summary.circuitOpen \/ summary.aborted

Recorded == {c \in Comment : item[c] # "pending"}

Elements(s) == {s[i] : i \in 1..Len(s)}

Results == Elements(resultQueue) \ {Sentinel}

Buffered == {o.comment : o \in Elements(writer.buffer)}

InHand == {worker[w].comment : w \in Worker} \ {NoComment}

Succeeded(outcomes) == {o.comment : o \in {x \in Elements(outcomes) : x.success}}
Failed(outcomes)    == {o.comment : o \in {x \in Elements(outcomes) : ~x.success}}

(***************************************************************************)
(* Initial state: the queue is filled and the tasks are created.           *)
(***************************************************************************)
IdleWorker == [pc |-> "take", comment |-> NoComment, attempt |-> 0, answer |-> "none"]

Orders == {q \in [1..Cardinality(Comment) -> Comment] : Elements(q) = Comment}

Init ==
    /\ mode \in {"live", "dry", "nocookie"}
    /\ workQueue \in Orders
    /\ resultQueue = <<>>
    /\ worker = [w \in Worker |-> IdleWorker]
    /\ breaker = [failures |-> 0, open |-> FALSE]
    /\ summary = [succeeded |-> 0, failed |-> 0, circuitOpen |-> FALSE,
                  aborted |-> FALSE, cancelled |-> FALSE]
    /\ writer = [pc |-> "get", buffer |-> <<>>, attempt |-> 1, final |-> FALSE]
    /\ run = "gather"
    /\ cancelEvent = FALSE
    /\ item = [c \in Comment |-> "pending"]
    /\ status = [c \in Comment |-> "active"]
    /\ jobDone = 0
    /\ standing = Comment
    /\ faults = 0
    /\ hist = [answered |-> {}, refusals |-> 0, sentAfterOpen |-> 0,
               afterAbort |-> [w \in Worker |-> 0], writerKilled |-> FALSE]

(***************************************************************************)
(* Workers                                                                 *)
(***************************************************************************)
storeVars == <<writer, run, cancelEvent, item, status, jobDone, faults>>

WorkerExit(w) == worker' = [worker EXCEPT ![w] = [IdleWorker EXCEPT !.pc = "done"]]

\* _record_outcome / CircuitBreaker.record_failure: the state after an outcome.
BreakerAfter(success) ==
    IF success
    THEN [breaker EXCEPT !.failures = 0]
    ELSE [failures |-> breaker.failures + 1,
          open     |-> breaker.open \/ breaker.failures + 1 >= Threshold]

\* The outcome of comment c goes to the writer, then to the breaker; a worker
\* whose failure finds the circuit open ends.
Deliver(w, c, success) ==
    /\ resultQueue' = Append(resultQueue, [comment |-> c, success |-> success])
    /\ breaker' = BreakerAfter(success)
    /\ LET stop == ~success /\ breaker'.open IN
       /\ summary' = [summary EXCEPT !.circuitOpen = @ \/ stop]
       /\ worker' = [worker EXCEPT ![w] =
                       [IdleWorker EXCEPT !.pc = IF stop THEN "done" ELSE "take"]]
    /\ hist' = [hist EXCEPT
                  !.answered = @ \cup {c},
                  !.refusals = IF success THEN @ ELSE @ + 1,
                  !.afterAbort[w] = IF summary.aborted THEN @ + 1 ELSE @]

\* work_queue.get_nowait raises QueueEmpty.
QueueEmpty(w) ==
    /\ worker[w].pc = "take"
    /\ workQueue = <<>>
    /\ WorkerExit(w)
    /\ UNCHANGED <<mode, workQueue, resultQueue, breaker, summary, standing, hist, storeVars>>

\* A comment is taken but the run is being stopped: its item stays pending.
TakeStopped(w) ==
    /\ worker[w].pc = "take"
    /\ workQueue # <<>>
    /\ cancelEvent \/ ShouldStop
    /\ workQueue' = Tail(workQueue)
    /\ WorkerExit(w)
    /\ UNCHANGED <<mode, resultQueue, breaker, summary, standing, hist, storeVars>>

\* ensure_closed raises CircuitOpenError: the item stays pending.
CircuitOpen(w) ==
    /\ summary' = [summary EXCEPT !.circuitOpen = TRUE]
    /\ WorkerExit(w)

\* delete_comment is called: a dry run and a client without cookies answer
\* at once, otherwise a token is waited for. The first ensure_closed cannot
\* raise: the step that opens the breaker also sets circuit_open, which has
\* just been found unset (invariant OpenNeedsFailures).
Take(w) ==
    /\ worker[w].pc = "take"
    /\ workQueue # <<>>
    /\ ~cancelEvent /\ ~ShouldStop
    /\ workQueue' = Tail(workQueue)
    /\ \/ /\ mode # "live"
          /\ Deliver(w, Head(workQueue), mode = "dry")
       \/ /\ mode = "live"
          /\ worker' = [worker EXCEPT ![w] = [pc |-> "token", comment |-> Head(workQueue),
                                              attempt |-> 0, answer |-> "none"]]
          /\ UNCHANGED <<resultQueue, breaker, summary, hist>>
    /\ UNCHANGED <<mode, standing, storeVars>>

\* TokenBucket.acquire returns and the request goes out. The breaker was
\* asked before the wait for the token, not after it.
Send(w) ==
    /\ worker[w].pc = "token"
    /\ worker' = [worker EXCEPT ![w].pc = "wire"]
    /\ hist' = [hist EXCEPT !.sentAfterOpen = IF breaker.open THEN @ + 1 ELSE @]
    /\ UNCHANGED <<mode, workQueue, resultQueue, breaker, summary, standing, storeVars>>

\* What the blog still has by its own account after a deletion of the comments in S.
Without(S) == standing \ (S \cup UNION {Replies[c] : c \in S})

\* The blog receives the request. It deletes the comment and its replies, or
\* refuses, or fails; the answer to a deletion may still be lost on the way.
Blog(w) ==
    /\ worker[w].pc = "wire"
    /\ LET c == worker[w].comment IN
       \E a \in Answer \ {"none"} :
          /\ a = "ok"   => c \in standing
          /\ a = "gone" => c \notin standing
          /\ worker' = [worker EXCEPT ![w].pc = "answered", ![w].answer = a]
          /\ \/ a \in {"ok", "retryable"} /\ standing' = Without({c})
             \/ a # "ok" /\ UNCHANGED standing
    /\ UNCHANGED <<mode, workQueue, resultQueue, breaker, summary, hist, storeVars>>

\* The answer reaches the worker: it is an outcome, or a further attempt is due.
Interpret(w) ==
    /\ worker[w].pc = "answered"
    /\ \/ /\ worker[w].answer # "retryable"
          /\ Deliver(w, worker[w].comment, worker[w].answer \in {"ok", "gone"})
       \/ /\ worker[w].answer = "retryable" /\ worker[w].attempt >= MaxRetries
          /\ Deliver(w, worker[w].comment, FALSE)
       \/ /\ worker[w].answer = "retryable" /\ worker[w].attempt < MaxRetries
          /\ worker' = [worker EXCEPT ![w].pc = "backoff", ![w].answer = "none"]
          /\ UNCHANGED <<resultQueue, breaker, summary, hist>>
    /\ UNCHANGED <<mode, workQueue, standing, storeVars>>

\* Plausible bug: only the first attempt asks the circuit breaker.
BackoffUnchecked(w) ==
    /\ worker[w].pc = "backoff"
    /\ \/ /\ cancelEvent
          /\ Deliver(w, worker[w].comment, FALSE)
       \/ /\ ~cancelEvent
          /\ worker' = [worker EXCEPT ![w].pc = "token", ![w].attempt = @ + 1]
          /\ UNCHANGED <<resultQueue, breaker, summary, hist>>
    /\ UNCHANGED <<mode, workQueue, standing, storeVars>>

\* _sleep_or_stop: the cancel event ends the wait and the remaining attempts.
Backoff(w) ==
    /\ worker[w].pc = "backoff"
    /\ \/ /\ cancelEvent
          /\ Deliver(w, worker[w].comment, FALSE)
       \/ /\ ~cancelEvent /\ breaker.open
          /\ CircuitOpen(w)
          /\ UNCHANGED <<resultQueue, breaker, hist>>
       \/ /\ ~cancelEvent /\ ~breaker.open
          /\ worker' = [worker EXCEPT ![w].pc = "token", ![w].attempt = @ + 1]
          /\ UNCHANGED <<resultQueue, breaker, summary, hist>>
    /\ UNCHANGED <<mode, workQueue, standing, storeVars>>

WorkerStep(w) ==
    \/ QueueEmpty(w) \/ TakeStopped(w) \/ Take(w) \/ Send(w)
    \/ Blog(w) \/ Interpret(w) \/ Backoff(w)

(***************************************************************************)
(* Writer                                                                  *)
(***************************************************************************)
workVars == <<mode, workQueue, worker, breaker, run, cancelEvent, standing, hist>>
dbVars   == <<item, status, jobDone>>

\* An outcome or the sentinel arrives before the timeout.
WriterGet ==
    /\ writer.pc = "get"
    /\ resultQueue # <<>>
    /\ resultQueue' = Tail(resultQueue)
    /\ LET head == Head(resultQueue)
           grown == Append(writer.buffer, head) IN
       \/ /\ head = Sentinel
          /\ writer' = [writer EXCEPT !.final = TRUE,
                          !.pc = IF writer.buffer = <<>> THEN "exit" ELSE "flush"]
       \/ /\ head # Sentinel
          /\ writer' = [writer EXCEPT !.buffer = grown,
                          !.pc = IF Len(grown) >= BatchSize THEN "flush" ELSE "get"]
    /\ UNCHANGED <<workVars, dbVars, summary, faults>>

\* Nothing arrives for _FLUSH_INTERVAL seconds.
WriterTimeout ==
    /\ writer.pc = "get"
    /\ resultQueue = <<>>
    /\ writer.buffer # <<>>
    /\ writer' = [writer EXCEPT !.pc = "flush"]
    /\ UNCHANGED <<workVars, dbVars, resultQueue, summary, faults>>

Counted ==
    [summary EXCEPT !.succeeded = @ + Cardinality(Succeeded(writer.buffer)),
                    !.failed    = @ + Cardinality(Failed(writer.buffer))]

\* The transaction of _flush commits.
FlushCommit ==
    /\ writer.pc = "flush"
    /\ summary' = Counted
    /\ item' = [c \in Comment |->
                  IF c \in Succeeded(writer.buffer) THEN "succeeded"
                  ELSE IF c \in Failed(writer.buffer) THEN "failed" ELSE item[c]]
    /\ status' = [c \in Comment |->
                    IF c \in Succeeded(writer.buffer) /\ mode # "dry" THEN "deleted"
                    ELSE IF c \in Failed(writer.buffer) THEN "failed" ELSE status[c]]
    /\ jobDone' = Counted.succeeded + Counted.failed
    /\ writer' = [writer EXCEPT !.pc = "progress"]
    /\ UNCHANGED <<workVars, resultQueue, faults>>

\* _flush_with_retry after an exception: the workers are told to stop first,
\* then the same batch is tried again, or the writer ends and the batch is lost.
AfterFailure(counters) ==
    /\ faults < MaxFaults
    /\ faults' = faults + 1
    /\ summary' = [counters EXCEPT !.aborted = TRUE]
    /\ writer' = [writer EXCEPT !.pc = IF writer.attempt >= FlushRetries
                                       THEN "exit" ELSE "delay"]

\* The transaction fails: before the counters are raised, or at the commit.
FlushFail ==
    /\ writer.pc = "flush"
    /\ AfterFailure(summary) \/ AfterFailure(Counted)
    /\ UNCHANGED <<workVars, dbVars, resultQueue>>

\* Plausible bug: the buffer is not cleared after a flush.
FlushDoneUncleared == [writer EXCEPT !.pc = IF writer.final THEN "exit" ELSE "get",
                                     !.attempt = 1]

FlushDone == [writer EXCEPT !.pc = IF writer.final THEN "exit" ELSE "get",
                            !.buffer = <<>>, !.attempt = 1]

\* on_progress returns: the flush is complete.
ProgressOk ==
    /\ writer.pc = "progress"
    /\ writer' = FlushDone
    /\ UNCHANGED <<workVars, dbVars, resultQueue, summary, faults>>

\* on_progress reads the database too; its exception counts as a failed flush.
ProgressFail ==
    /\ writer.pc = "progress"
    /\ AfterFailure(summary)
    /\ UNCHANGED <<workVars, dbVars, resultQueue>>

\* asyncio.sleep(_FLUSH_RETRY_DELAY), then the next attempt.
RetryFlush ==
    /\ writer.pc = "delay"
    /\ writer' = [writer EXCEPT !.pc = "flush", !.attempt = @ + 1]
    /\ UNCHANGED <<workVars, dbVars, resultQueue, summary, faults>>

WriterStep ==
    \/ WriterGet \/ WriterTimeout \/ FlushCommit \/ FlushFail
    \/ ProgressOk \/ ProgressFail \/ RetryFlush

(***************************************************************************)
(* run, cancellation by the user, and by the server's shutdown             *)
(***************************************************************************)
AllWorkersDone == \A w \in Worker : worker[w].pc = "done"

\* Plausible bug: the sentinel does not wait for the workers.
PutSentinelEarly ==
    /\ run = "gather"
    /\ run' = "drain"
    /\ resultQueue' = Append(resultQueue, Sentinel)
    /\ UNCHANGED <<mode, workQueue, worker, breaker, summary, writer, cancelEvent,
                   dbVars, standing, faults, hist>>

\* Plausible bug: the sentinel is forgotten.
PutNoSentinel ==
    /\ run = "gather"
    /\ AllWorkersDone
    /\ run' = "drain"
    /\ UNCHANGED <<mode, workQueue, resultQueue, worker, breaker, summary, writer, cancelEvent,
                   dbVars, standing, faults, hist>>

\* gather returns, or raises CancelledError: the sentinel follows the outcomes.
PutSentinel ==
    /\ run = "gather"
    /\ AllWorkersDone
    /\ run' = "drain"
    /\ resultQueue' = Append(resultQueue, Sentinel)
    /\ UNCHANGED <<mode, workQueue, worker, breaker, summary, writer, cancelEvent,
                   dbVars, standing, faults, hist>>

\* Plausible bug: run returns without waiting for the writer.
RunReturnUnwritten ==
    /\ run = "drain"
    /\ run' = "done"
    /\ summary' = [summary EXCEPT !.cancelled = cancelEvent]
    /\ UNCHANGED <<mode, workQueue, resultQueue, worker, breaker, writer, cancelEvent,
                   dbVars, standing, faults, hist>>

\* The writer has ended and run returns the summary.
RunReturn ==
    /\ run = "drain"
    /\ writer.pc = "exit"
    /\ run' = "done"
    /\ summary' = [summary EXCEPT !.cancelled = cancelEvent]
    /\ UNCHANGED <<mode, workQueue, resultQueue, worker, breaker, writer, cancelEvent,
                   dbVars, standing, faults, hist>>

\* The event of JobManager.cancel or shutdown is set.
Cancel ==
    /\ run \in {"gather", "drain"}
    /\ ~cancelEvent
    /\ cancelEvent' = TRUE
    /\ UNCHANGED <<mode, workQueue, resultQueue, worker, breaker, summary, writer, run,
                   dbVars, standing, faults, hist>>

\* JobManager.shutdown cancels the task once its grace has expired, while the
\* workers run: each of them ends where it waits, the sentinel is still sent.
\* A request on the wire may have reached the blog or not.
KillWorkers ==
    /\ run = "gather"
    /\ cancelEvent
    /\ \E S \in SUBSET {worker[w].comment : w \in {v \in Worker : worker[v].pc = "wire"}} :
          standing' = Without(S)
    /\ worker' = [w \in Worker |-> [IdleWorker EXCEPT !.pc = "done"]]
    /\ resultQueue' = Append(resultQueue, Sentinel)
    /\ run' = "drainKilled"
    /\ UNCHANGED <<mode, workQueue, breaker, summary, writer, cancelEvent,
                   dbVars, faults, hist>>

\* The CancelledError goes on once the writer has ended.
KilledReturn ==
    /\ run = "drainKilled"
    /\ writer.pc = "exit"
    /\ run' = "killed"
    /\ UNCHANGED <<mode, workQueue, resultQueue, worker, breaker, summary, writer,
                   cancelEvent, dbVars, standing, faults, hist>>

\* The task is cancelled while it awaits the writer, which is cancelled with
\* it: an open transaction is rolled back and what is not stored is lost.
KillWriter ==
    /\ run = "drain"
    /\ cancelEvent
    /\ writer.pc # "exit"
    /\ writer' = [writer EXCEPT !.pc = "exit"]
    /\ run' = "killed"
    /\ hist' = [hist EXCEPT !.writerKilled = TRUE]
    /\ UNCHANGED <<mode, workQueue, resultQueue, worker, breaker, summary, cancelEvent,
                   dbVars, standing, faults>>

RunStep == PutSentinel \/ RunReturn \/ KilledReturn

Next ==
    \/ \E w \in Worker : WorkerStep(w)
    \/ WriterStep
    \/ RunStep
    \/ Cancel \/ KillWorkers \/ KillWriter

Spec == Init /\ [][Next]_engineVars

\* The event loop goes on while any task can, and a request ends with an answer or with
\* the timeout of the HTTP client; no order among the tasks is assumed.
TaskStep == (\E w \in Worker : WorkerStep(w)) \/ WriterStep \/ RunStep

Fairness == WF_engineVars(TaskStep)

FairSpec == Spec /\ Fairness

(***************************************************************************)
(* Properties                                                              *)
(***************************************************************************)
\* Types of the engine's state.
TypeOK ==
    /\ mode \in {"live", "dry", "nocookie"}
    /\ workQueue \in Seq(Comment)
    /\ resultQueue \in Seq(Outcome \cup {Sentinel})
    /\ worker \in [Worker -> [pc : WorkerState, comment : Comment \cup {NoComment},
                               attempt : 0..MaxRetries, answer : Answer]]
    /\ breaker \in [failures : Nat, open : BOOLEAN]
    /\ summary \in [succeeded : Nat, failed : Nat, circuitOpen : BOOLEAN,
                    aborted : BOOLEAN, cancelled : BOOLEAN]
    /\ writer \in [pc : WriterState, buffer : Seq(Outcome), attempt : 1..FlushRetries,
                   final : BOOLEAN]
    /\ run \in RunState
    /\ cancelEvent \in BOOLEAN
    /\ item \in [Comment -> {"pending", "succeeded", "failed"}]
    /\ status \in [Comment -> {"active", "deleted", "failed"}]
    /\ jobDone \in Nat
    /\ standing \in SUBSET Comment
    /\ faults \in 0..MaxFaults

\* A comment is in one place only: still queued, in one worker's hand, an
\* outcome on its way, or stored; a batch that is being stored again is the
\* only outcome that may be stored already. So no comment is asked for by two
\* workers and no outcome is stored from two batches.
OnePlace ==
    LET queued  == Elements(workQueue)
        waiting == {o.comment : o \in Results} IN
    /\ queued \cap (InHand \cup waiting \cup Buffered \cup Recorded) = {}
    /\ InHand \cap (waiting \cup Buffered \cup Recorded) = {}
    /\ waiting \cap (Buffered \cup Recorded) = {}
    /\ \A v, w \in Worker : v # w /\ worker[v].comment # NoComment
                           => worker[v].comment # worker[w].comment

\* A comment is marked deleted, and an item of a real run succeeded, only if the blog
\* has removed the comment or confirmed it; whether it told the truth is a matter of
\* the verification.
RecordedIsConfirmed ==
    \A c \in Comment : /\ status[c] = "deleted" => c \notin standing
                       /\ item[c] = "succeeded" /\ mode # "dry" => c \notin standing

\* When the run has ended every outcome a worker produced is stored, unless
\* storing failed (aborted) or the shutdown took the writer away. This is what
\* the order of gather, sentinel and writer is for (deleter.py:153-158).
NoOutcomeLost ==
    run = "done" \/ (run = "killed" /\ ~hist.writerKilled)
        => summary.aborted \/ hist.answered \subseteq Recorded

\* A run that was neither cancelled nor stopped leaves no item pending, so that
\* _finalize_delete calls the job completed only when every item was handled.
NothingLeftBehind ==
    run = "done" /\ ~summary.cancelled /\ ~ShouldStop => Recorded = Comment

\* Once storing has failed each worker finishes at most the comment in its
\* hand: the number of deletions nobody records is bounded (deleter.py:284-289).
AbortStopsWorkers == \A w \in Worker : hist.afterAbort[w] <= 1

\* Once the circuit is open at most one request per other worker still goes
\* out, the one that had passed ensure_closed before its wait for a token.
OpenStopsRequests == hist.sentAfterOpen < Cardinality(Worker)

\* Failures are counted per comment and not per request: the circuit opens
\* only after Threshold comments have failed (client.py:427-429), and the run
\* knows of it from that step on.
OpenNeedsFailures ==
    breaker.open => hist.refusals >= Threshold /\ summary.circuitOpen

\* The progress in the jobs row never falls short of the stored outcomes, and
\* is exact as long as no batch had to be stored twice.
ProgressExact ==
    /\ jobDone >= Cardinality(Recorded)
    /\ ~summary.aborted => jobDone = Cardinality(Recorded)

\* The engine implements DeletePromise: results are recorded once, as the blog told,
\* and before the run ends, and a dry run deletes nothing.
Promise == INSTANCE DeletePromise
    WITH rehearsal <- mode = "dry", gone <- Comment \ standing, record <- item,
         closed <- run \in {"done", "killed"}

KeepsPromise == Promise!PromiseSpec

\* Every run ends, whatever fails and whoever stops.
Termination == <>(run \in {"done", "killed"})

=============================================================================
