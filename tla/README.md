# Verification of tistory-comment-spam-cleaner

TLA+ models of the program under `src/app`, with the TLC runs that check them and
TLAPS proofs about every module. Definitions are
translated from the Python source, not from its documentation; `PROJECT.json`
gives, for each definition, the lines it stands for.

## The system

One Python process: a FastAPI server with asyncio tasks, a SQLite database, and a
Tistory blog behind HTTP. A user collects comments of posts, marks or scores spam
and deletes it; jobs do the long work and report progress.

| Part | State it keeps | Operations | Works with |
|---|---|---|---|
| `services/jobs.py` JobManager | `jobs` rows, `_tasks`, `_cancels`, `_finalizers`, `_creation_lock` | create (delete, collect, discover), resume, retry_failed, cancel, shutdown, recover_on_startup, the run methods | everything below; called by the API and the monitor |
| `services/deleter.py` DeletionService | two queues, `DeleteSummary`, the writer's buffer | `run`, `verify` | client, repositories; progress callbacks of the job |
| `infrastructure/tistory/client.py`, `ratelimit.py` | token bucket, circuit breaker | delete, read a page, retries | the blog |
| `services/collector.py`, `parser.py` | the loop's cursor | read a post, store it; many posts under a semaphore | client, repositories |
| ProgressHub in `jobs.py`, `api/routes/jobs.py` | a queue per subscriber | publish, subscribe, stream | browser, monitor |
| `services/monitor.py` | its loop task, last run | start, stop, cycle | creates and awaits collections |
| `services/spam_rules.py`, `config/rules.py` | rules, verdicts in `comments` | evaluate, rescore | runs beside jobs |
| `services/backup.py` | export files | export, list, restore data | before a deletion |
| `services/session_manager.py`, `tistory/auth.py`, `security/crypto.py` | cookies, last diagnosis | set, clear, diagnose | client |
| `config/targets.py`, `api/routes/targets.py` | `targets.yaml` and rows | add, remove, sync | discovery |
| `infrastructure/db` | the tables | transactions | all |
| `api`, `web`, `server.py`, settings, logging | | validation, presentation, start and stop | all |

What is hard here: a deletion cannot be undone, so every outcome has to reach the
database although workers, writer, cancel, circuit breaker, a failing database and a
shutdown interleave; a job's status lives in the database while its task lives
in memory, so that any `await` between the two can be hit by a crash, a fault or
another request; the blog pages by seconds while comments come and go. What makes each part
correct is listed under its module below. `PROJECT.json` lists every hazard at its line.

## Modules

Every run and every proof is about these modules; `MC...` modules only give their
constants values, `...Proofs` modules hold the theorems. Operators whose comment begins
with "Plausible bug" belong to no behaviour: they are the wrong variants that the
properties were tried against.

| Module | Code | Proved in |
|---|---|---|
| `DeleteEngine`, refining `DeletePromise` | `services/deleter.py` (`run`), `client.delete_comment`, `ratelimit.CircuitBreaker` | `DeleteEngineProofs` |
| `DeleteVerify` | `jobs._verify_after_delete`, `DeletionService.verify` | `DeleteVerifyProofs` |
| `DeleteJob`, refining `JobPromise` | the deletion in `services/jobs.py`: targets, protection, totals | `DeleteJobProofs` |
| `JobLifecycle`, refining `JobPromise` | `JobManager`: requests, tasks, finalizers, start and stop | `JobLifecycleProofs` |
| `CommentPaging` | `CollectorService._run_pages`, `client.next_comment_cursor` | `CommentPagingProofs` |
| `CollectStream` | `collect_many`, `_run_collect`, `ProgressHub`, `stream` | `CollectStreamProofs` |
| `SpamRules`, `Rescore` | `config/rules.py`, `services/spam_rules.py`, comments in `repositories.py` | `RescoreProofs` |
| `BackupFiles` | `services/backup.py` (`export`) | `StoresProofs` |
| `TargetsFile` | `config/targets.py`, `api/routes/targets.py`, targets in `repositories.py` | `StoresProofs` |
| `SessionAuth` | `services/session_manager.py`, `tistory/auth.py`, `diagnose_session` | `StoresProofs` |

How a deletion is composed. Two abstract specifications stand where the modules meet.
`JobPromise` is what the deletions look like from outside: a status each, and which one is at
work. `JobLifecycle` implements it with requests, lock, tasks and finalizers, whose work
is abstract; `DeleteJob` implements it with the work opened (targets, backup, protection,
batches, totals) and the tasks abstract. So neither module lets a deletion open, begin or end where
the other's abstraction would not. `DeletePromise` is what a run does to blog
and records. `DeleteEngine` implements it with workers, writer and breaker, and the run inside
`DeleteJob` makes only steps of it until it ends (`WorkIsHonest`). `DeleteVerify` opens the verification
after the run. A collection is opened the same way: `CollectStream` runs the posts,
`CommentPaging` reads one of them.

### DeleteEngine, refining DeletePromise

`DeletionService.run` with `_worker`, `_record_outcome`, `_write_results`, `_flush`,
`_flush_with_retry`, and below it `TistoryClient.delete_comment` and `_request` and the
`CircuitBreaker`.

- `worker[w].pc` is where a worker is: taking from the queue (`take`), waiting for a
  token (`token`), a request on its way (`wire`), an answer to interpret
  (`answered`), a pause before the next attempt (`backoff`), `done`. `Send` ends the wait for
  a token; the breaker was asked before it, in `Take` or `Backoff`, as in the code.
- `Blog` answers one request: it deletes the comment with its replies and
  answers, or deletes it and the answer is lost, or refuses, or fails in a way that is retried.
- `writer.pc`: waiting for outcomes (`get`), one attempt to store (`flush`), the callback after
  the commit (`progress`), the delay before another attempt (`delay`), ended (`exit`).
  `FlushFail` and `ProgressFail` are the two places where an attempt raises: before and
  after the commit.
- `run`: waiting for the workers (`gather`), then for the writer (`drain`), with the
  sentinel put in `finally`; the `Killed` states are those of a task that the shutdown cancels.
- `mode` covers `dry_run` and a missing session cookie.

Steps are finer than the code's segments between suspension points where that
costs nothing, so the model has the code's interleavings and a few more.
`standing` are the comments the blog has neither removed nor confirmed to have removed: an accepted
request may not have been carried out (`deleter.py:377-378`), of which a run knows nothing. To find that out is the
matter of the verification (`DeleteVerify`, `DeleteJob`).
`DeletePromise` knows only what the blog has removed, or said to have removed (`gone`), and what is recorded: results
are recorded once, a success only for a comment that is `gone` (unless the run is a rehearsal), and
nothing after the run has ended. `Promise == INSTANCE DeletePromise WITH ...` is the
mapping; `KeepsPromise` is its specification.

### DeleteVerify

`_verify_after_delete` and `DeletionService.verify`: one step per post that is read,
then two transactions. A reading may fail (the post becomes `unverified`), may be
cut short at a cursor that does not move (`cut`, which the code does not report), and
comments may vanish in between. Any other exception ends the verification. The item of a comment
and the comment itself are rows of their own and start with any two statuses: another job, a retry or a trial, may have
written the comment since.

### DeleteJob, refining JobPromise

What a deletion may touch and what it reports. That one deletion is at work at a time is not assumed: it
follows from the lock and from the checks of `Resolve` and `Resume`.

- `Resolve`, `BackupFails`, `Create` are `_create_delete_job_locked` around its one
  slow step, the backup; `RetryFailed` is the reading that `retry_failed` does before it
  waits for the lock, so that its list may be old when it gets it. `Resume` is `resume`.
- `Filter` is `_filter_protected`, `AskBlog`, `Store`, `OpenCircuit`, `Abort`, `EndWork` the run of the
  engine by its promise, `Verify`, `Total`, `Finish` the rest of `_run_delete`
  with `_finalize_delete`, and `RunRaises` its `except` branch.
- Beside it: rescorings and collections that change what a comment is, trial
  deletions of the settings page, diagnoses, a user's cancel, a crash.
- A comment has a class, `protected` (whitelisted or the owner's), `spam` or
  `other`, its status in `comments`, and whether the blog still has it.
- `AskBlog` takes the answer for what it is: an accepted comment may still be there, and a removal may be
  answered with an error. Each wrong answer is a disturbance.
- `Verify` reads all posts of the job or only some (`run.unread`), corrects in two transactions of which
  the second may fail, or ends without having read anything; the run goes on in each case (`jobs.py:799-804`).
- `backup_before_delete` is on, as by default (`jobs.py:345-356`).

History variables say what the properties need: `barred` (what a run has to leave alone ever
since its launch), `doubtful` (comments the blog still has, although it accepted a request for them or a partial
verification took them for gone; a verification of everything takes the comments of its job out again), `unverified` (jobs with a request
after their last verification was *begun*, whatever it could read), `resumed`, and `overlap` (a trial deletion met a comment of
a running job, where either may overwrite what the other has recorded).

### JobLifecycle, refining JobPromise

`JobManager` around the status of each job. `DeletionState` and `AtWork` map it to `JobPromise`: the status of
the deletions, and those for which a task is past its start.

- `req[r]` is a caller inside `create_*_job` or `resume`: waiting for
  `_creation_lock`, reading the job, in `_ensure_no_running`, before the commit of
  the new row (a backup lies there), before `_mark_running`, in its `_publish`,
  before `_launch`. Collections and discoveries start at `check`, without the lock.
- `task[t]` is the asyncio task of a job with its cancel event; `registered` is
  `_tasks`, `finalizing` is `_finalizers`. The task's work is abstract: it ends with a
  status that the run method of its kind can choose (`Outcomes`), or raises.
- `Shutdown`, `KillTask`, `Stop`, `PauseRunning` are `shutdown` and the end of the lifespan;
  `Crash` ends the process at any moment; `RecoverOnStartup` is the start after either.
- `DatabaseFault` lets the accesses of finishing and publishing fail, `MaxFaults` times.

### CommentPaging

The loop of `CollectorService._run_pages` and the rule `next_comment_cursor`. The blog
answers with the newest `BatchSize` comments older than the cursor, in any order
within a second, or with its newest page whatever the cursor (`ignored` remembers it). Comments
arrive and vanish between any two steps. Stored times are exact for the oldest
comment of a page and truncated to the minute for the others, as
`_with_second_precision` does, because that is what `since` is compared with; `since` is any second.
Ids of comments grow with their times, which names them and loses no behaviour. `max_pages` is left
out: no caller passes it.

### CollectStream

A collection from `_mark_running` to its last publication, and everybody who watches it.

- `stage` is where the task is, `attempt` which of the three places that try to store an
  end it has reached: `_run_collect`, its `except` branch, the finalizer.
- `post[e]`: waiting for the semaphore, being read, then its callback: the
  transaction, the reading of the row in a session of its own, the publication. A post that gets the semaphore after a
  cancel is `skipped`; one that is inside when the cancel comes may still end well. `count` are the
  `nonlocal` counters, `args[e]` what a callback took of them, so that commits of two callbacks may
  land in either order (`reordered`).
- `Publish` puts into the bounded queue of each subscriber, whose oldest entry gives way;
  `latest` is the hub's cache.
- A client subscribes, then reads the present state (`First`), then receives. Clients in `Everything` are on
  the channel of all jobs, which has no end; the others are event streams of this job, or the monitor.

### SpamRules and Rescore

`SpamRules` holds the rule file and the engine as operators: what makes a file valid,
the conditions, the weights, the thresholds, the whitelist, and `EvaluateAll`. A text is a
value, a regular expression the set of texts it finds, a time a number of minutes.
`Rescore` is the table of comments between its writers:
`Load`, `Read` and `Write` are `rescore` (rules, rows, then one transaction per `Chunk`),
a rescoring writes in the order of writing times, in which the table answers equal times in any order.
`Collect` is the upsert of a collection, which keeps a deletion and the mark of the
owner. A deletion looks at a comment once, at the start of a run or trial (`Take`), stores what came of it without
looking again (`Delete`), and lets go (`Release`): a mark of the owner that is collected while a job has the comment in
hand does not stop that job. `taken` are the comments in hand, `owned` (history) those that were known as the
owner's when none had them in hand. `PutRules` and `EditRules` the two ways to change the file.
`ListSummary` and `SelectIds` are the counts and selections of `api/routes/comments.py`.

### BackupFiles, TargetsFile, SessionAuth

Three small stores, each with a few `await`s between a check and its use.

- `BackupFiles`: an export reads its rows (`Fetch`), picks names that do not exist yet
  (`Reserve`), and in a thread opens, fills and closes the JSON and the CSV file, reads both back
  (`Verify`) and removes them after a failure (`Cleanup`). A file knows whose rows it holds and who
  opened it. `raced` is the gap between choosing a name and opening it.
- `TargetsFile`: each change of the table is followed by `SyncList` and `SyncSave`, which list the
  targets of source "manual" and replace the file; `FillList` and `FillStore` are `_fill_missing_titles`, whose upsert
  inserts what was removed after it had listed it (`refilled`), `Discover` is what a
  discovery stores, `Start` reads the file. `disordered` says that two requests overlapped between
  commit and save, that a save was lost, that the server ended before a save, or that the file was edited by hand.
- `SessionAuth`: `Register`, `Clear`, and a diagnosis in three steps (`Load`, `Ask`, `Cache`); a deletion is
  let in by the stored diagnosis (`LetIn`) and builds its client later (`Arm`). A
  diagnosis remembers, as history, the cookies it is about.

They share no state. `MCStores` extends the three and gives each behaviour to one of them
(`focus`), so that one run explores them side by side instead of in product.

## Runs

| Run | Checks | Instance |
|---|---|---|
| `DeleteEngine` | `NoOutcomeLost`: no answer of the blog is lost, unless the writer was killed or storing failed for good. `AbortStopsWorkers`: after an abort a worker finishes what it has in hand and no more. `OpenStopsRequests`: once the circuit is open, only requests that already waited for a token go out, fewer than there are workers. `ProgressExact`: `jobs.done` is never below the recorded results, and equal to them unless the run was aborted. `KeepsPromise`: the engine implements `DeletePromise`. `Termination`: every run ends; with `NoOutcomeLost` every outcome leaves memory | 3 comments (one a reply of another), 2 workers, batch 2, 1 retry, threshold 1, 2 faults, 2 attempts to store |
| `DeleteVerify` | `VerifiedIsTrue`: what was read to its end is recorded right. `WholeCorrectedIsGone`: what is corrected to a success is gone, when all posts could be read, or none | 2 posts of 2 comments |
| `DeleteJob` | `BarredLeftAlone`: what has been protected, deleted or not approved ever since the launch is not asked for. `AskedIsBackedUp`. `DeletedIsGone`: a record that is not true goes back to an answer of the blog, or to a partial verification, that was not. `SettledTotals`: a job that ended reports the totals of all its runs. `FirstRunEndsTrue`: what completes in one run, with a verification that could read and write everything, agrees with the blog, failures and successes, whatever the answers were. `DeletedStays`: what is rightly recorded as deleted is not taken back. `KeepsPromise`: the jobs implement `JobPromise` | 2 comments, 2 jobs, 1 request, 1 disturbance |
| `JobLifecycleSafety` | `OneDeleteAtATime`; `UnfinishedIsRegistered`: cancel, shutdown and resume find every task that is not done; `OnlyOrphansBlock`: a job that refuses others is in somebody's hands, but for two kinds of orphan; without a stop `QuietCancelledByUser`; without faults `TerminalIsFinal`; `KeepsPromise`: the deletions implement `JobPromise` | 2 jobs, 2 callers, 2 tasks, deletions and collections, 1 fault, 1 crash or shutdown |
| `JobLifecycleLive` | `TasksEnd`, `RequestsEnd` | 1 job, 2 callers, 2 tasks, deletions and discoveries, 1 fault, 1 stop |
| `CommentPaging` | `NothingMissed`, `NothingMissedSince`: a reading that ends by itself has every comment that was there all the time, one with `since` those of the whole minutes after it. `ReadingEnds` | 4 comments over 3 seconds, pages of 2, minutes of 2 seconds |
| `CollectStream` | `EndIsHeard`: nobody sleeps past the end, however full the queue. `CompletedCounts`: the counters of several callbacks add up. `NoCacheLeft`: the hub keeps nothing of a job that is over. `SubscribersEnd` | 2 posts, one stream and one page on the channel of all jobs, semaphore 1, queues of 2, 2 faults |
| `Rescore` | `SettledIsCurrent`: a rescoring with the table for itself leaves the verdicts of the present file, across its chunks. `PartNeverWorse`: scores of a part are never higher. `SelectionIsAsCounted`: what the page counts is what it selects. `OwnerNeverDeleted`: a comment known as the owner's before a job had it in hand is never stored as deleted | 3 comments, chunks of 2, 2 requests, 3 files (one invalid), 4 changes, 1 fault |
| `StoresAtRest` | backups: `ReportedIsKept`, `NoHalfBackup`; targets: `FileFollowsTable`, `NothingReturns` (with a restart or a request); session: `DiagnosisIsOfStored`, `DeletesAsOwner` | 3 exports of one second, 2 names, 2 rows (1 known); 2 posts, 2 callers, 6 changes; 3 cookies (1 unsendable), 2 visits, 4 requests, 1 fault |

The type invariants are theorems, as are more invariants that the runs need not repeat (Proofs). Three runs are violated,
each a disagreement with what the repository says (`findings`):

| Run | What happens |
|---|---|
| `VerifyUnreadPost` (`CorrectedIsGone`) | One readable post is enough for the failed comments of an unreadable one to be marked deleted while they are on the blog |
| `DeleteJobUnverified` (`CompletedIsVerified`) | The circuit opens on the last comment of a job, which is paused without a verification; resumed, it has nothing pending, returns early (`jobs.py:723`) and completes without the verification that `jobs.py:791` announces |
| `RefilledTarget` (`RemovedStaysAway`) | A target that is removed while a collection fills in titles (`jobs.py:843`) is inserted again, enabled, by its upsert |

What the conditions in the properties stand for. A property that holds only under a condition names
the case in which the code does something else:

- Paging. A second that holds more comments than a page is stepped over by the cursor (`Sparse`;
  `client.py:78`); a `since` inside a minute misses comments of that minute, whose stored times are
  truncated. A reading that is cut short at a stuck cursor counts as complete in `verify`
  (`cut`; `deleter.py:466`).
- Jobs. A collection takes no lock, so two can both pass `_ensure_no_running`; their upserts do not
  disturb each other. A crash between the commit of a row and its launch leaves a
  PENDING job that refuses every other of its kind; if it is a deletion, `resume` finds the job
  itself in `_ensure_no_running` and refuses, although `is_resumable` (`enums.py:56-59`) includes
  PENDING. A failing publication in `resume` leaves a RUNNING job without a task.
  These are the orphans of `OnlyOrphansBlock`. A shutdown sets the event of a user's cancel,
  so its jobs end as CANCELLED (`stops = 0`). A publication that fails after the final status was
  committed makes the `except` branch rewrite the job to FAILED (`faults = 0`; `jobs.py:769`).
- Progress. A callback that took its counters earlier may commit later, and a completed collection
  then shows fewer posts than it read (`reordered`; `jobs.py:652`).
- Deletion. A trial deletion that meets a comment of a running job may be overwritten by it, and may
  overwrite it (`overlap`). An accepted request may not be carried out, and a verification that could not read everything
  can take what is there for gone (`doubtful`); a job whose verification failed completes all the same.
- Rescoring. A mark of the owner that arrives while a job has the comment in hand comes too late (`owned`). Of two rescorings at once the older rules may win; a rescoring of some posts counts
  duplicates among those posts only and so gives lower scores; `whitelisted_excluded` also counts deleted
  comments when the filter asks for them; a new row is unscored, and not protected by the whitelist of
  the file, until the rescoring at the end of its collection. A missing file means no whitelist.
- Backups. Two exports of one label and second that choose a name at once write into the same
  files, and the clean-up of one removes those of the other (`raced`).
- Targets. Of two overlapping requests the one that listed first may save last; a crash
  between commit and save, or a failed save, leaves an old file that the next start registers again
  (`disordered`). What the titles of a collection put back (`RefilledTarget`) is not in the file until the next change. A
  target that a discovery found first keeps `source="sitemap"` when it is added by hand, and is not
  in the file.
- Session. A diagnosis that is on its way when the cookies are cleared or replaced stores its
  result afterwards; one that fails after new cookies were stored leaves the
  old OWNER, and so does a change of the key (`unsettled`).

### Bounds

- Engine: two workers and three comments give every pair of positions of two workers, a batch that
  fills and one that stays partial, and a reply that vanishes with its parent while
  the other worker holds it. Threshold 1 opens the circuit while the other worker waits or pauses and a comment is
  left (that the counter reaches a larger threshold only by failures in a row is the matter of the
  theorems, which hold for every threshold); one
  retry gives an attempt before and after a lost answer. Two faults with two attempts let
  a flush fail once and recover, or fail for good.
- Lifecycle: two callers and two jobs are enough for every race of two requests. Two task slots let an old
  task wind up while a new one of the same job runs. One stop covers every step before and after
  it, the restart included.
- Deletion job: two comments can take different ways through filter, blog, batch and verification; two
  jobs give a retry of the first and a resumption of either. One disturbance at every point keeps
  the run small; what it has in common with the theorems, they show for any number.
- Paging: four comments on pages of two give three requests, a page border inside a second and a page
  that shrinks between requests. Minutes of two seconds keep a truncated time apart from
  an exact one.
- Stream: two posts under a semaphore of one have one waiting and one inside, and while a callback runs the other
  is read. Queues of two fill before the end does, so that the oldest entry is dropped. Two faults reach
  the `except` branch and the finalizer; a third, at the finalizer too, would leave nobody to tell the
  end (`Lost`).
- Rescoring: three comments in chunks of two have a full chunk and a rest, two of them form the
  counts of one nickname or minute, one is the owner's.
- Stores: three exports on two names exhaust the names; two callers are every pair of overlapping
  requests; three sets of cookies are one that is stored, one that replaces it and one that cannot be sent.
- `MaxFaults`, `MaxStops`, `MaxEvents`, `MaxChanges`, `MaxRequests` and the sizes of the
  sets are the only bounds; no counter of the code is capped otherwise. Symmetry is used only over sets
  whose members are compared and nothing else, and never in a run of a liveness property.

Deadlock is checked in the runs of `JobLifecycle`, where a server always goes on. All the
others do come to rest (an engine or a reading ends, a bound of changes is used up), so
their configurations say `CHECK_DEADLOCK FALSE`; that they do not rest too early is what
`Termination`, `ReadingEnds`, `SubscribersEnd` and the properties about ended runs say.

### Fairness

`DeleteEngine`: weak fairness of all workers, the writer and `run` together: the event loop does not stand still while
one of them can go on, a request ends by its timeout, and waits for tokens and
pauses are finite. Which of them goes on is left open; no task goes on for ever, so none can starve the others.
Nothing is assumed of `Cancel`, of a shutdown or of faults.
`JobLifecycle`: weak fairness of callers, tasks, finalizers, of `pause_all_running` and
of the recovery; strong fairness of taking the lock, because `asyncio.Lock` serves its waiters in order.
Nothing makes a user call, a server stop or crash. `CommentPaging`: weak fairness of the loop.
`CollectStream`: weak fairness of each step of the task and of each post, and of a
connected reader, who reads its first state and what arrives; nobody has to subscribe, leave or cancel.
Every `FairSpec` allows a blog that answers with errors for ever, within the code's own retry limit.

## Proofs

The theorems hold for every value of the constants that satisfies the named assumptions of the
modules (`EngineAssumption`, `JobAssumption`, ...): sets are of any finite or, mostly, any size, bounds
are any number. TLC evaluates these assumptions in every run. Where more is assumed it is said here.
Every invariant proof has the same three parts: the initial states, one lemma per action, and
what follows from the inductive invariant.

- `DeleteEngineProofs`. The inductive invariant `EngineInv` has four parts. `TruthInv` says where comments
  are (`Base`, `Places`), in what order queue, buffer and records stand (`Order`), and that what an
  outcome says is true (`Truth`); from it come `OnePlaceAlways` (a comment is in one
  place: queue, hand, result queue, buffer or record) and `RecordedConfirmed`. `Draining` says what is still before the
  writer: the sentinel is put after the last worker (`SentinelOrder`), the writer ends behind it
  (`WriterOrder`), and nothing was dropped unless it was killed or gave up (`NotLost`); from it come `NothingIsLost` and
  `NothingIsLeft`. `Counts` and `Covering` give `ProgressCovers`. `Calm`, `Counting` and `Closing` bound
  what goes out after the circuit has opened and after an abort (`OpenStops`, `OpenIsEarned`,
  `AbortStops`). `EngineKeepsPromise` is the refinement: the first state maps to a first state of
  `DeletePromise`, each step to one of its steps or a stutter.
- `DeleteJobProofs`. `StepKinds` shows first that each action is one of a few kinds of steps (of a request, of
  the rows, of the run, ...), so that each conjunct of the inductive invariant `JobInv` looks at the few
  kinds that can disturb it. `Backing` and `Barring` carry what is backed up, or has to be left alone, through
  request, items and run; `Gone` says that what is recorded or about to be recorded as deleted is gone or `doubtful`;
  `Settled`, `Telling` and `Room` relate items, counters of the run and of the job; `FirstRun` says that a first run starts without results, and that what its verification of everything has
  found or corrected stays so until it completes (`FirstRunEndsTrue`). `Open` (the job of a run is pending or running) and `Alone`
  (a request at its backup holds the lock, and no job is open) give `NothingAtWork`: whoever makes or resumes
  a job finds no run. All properties of the run follow, `DeletedForGood` as an
  action property, `JobKeepsPromise` as a refinement: each step is a step of `JobPromise` or a stutter, by
  its kind. `OneDeletionOpen` then needs only the promise: `OneOpen` and `OnlyOpenWork` of
  `JobPromise` follow from its own steps, and hold here through the refinement. `WorkIsHonest` adds `InHand` (what a run has in hand has no outcome yet) and shows that until
  the run ends every step of the module is a step of `DeletePromise`, or stutters, under the mapping
  `Work`; it is an action property because the next run starts the promise anew.
- `DeleteVerifyProofs`. `VerifyInv` adds to the types what is known at each place: which posts are read,
  what was seen in them, what is left to correct.
- `JobLifecycleProofs`, below.
- `CommentPagingProofs`. `PagingInv` says what is settled above the cursor: a comment that was there all the
  time and is younger than the cursor is stored, or is on the page in hand, or shares the
  cursor's second and fits. `CursorAlwaysFalls` needs only the types, whatever the blog answers.
- `StoresProofs`: `SessionInv`, `TargetsInv` and `BackupInv` say what
  each caller, thread or visit knows while it is on its way: of which cookies its answer is, that a
  list it has taken is still the table's unless somebody overlapped, and that a file with one
  opener is in the hands of that export.
- `CollectStreamProofs`. `StreamInv` has one part per idea: where posts can be while the task is
  elsewhere (`Gathering`), what a good end implies (`GoodEnds`), which attempt to tell the end has got how far,
  and that from the clean-up on the cache is empty (`Attempts`), that the shared counters are the number of
  posts read and one callback carries the last (`Counting`), that in order the row is not behind any
  callback that wrote it (`InOrder`), and that whoever waits is subscribed and, once all is over, has the end
  as the last entry of its queue, because the oldest entry gives way and never the newest
  (`Subscribed`, `Heard`). `EndAlwaysHeard`, `CountsComplete` and `CacheForgotten` follow for any posts,
  subscribers, queue size, faults and cancels.
- `RescoreProofs`. `RescoreInv`: a request that nothing has disturbed holds the rules of the file and,
  for every comment that is left, either still has it to write or has written it
  (`Fresh`); what is to be written are verdicts (`Pending`). `SettledVerdicts` follows for any size of
  chunk. For `OwnerIsSafe`, `Hands` says that what is `owned` carries the mark, is not deleted and is in nobody's
  hands, so that the check of the next job does not let it through. `SelectionCounted` compares three cardinalities.
  `PartScoresLess` is about the rules themselves: every weight is at least 0, a rule that fires among
  some comments fires among more, and a sum over more rules is not smaller. The sum is a fold over a finite set,
  and the induction it seems to need is replaced by a least counterexample: `LeastSet` takes, of the subsets
  for which a statement would fail, one that is minimal under strict inclusion, which is well founded
  on finite sets.

`JobLifecycleProofs` proves for any number of jobs, callers, tasks and stops:

- `TypeCorrect`: `Spec => []TypeOK`, for any number of faults.
- `CancelledByUser`: `Spec => []QuietCancelledByUser`, for any number of faults.
- `OneDelete`: `Spec => []OneDeleteAtATime`, with `MaxFaults <= 1`.
- `RegistryIsComplete`, `OneTaskEach`: `UnfinishedIsRegistered` and `OneTaskPerJob`, with `MaxFaults <= 1`.
- `OrphansOnly`: `Spec => []OnlyOrphansBlock`, and `TerminalStays`: `Spec => TerminalIsFinal`, with
  `MaxFaults <= 1`.
- `LifecycleKeepsPromise`: `Spec => KeepsPromise`, with `MaxFaults <= 1`. Requests open (`RequestKeepsPromise`), tasks
  begin and end (`TaskKeepsPromise`), a finalizer fails what is no longer at work and a
  stop interrupts (`OthersKeepPromise`); steps about collections and discoveries stutter. `IInv` and `HeldInv`
  say that what a task works for is the only open deletion.

`OneDeleteAtATime` is not inductive: that a new task is alone depends on requests that have
not launched yet. The inductive invariant `IInv` is `TypeOK` with `DeleteInv`:

- `RequestShape`, `TaskShape`: which fields a request or task has at each place (with `TypeOK` this
  is `ShapeInv`, preserved on its own and proved first);
- `LockHeld`: a request past the lock about a deletion is the holder;
- `OneOwner`: a job belongs to one task, or one request about to launch it, or its finalizer;
- `StatusOfTask`: what status a job can have while a task may still write it;
- `OneActive`: at most one deletion is pending or running, and none while a request past
  `_ensure_no_running` has not written its row;
- `UnfinishedIsRegistered`, `DownIsEmpty`.

`OneActive`, with `StatusOfTask` and `OneOwner`, gives `OneDeleteAtATime`. Each action has a
lemma (`...KeepsShape`, `...KeepsOwner`), over lemmas on what an action does to one request
or task (`RequestMoves`, `TaskMoves`, `LaunchEffect`, ...). TLC found `DeleteInv` to
be an invariant of the instance of `JobLifecycleSafety` before it was proved.

On top of it stand two smaller invariants. `CancelInv`, for any number of faults: a registration is of a task that
is there and of its job (`RegisteredAreTheirs`), and until the server stops an event, and the status it
leads to, is a user's (`EventIsUsers`). `HeldInv`: a resumption past its reading has a job that can be
resumed (`ResumesResumable`, from which a terminal job stays terminal), a task that reports has
written a status that blocks nobody (`ReportedIsOver`), a request that announces has a running job, a
server that is not up has been stopped, and a job that is pending or running is in the hands of a task, a
finalizer or a request, or is one of the two kinds of orphan (`Held`).

`MaxFaults <= 1` is a real condition. With two faults, a finalizer that runs after the
clean-up can overwrite the status of a job that was resumed meanwhile (`jobs.py:530`), and a second
deletion then passes the check.

Only model-checked: the liveness properties `Termination`, `TasksEnd`, `RequestsEnd`, `ReadingEnds` and
`SubscribersEnd`, since fairness and ENABLED are out of the prover's reach. Every other property of a passing run
is also a theorem.

## Not modelled, and why

- Real time: the token bucket is a wait of any length, the monitor's timer is no step, and pauses end some time.
  That the rate is kept is a statement about seconds, which no module has.
- Conversions: HTML parsing, the sitemap, titles, encryption and the formats of cookies, the
  contents of regular expressions, the layout of backup files. They appear by what the code decides on:
  a page with its oldest comment, the texts an expression finds, whether a cookie can be sent or decrypted.
- Presentation and validation: web pages, schemas, the routes that only pass a request on. Settings, logging and time
  helpers have no behaviour over time.
- Listing and reading backups, export of logs, statistics: they change nothing.
- SQLite: a transaction is one step that commits or fails; two that overlap are serial.
- Of the composition: there is no product of `JobLifecycle`, `DeleteJob` and `DeleteEngine`; the two abstract
  specifications stand between them. `CollectStream` takes the end of a reading from `CommentPaging`
  without a specification between the two.
