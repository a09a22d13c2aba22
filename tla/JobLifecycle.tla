---------------------------- MODULE JobLifecycle ----------------------------
(***************************************************************************)
(* JobManager (src/app/services/jobs.py): the requests that create, resume *)
(* and cancel jobs, the task of each job, and the server's start, shutdown *)
(* and crash, around the status that each job has in the database. The     *)
(* work of a task is abstract here: it ends with one of the statuses that  *)
(* the run method of its kind can choose.                                  *)
(***************************************************************************)
EXTENDS Naturals, FiniteSets

CONSTANTS
    Job,        \* job ids the database can assign
    Request,    \* callers of the JobManager (API requests and the monitor)
    Task,       \* slots for the asyncio tasks of jobs
    Kinds,      \* the kinds of jobs that are created
    MaxFaults,  \* bound: failing database accesses of finishing and publishing
    MaxStops,   \* bound: crashes and shutdowns
    NoJob, NoTask, NoRequest

ASSUME LifecycleAssumption ==
    /\ Kinds \subseteq {"delete", "collect", "discover"}
    /\ MaxFaults \in Nat /\ MaxStops \in Nat
    /\ NoJob \notin Job /\ NoTask \notin Task /\ NoRequest \notin Request

VARIABLES
    kind,       \* jobs.type
    status,     \* jobs.status; "absent" for a job that does not exist
    lock,       \* holder of _creation_lock
    req,        \* per caller: where it is, what it wants and its job
    task,       \* per slot: where the task is, its job, cancel event and target
    registered, \* _tasks (and _cancels): the task registered for a job
    finalizing, \* jobs with a task in _finalizers
    server,     \* "up", "stopping" (lifespan shutdown) or "down"
    faults, stops,
    userCancelled \* jobs whose cancellation a user has asked for

vars == <<kind, status, lock, req, task, registered, finalizing, server,
          faults, stops, userCancelled>>

JobStatus == {"absent", "pending", "running", "paused", "completed", "failed", "cancelled"}
Terminal  == {"completed", "failed", "cancelled"}   \* JobStatus.is_terminal

\* Plausible bug: a cancelled job can be resumed.
ResumableAgain == {"pending", "paused", "cancelled"}

Resumable == {"pending", "paused"}                  \* JobStatus.is_resumable
AllKinds  == {"delete", "collect", "discover"}

RequestState == {"idle", "lock", "read", "check", "create", "mark", "announce", "launch"}
TaskState == {"free", "start", "announce", "work", "finish", "report", "failing",
              "failReport", "returned", "died", "killed"}

RequestRecord == [pc : RequestState, wants : AllKinds \cup {"resume", "none"},
                  job : Job \cup {NoJob}]
TaskRecord == [pc : TaskState, job : Job \cup {NoJob}, event : BOOLEAN, target : JobStatus]

IdleRequest == [pc |-> "idle", wants |-> "none", job |-> NoJob]
FreeTask    == [pc |-> "free", job |-> NoJob, event |-> FALSE, target |-> "absent"]

Init ==
    /\ kind = [j \in Job |-> "delete"]
    /\ status = [j \in Job |-> "absent"]
    /\ lock = NoRequest
    /\ req = [r \in Request |-> IdleRequest]
    /\ task = [t \in Task |-> FreeTask]
    /\ registered = [j \in Job |-> NoTask]
    /\ finalizing = {}
    /\ server = "up"
    /\ faults = 0 /\ stops = 0
    /\ userCancelled = {}

(***************************************************************************)
(* Derived values                                                          *)
(***************************************************************************)
\* The kind of job a request is about; only deletions can be resumed.
KindOf(wants) == IF wants = "resume" THEN "delete" ELSE wants

\* Plausible bug: a job that is still pending is overlooked.
ActiveRunning(k) == {j \in Job : kind[j] = k /\ status[j] = "running"}

\* What _ensure_no_running reads: the jobs of kind k that are pending or running.
Active(k) == {j \in Job : kind[j] = k /\ status[j] \in {"pending", "running"}}

\* A task that is not done().
Unfinished(t) == task[t].pc \notin {"free", "returned", "died", "killed"}

\* A registered task for job j that is not done().
LiveTask(j) == registered[j] # NoTask /\ Unfinished(registered[j])

(***************************************************************************)
(* Requests                                                                *)
(***************************************************************************)
requestFrame == <<finalizing, server, stops, userCancelled>>

Release(r) == lock' = IF lock = r THEN NoRequest ELSE lock

Go(r, pc) == req' = [req EXCEPT ![r].pc = pc]

\* The request ends with an error; async with releases the lock.
EndRequest(r) ==
    /\ req' = [req EXCEPT ![r] = IdleRequest]
    /\ Release(r)

\* create_*_job or resume is called. Deletions and resumptions take the
\* creation lock first, the other kinds do not.
Call(r) ==
    /\ server = "up"
    /\ req[r].pc = "idle"
    /\ \/ \E k \in Kinds :
             req' = [req EXCEPT ![r] = [pc |-> IF k = "delete" THEN "lock" ELSE "check",
                                        wants |-> k, job |-> NoJob]]
       \/ \E j \in Job :
             /\ status[j] # "absent"
             /\ req' = [req EXCEPT ![r] = [pc |-> "lock", wants |-> "resume", job |-> j]]
    /\ UNCHANGED <<kind, status, lock, task, registered, faults, requestFrame>>

AcquireLock(r) ==
    /\ req[r].pc = "lock"
    /\ lock = NoRequest
    /\ lock' = r
    /\ Go(r, IF req[r].wants = "resume" THEN "read" ELSE "check")
    /\ UNCHANGED <<kind, status, task, registered, faults, requestFrame>>

\* resume reads the job: it must be resumable, a deletion, and not live.
MayResume(j) == status[j] \in Resumable /\ kind[j] = "delete" /\ ~LiveTask(j)

ReadJob(r) ==
    /\ req[r].pc = "read"
    /\ \/ MayResume(req[r].job) /\ Go(r, "check") /\ UNCHANGED lock
       \/ ~MayResume(req[r].job) /\ EndRequest(r)
    /\ UNCHANGED <<kind, status, task, registered, faults, requestFrame>>

\* Plausible bug: a refused request tries again instead of failing.
EnsureByPolling(r) ==
    /\ req[r].pc = "check"
    /\ \/ /\ Active(KindOf(req[r].wants)) = {}
          /\ Go(r, IF req[r].wants = "resume" THEN "mark" ELSE "create")
          /\ UNCHANGED lock
       \/ /\ Active(KindOf(req[r].wants)) # {}
          /\ Go(r, IF lock = r THEN "lock" ELSE "check")
          /\ Release(r)
    /\ UNCHANGED <<kind, status, task, registered, faults, requestFrame>>

\* _ensure_no_running
EnsureNoRunning(r) ==
    /\ req[r].pc = "check"
    /\ \/ /\ Active(KindOf(req[r].wants)) = {}
          /\ Go(r, IF req[r].wants = "resume" THEN "mark" ELSE "create")
          /\ UNCHANGED lock
       \/ Active(KindOf(req[r].wants)) # {} /\ EndRequest(r)
    /\ UNCHANGED <<kind, status, task, registered, faults, requestFrame>>

\* The session, the targets or the backup is refused, or a statement fails.
Reject(r) ==
    /\ req[r].pc \in {"create", "mark"}
    /\ EndRequest(r)
    /\ UNCHANGED <<kind, status, task, registered, faults, requestFrame>>

\* The job's row is committed.
CreateJob(r) ==
    /\ req[r].pc = "create"
    /\ \E j \in Job :
          /\ status[j] = "absent"
          /\ status' = [status EXCEPT ![j] = "pending"]
          /\ kind' = [kind EXCEPT ![j] = req[r].wants]
          /\ req' = [req EXCEPT ![r].pc = "launch", ![r].job = j]
    /\ UNCHANGED <<lock, task, registered, faults, requestFrame>>

\* resume: _mark_running commits ...
ResumeMark(r) ==
    /\ req[r].pc = "mark"
    /\ status' = [status EXCEPT ![req[r].job] = "running"]
    /\ Go(r, "announce")
    /\ UNCHANGED <<kind, lock, task, registered, faults, requestFrame>>

\* ... and publishes, which reads the database again and may fail.
ResumeAnnounce(r) ==
    /\ req[r].pc = "announce"
    /\ \/ Go(r, "launch") /\ UNCHANGED <<lock, faults>>
       \/ faults < MaxFaults /\ faults' = faults + 1 /\ EndRequest(r)
    /\ UNCHANGED <<kind, status, task, registered, requestFrame>>

\* _launch registers a new task with a fresh cancel event; the request ends.
Launch(r) ==
    /\ req[r].pc = "launch"
    /\ \E t \in Task :
          /\ task[t].pc = "free"
          /\ task' = [task EXCEPT ![t] = [FreeTask EXCEPT !.pc = "start", !.job = req[r].job]]
          /\ registered' = [registered EXCEPT ![req[r].job] = t]
    /\ EndRequest(r)
    /\ UNCHANGED <<kind, status, faults, requestFrame>>

RequestStep(r) ==
    \/ AcquireLock(r) \/ ReadJob(r) \/ EnsureNoRunning(r) \/ Reject(r)
    \/ CreateJob(r) \/ ResumeMark(r) \/ ResumeAnnounce(r) \/ Launch(r)

\* JobManager.cancel: the event of the registered task is set.
Cancel(j) ==
    /\ server = "up"
    /\ registered[j] # NoTask
    /\ ~task[registered[j]].event
    /\ task' = [task EXCEPT ![registered[j]].event = TRUE]
    /\ userCancelled' = userCancelled \cup {j}
    /\ UNCHANGED <<kind, status, lock, req, registered, finalizing, server, faults, stops>>

(***************************************************************************)
(* The task of a job                                                       *)
(***************************************************************************)
taskFrame == <<kind, lock, req, registered, finalizing, server, stops, userCancelled>>

GoTask(t, pc) == task' = [task EXCEPT ![t].pc = pc]

SetStatus(j, s) == status' = [status EXCEPT ![j] = s]

\* _mark_running commits.
Begin(t) ==
    /\ task[t].pc = "start"
    /\ SetStatus(task[t].job, "running")
    /\ GoTask(t, "announce")
    /\ UNCHANGED <<faults, taskFrame>>

Announce(t) ==
    /\ task[t].pc = "announce"
    /\ GoTask(t, "work")
    /\ UNCHANGED <<status, faults, taskFrame>>

\* Plausible bug: a job is called cancelled whether or not its event is set.
OutcomesUncancelled(t) ==
    {s \in {"paused", "completed", "cancelled"} :
        s = "paused" => kind[task[t].job] = "delete"}

\* The statuses the work of a task can end with. A deletion is paused when it
\* was aborted, its circuit opened or items remain; a cancelled one completes
\* only when nothing was pending; a discovery never looks at its event.
Outcomes(t) ==
    LET k == kind[task[t].job] IN
    {s \in {"paused", "completed", "cancelled"} :
        /\ s = "paused" => k = "delete"
        /\ s = "cancelled" => task[t].event /\ k # "discover"
        /\ s = "completed" => ~(task[t].event /\ k = "collect")}

EndWork(t) ==
    /\ task[t].pc = "work"
    /\ \E s \in Outcomes(t) :
          task' = [task EXCEPT ![t].pc = "finish", ![t].target = s]
    /\ UNCHANGED <<status, faults, taskFrame>>

\* _finish commits the status ...
Finish(t) ==
    /\ task[t].pc = "finish"
    /\ SetStatus(task[t].job, task[t].target)
    /\ GoTask(t, "report")
    /\ UNCHANGED <<faults, taskFrame>>

\* ... and publishes it.
Report(t) ==
    /\ task[t].pc \in {"report", "failReport"}
    /\ GoTask(t, "returned")
    /\ UNCHANGED <<status, faults, taskFrame>>

\* The except branch of the run methods: _finish(FAILED).
FinishFailed(t) ==
    /\ task[t].pc = "failing"
    /\ SetStatus(task[t].job, "failed")
    /\ GoTask(t, "failReport")
    /\ UNCHANGED <<faults, taskFrame>>

\* The work raises: no client, no blog, a bad answer.
WorkRaises(t) ==
    /\ task[t].pc = "work"
    /\ GoTask(t, "failing")
    /\ UNCHANGED <<status, faults, taskFrame>>

\* A database access of _mark_running, _finish or _publish raises: the except
\* branch is next, or from within that branch the task dies.
DatabaseFault(t) ==
    /\ faults < MaxFaults
    /\ faults' = faults + 1
    /\ \/ task[t].pc \in {"start", "announce", "finish", "report"} /\ GoTask(t, "failing")
       \/ task[t].pc \in {"failing", "failReport"} /\ GoTask(t, "died")
    /\ UNCHANGED <<status, taskFrame>>

\* Plausible bug: the registration of a newer task of the job is removed.
OnTaskDoneAny(t) ==
    /\ task[t].pc \in {"returned", "died", "killed"}
    /\ LET j == task[t].job IN
       /\ registered' = [registered EXCEPT ![j] = NoTask]
       /\ finalizing' = IF task[t].pc = "died" THEN finalizing \cup {j} ELSE finalizing
    /\ task' = [task EXCEPT ![t] = FreeTask]
    /\ UNCHANGED <<kind, status, lock, req, server, faults, stops, userCancelled>>

\* Plausible bug: a task that died is never looked at.
OnTaskReturned(t) ==
    /\ task[t].pc = "returned"
    /\ LET j == task[t].job IN
       registered' = [registered EXCEPT ![j] = IF @ = t THEN NoTask ELSE @]
    /\ task' = [task EXCEPT ![t] = FreeTask]
    /\ UNCHANGED <<kind, status, lock, req, finalizing, server, faults, stops, userCancelled>>

\* _on_task_done and _cleanup: only the task's own registration is removed; a
\* task that died leaves a finalizer.
OnTaskDone(t) ==
    /\ task[t].pc \in {"returned", "died", "killed"}
    /\ LET j == task[t].job IN
       /\ registered' = [registered EXCEPT ![j] = IF @ = t THEN NoTask ELSE @]
       /\ finalizing' = IF task[t].pc = "died" THEN finalizing \cup {j} ELSE finalizing
    /\ task' = [task EXCEPT ![t] = FreeTask]
    /\ UNCHANGED <<kind, status, lock, req, server, faults, stops, userCancelled>>

TaskStep(t) ==
    \/ Begin(t) \/ Announce(t) \/ EndWork(t) \/ Finish(t) \/ Report(t)
    \/ FinishFailed(t) \/ WorkRaises(t) \/ DatabaseFault(t) \/ OnTaskDone(t)

\* The finalizer of a dead task commits FAILED, or fails in its turn.
Finalize(j) ==
    /\ j \in finalizing
    /\ finalizing' = finalizing \ {j}
    /\ \/ SetStatus(j, "failed") /\ UNCHANGED faults
       \/ faults < MaxFaults /\ faults' = faults + 1 /\ UNCHANGED status
    /\ UNCHANGED <<kind, lock, req, task, registered, server, stops, userCancelled>>

(***************************************************************************)
(* Shutdown, crash and start of the server                                 *)
(***************************************************************************)
\* lifespan ends: the monitor is cancelled wherever it is, open requests have
\* been answered, and shutdown sets every cancel event.
Shutdown ==
    /\ server = "up"
    /\ stops < MaxStops
    /\ \A r \in Request : req[r].pc = "idle" \/ req[r].wants = "collect"
    /\ server' = "stopping"
    /\ stops' = stops + 1
    /\ req' = [r \in Request |-> IdleRequest]
    /\ task' = [t \in Task |-> IF \E j \in Job : registered[j] = t
                               THEN [task[t] EXCEPT !.event = TRUE] ELSE task[t]]
    /\ UNCHANGED <<kind, status, lock, registered, finalizing, faults, userCancelled>>

\* A task that outlives _SHUTDOWN_GRACE is cancelled where it waits.
KillTask(t) ==
    /\ server = "stopping"
    /\ Unfinished(t)
    /\ GoTask(t, "killed")
    /\ UNCHANGED <<status, faults, taskFrame>>

\* What the process kept in memory is gone.
Stop ==
    /\ server' = "down"
    /\ lock' = NoRequest
    /\ req' = [r \in Request |-> IdleRequest]
    /\ task' = [t \in Task |-> FreeTask]
    /\ registered' = [j \in Job |-> NoTask]
    /\ finalizing' = {}

\* Plausible bug: what was running is queued again.
PauseAllAsPending ==
    status' = [j \in Job |-> IF status[j] = "running" THEN "pending" ELSE status[j]]

PauseAllRunning ==
    status' = [j \in Job |-> IF status[j] = "running" THEN "paused" ELSE status[j]]

\* The last transaction of shutdown; it waits for finalizers only for a while.
PauseRunning ==
    /\ server = "stopping"
    /\ \A t \in Task : ~Unfinished(t)
    /\ PauseAllRunning
    /\ Stop
    /\ UNCHANGED <<kind, faults, stops, userCancelled>>

Crash ==
    /\ server # "down"
    /\ stops < MaxStops
    /\ stops' = stops + 1
    /\ Stop
    /\ UNCHANGED <<kind, status, faults, userCancelled>>

\* recover_on_startup, before any request is accepted.
\* Plausible bug: what was running is left as it was.
RecoverNothing ==
    /\ server = "down"
    /\ server' = "up"
    /\ UNCHANGED <<kind, status, lock, req, task, registered, finalizing, faults, stops, userCancelled>>

RecoverOnStartup ==
    /\ server = "down"
    /\ server' = "up"
    /\ PauseAllRunning
    /\ UNCHANGED <<kind, lock, req, task, registered, finalizing, faults, stops, userCancelled>>

ServerStep == Shutdown \/ PauseRunning \/ RecoverOnStartup

Next ==
    \/ \E r \in Request : Call(r) \/ RequestStep(r)
    \/ \E t \in Task : TaskStep(t) \/ KillTask(t)
    \/ \E j \in Job : Cancel(j) \/ Finalize(j)
    \/ ServerStep \/ Crash

Spec == Init /\ [][Next]_vars

\* The event loop runs every request and task that can go on, and a shutdown
\* that has begun goes on; nobody has to call, cancel or stop anything.
Fairness ==
    /\ \A r \in Request : WF_vars(RequestStep(r)) /\ SF_vars(AcquireLock(r))
    /\ \A t \in Task : WF_vars(TaskStep(t))
    /\ \A j \in Job : WF_vars(Finalize(j))
    /\ WF_vars(PauseRunning) /\ WF_vars(RecoverOnStartup)

FairSpec == Spec /\ Fairness

(***************************************************************************)
(* Properties                                                              *)
(***************************************************************************)
TypeOK ==
    /\ kind \in [Job -> AllKinds]
    /\ status \in [Job -> JobStatus]
    /\ lock \in Request \cup {NoRequest}
    /\ req \in [Request -> RequestRecord]
    /\ task \in [Task -> TaskRecord]
    /\ registered \in [Job -> Task \cup {NoTask}]
    /\ finalizing \in SUBSET Job
    /\ server \in {"up", "stopping", "down"}
    /\ faults \in 0..MaxFaults /\ stops \in 0..MaxStops
    /\ userCancelled \in SUBSET Job

\* The tasks of kind k that have work to do.
Working(k) == {t \in Task : /\ task[t].pc \in {"start", "announce", "work", "finish"}
                            /\ kind[task[t].job] = k}

\* Two deletions never run at once, whatever mix of new jobs, resumptions,
\* retries, shutdowns and crashes (jobs.py:453-454, 555-559).
OneDeleteAtATime == \A s, t \in Working("delete") : s = t

\* Two tasks never work for the same job.
OneTaskPerJob ==
    \A s, t \in Task :
        Unfinished(s) /\ Unfinished(t) /\ task[s].job = task[t].job => s = t

\* Every task that is not done is registered for its job: cancel, shutdown and
\* the check of resume find it.
UnfinishedIsRegistered ==
    \A t \in Task : Unfinished(t) => registered[task[t].job] = t

\* A job that makes _ensure_no_running refuse others is in somebody's hands: a task,
\* a finalizer or the request that is about to launch it. Across cancels, exceptions,
\* shutdowns, crashes and restarts two kinds of orphan are left, which block their kind:
\* a pending job whose launch the end of the process has cut off, and a running one
\* after a failed database access (jobs.py:138-156, 476, 522-540).
OnlyOrphansBlock ==
    server = "up" =>
        \A j \in Job : status[j] \in {"pending", "running"} =>
            \/ \E t \in Task : task[t].job = j
            \/ j \in finalizing
            \/ \E r \in Request : req[r].job = j /\ req[r].pc \in {"announce", "launch"}
            \/ status[j] = "pending" /\ stops > 0
            \/ status[j] = "running" /\ faults > 0

\* CANCELLED is the state of a job that the user has stopped (enums.py:40-41), as long
\* as the server has not stopped: a shutdown sets the same event.
QuietCancelledByUser ==
    stops = 0 => \A j \in Job : status[j] = "cancelled" => j \in userCancelled

\* A terminal job goes no further: its status is never written again, as long
\* as no database access has failed (enums.py:51-54).
TerminalIsFinal ==
    [][faults = 0 => \A j \in Job : status[j] \in Terminal => status'[j] = status[j]]_vars

\* A deletion as it is seen from outside.
DeletionState == [j \in Job |-> IF kind[j] = "delete" THEN status[j] ELSE "absent"]

AtWork == {task[t].job : t \in Working("delete")}

Promise == INSTANCE JobPromise WITH state <- DeletionState, at_work <- AtWork

\* The job manager keeps JobPromise: a deletion is made or resumed only when no other is
\* pending or running, and only the one that is at work ends, whatever requests, crashes
\* and finalizers come between (jobs.py:284-307, 450-478, 555-592).
KeepsPromise == Promise!PromiseSpec

\* Every launched task ends and is taken out of the registry, so that its job
\* is no longer shown as live.
TasksEnd == \A t \in Task : task[t].pc # "free" ~> task[t].pc = "free"

\* A request for a job gets its answer: nobody waits for the lock for good.
RequestsEnd == \A r \in Request : req[r].pc # "idle" ~> req[r].pc = "idle"

(***************************************************************************)
(* The inductive invariant behind OneDeleteAtATime, for MaxFaults <= 1     *)
(***************************************************************************)
\* A task that may still write its job's status, or leave a finalizer that will.
Occupies(t) == task[t].pc \notin {"free", "returned", "killed"}

\* A request that has made job req[r].job its own.
Claims(r) ==
    \/ req[r].pc \in {"announce", "launch"}
    \/ req[r].wants = "resume" /\ req[r].pc \in {"check", "mark"}

\* A request that is past the lock.
Holds(r) ==
    /\ KindOf(req[r].wants) = "delete"
    /\ req[r].pc \notin {"idle", "lock"}

RequestShape ==
    \A r \in Request :
        /\ req[r].pc \in {"read", "mark", "announce"} => req[r].wants = "resume"
        /\ req[r].pc # "idle" => req[r].wants # "none"
        /\ req[r].pc = "create" => req[r].wants # "resume"
        /\ req[r].wants = "resume" =>
              req[r].job \in Job /\ status[req[r].job] # "absent"
        /\ Claims(r) =>
              /\ req[r].job \in Job
              /\ status[req[r].job] # "absent"
              /\ kind[req[r].job] = KindOf(req[r].wants)

TaskShape ==
    /\ \A t \in Task : task[t].pc # "free" =>
          task[t].job \in Job /\ status[task[t].job] # "absent"
    /\ \A t \in Task : task[t].pc = "finish" =>
          task[t].target \in {"paused", "completed", "cancelled"}
    /\ \A j \in finalizing : status[j] # "absent"

\* The creation lock is held by every deletion or resumption past it.
LockHeld == \A r \in Request : Holds(r) => lock = r

\* A job belongs to one task, one claiming request or its finalizer.
OneOwner ==
    /\ \A s, t \in Task :
          Occupies(s) /\ Occupies(t) /\ task[s].job = task[t].job => s = t
    /\ \A q, r \in Request :
          Claims(q) /\ Claims(r) /\ req[q].job = req[r].job => q = r
    /\ \A r \in Request, t \in Task :
          Claims(r) /\ Occupies(t) => req[r].job # task[t].job
    /\ \A r \in Request : Claims(r) => req[r].job \notin finalizing
    /\ \A t \in Task : Occupies(t) => task[t].job \notin finalizing

\* The status of a job as long as a task may still write it.
StatusOfTask ==
    /\ \A t \in Task :
          /\ task[t].pc = "start" => status[task[t].job] \in {"pending", "running"}
          /\ task[t].pc \in {"announce", "work", "finish"}
                => status[task[t].job] = "running"
          /\ task[t].pc = "failing" /\ faults = 0 => status[task[t].job] = "running"
          /\ task[t].pc = "failReport" => status[task[t].job] = "failed"
          /\ task[t].pc = "died" => status[task[t].job] \in {"running", "failed"}
    /\ \A j \in finalizing : status[j] \in {"running", "failed"}

\* One deletion at most is pending or running, and none while a request that
\* has passed _ensure_no_running has not yet written its job.
OneActive ==
    /\ \A i, j \in Active("delete") : i = j
    /\ \A r \in Request :
          /\ Holds(r) /\ req[r].pc \in {"create", "mark"} => Active("delete") = {}
          /\ req[r].pc \in {"announce", "launch"}
                => status[req[r].job] \in {"pending", "running"}

\* Nothing is in memory while the server is down.
DownIsEmpty ==
    server = "down" =>
        /\ \A t \in Task : task[t].pc = "free"
        /\ finalizing = {}
        /\ \A r \in Request : req[r] = IdleRequest

\* What the theorem about OneDeleteAtATime is proved with.
DeleteInv ==
    /\ RequestShape /\ TaskShape /\ LockHeld /\ UnfinishedIsRegistered
    /\ OneOwner /\ StatusOfTask /\ OneActive /\ DownIsEmpty
=============================================================================
