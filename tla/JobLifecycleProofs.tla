------------------------- MODULE JobLifecycleProofs -------------------------
(***************************************************************************)
(* Theorems about JobLifecycle, for any number of jobs, requests and task  *)
(* slots: the types of its state; that two deletions never run at once and *)
(* the registry is complete; that what is cancelled was cancelled by a     *)
(* user, that a terminal job stays, that only orphans of a stop or of a    *)
(* failed database access block others; and that all this implements       *)
(* JobPromise. The theorems about ownership are for at most one failed     *)
(* access (MaxFaults <= 1).                                                *)
(***************************************************************************)
EXTENDS JobLifecycle, TLAPS

(***************************************************************************)
(* What the helpers of the actions do to the records of one process        *)
(***************************************************************************)
LEMMA IdleRecord == IdleRequest \in RequestRecord /\ FreeTask \in TaskRecord
  BY DEF IdleRequest, FreeTask, RequestRecord, TaskRecord, RequestState, TaskState, JobStatus

\* Go moves one request and keeps what it wants and its job.
LEMMA RequestMoves ==
  ASSUME TypeOK, NEW r \in Request, NEW pc \in RequestState, Go(r, pc)
  PROVE  /\ req' \in [Request -> RequestRecord]
         /\ req'[r].pc = pc /\ req'[r].wants = req[r].wants /\ req'[r].job = req[r].job
         /\ \A q \in Request : q # r => req'[q] = req[q]
<1>. DEFINE u == [req[r] EXCEPT !.pc = pc]
<1>1. req \in [Request -> RequestRecord]
  BY DEF TypeOK
<1>2. req' = [req EXCEPT ![r] = u]
  BY DEF Go
<1>3. u \in RequestRecord
  BY <1>1 DEF RequestRecord
<1>4. u.pc = pc /\ u.wants = req[r].wants /\ u.job = req[r].job
  BY <1>1 DEF RequestRecord
<1>. HIDE DEF u
<1>. QED BY <1>1, <1>2, <1>3, <1>4

\* EndRequest makes one request idle and lets go of its lock only.
LEMMA RequestEnds ==
  ASSUME TypeOK, NEW r \in Request, EndRequest(r)
  PROVE  /\ req' \in [Request -> RequestRecord]
         /\ req'[r] = IdleRequest
         /\ \A q \in Request : q # r => req'[q] = req[q]
         /\ lock' \in Request \cup {NoRequest}
         /\ \A q \in Request : q # r /\ lock = q => lock' = q
<1>1. req \in [Request -> RequestRecord] /\ lock \in Request \cup {NoRequest}
  BY DEF TypeOK
<1>. QED BY <1>1, IdleRecord DEF EndRequest, Release

\* GoTask moves one task and keeps the rest of its record.
LEMMA TaskMoves ==
  ASSUME TypeOK, NEW t \in Task, NEW pc \in TaskState, GoTask(t, pc)
  PROVE  /\ task' \in [Task -> TaskRecord]
         /\ task'[t].pc = pc /\ task'[t].job = task[t].job
         /\ task'[t].event = task[t].event /\ task'[t].target = task[t].target
         /\ \A s \in Task : s # t => task'[s] = task[s]
<1>. DEFINE u == [task[t] EXCEPT !.pc = pc]
<1>1. task \in [Task -> TaskRecord]
  BY DEF TypeOK
<1>2. task' = [task EXCEPT ![t] = u]
  BY DEF GoTask
<1>3. u \in TaskRecord
  BY <1>1 DEF TaskRecord
<1>4. u.pc = pc /\ u.job = task[t].job /\ u.event = task[t].event /\ u.target = task[t].target
  BY <1>1 DEF TaskRecord
<1>. HIDE DEF u
<1>. QED BY <1>1, <1>2, <1>3, <1>4


\* A request that is called is at the lock or, for a collection, past it.
LEMMA CallEffect ==
  ASSUME TypeOK, NEW r \in Request, Call(r)
  PROVE  /\ req' \in [Request -> RequestRecord]
         /\ \A q \in Request : q # r => req'[q] = req[q]
         /\ \/ /\ req'[r].pc = "lock" /\ req'[r].wants = "delete" /\ req'[r].job = NoJob
            \/ /\ req'[r].pc = "check" /\ req'[r].wants \in {"collect", "discover"}
               /\ req'[r].job = NoJob
            \/ /\ req'[r].pc = "lock" /\ req'[r].wants = "resume"
               /\ req'[r].job \in Job /\ status[req'[r].job] # "absent"
<1>1. req \in [Request -> RequestRecord]
  BY DEF TypeOK
<1>2. CASE \E k \in Kinds :
             req' = [req EXCEPT ![r] = [pc |-> IF k = "delete" THEN "lock" ELSE "check",
                                        wants |-> k, job |-> NoJob]]
  <2>1. PICK k \in Kinds :
             req' = [req EXCEPT ![r] = [pc |-> IF k = "delete" THEN "lock" ELSE "check",
                                        wants |-> k, job |-> NoJob]]
    BY <1>2
  <2>2. k \in AllKinds
    BY LifecycleAssumption DEF AllKinds
  <2>3. [pc |-> IF k = "delete" THEN "lock" ELSE "check", wants |-> k, job |-> NoJob]
            \in RequestRecord
    BY <2>2 DEF RequestRecord, RequestState
  <2>. QED BY <1>1, <2>1, <2>2, <2>3 DEF AllKinds
<1>3. CASE \E j \in Job :
             /\ status[j] # "absent"
             /\ req' = [req EXCEPT ![r] = [pc |-> "lock", wants |-> "resume", job |-> j]]
  <2>1. PICK j \in Job :
             /\ status[j] # "absent"
             /\ req' = [req EXCEPT ![r] = [pc |-> "lock", wants |-> "resume", job |-> j]]
    BY <1>3
  <2>2. [pc |-> "lock", wants |-> "resume", job |-> j] \in RequestRecord
    BY DEF RequestRecord, RequestState
  <2>. QED BY <1>1, <2>1, <2>2
<1>. QED BY <1>2, <1>3 DEF Call

\* CreateJob gives the request a new job of the kind it wants.
LEMMA CreateEffect ==
  ASSUME TypeOK, RequestShape, NEW r \in Request, CreateJob(r)
  PROVE  \E j \in Job :
         /\ status[j] = "absent"
         /\ status' = [status EXCEPT ![j] = "pending"]
         /\ kind' = [kind EXCEPT ![j] = req[r].wants]
         /\ req[r].wants \in AllKinds
         /\ req' \in [Request -> RequestRecord]
         /\ req'[r].pc = "launch" /\ req'[r].wants = req[r].wants /\ req'[r].job = j
         /\ \A q \in Request : q # r => req'[q] = req[q]
<1>1. req \in [Request -> RequestRecord]
  BY DEF TypeOK
<1>2. PICK j \in Job :
         /\ status[j] = "absent"
         /\ status' = [status EXCEPT ![j] = "pending"]
         /\ kind' = [kind EXCEPT ![j] = req[r].wants]
         /\ req' = [req EXCEPT ![r].pc = "launch", ![r].job = j]
  BY DEF CreateJob
<1>3. DEFINE u == [req[r] EXCEPT !.pc = "launch", !.job = j]
<1>4. u \in RequestRecord /\ u.pc = "launch" /\ u.wants = req[r].wants /\ u.job = j
  BY <1>1 DEF RequestRecord, RequestState
<1>5. req' = [req EXCEPT ![r] = u]
  BY <1>1, <1>2
<1>6. req[r].wants \in AllKinds
  <2>1. req[r].wants \in AllKinds \cup {"resume", "none"}
    BY <1>1 DEF RequestRecord
  <2>2. req[r].wants \notin {"resume", "none"}
    BY DEF RequestShape, CreateJob
  <2>. QED BY <2>1, <2>2
<1>. HIDE DEF u
<1>7. /\ req' \in [Request -> RequestRecord] /\ req'[r] = u
      /\ \A q \in Request : q # r => req'[q] = req[q]
  BY <1>1, <1>4, <1>5
<1>. QED BY <1>2, <1>4, <1>6, <1>7

\* Launch hands the job of the request to a task that was free.
LEMMA LaunchEffect ==
  ASSUME TypeOK, RequestShape, NEW r \in Request, Launch(r)
  PROVE  /\ req[r].job \in Job
         /\ \E t \in Task :
            /\ task[t].pc = "free"
            /\ task' \in [Task -> TaskRecord]
            /\ task'[t].pc = "start" /\ task'[t].job = req[r].job
            /\ \A s \in Task : s # t => task'[s] = task[s]
            /\ registered' = [registered EXCEPT ![req[r].job] = t]
<1>1. req \in [Request -> RequestRecord] /\ task \in [Task -> TaskRecord]
  BY DEF TypeOK
<1>2. req[r].job \in Job
  BY DEF RequestShape, Claims, Launch
<1>3. PICK t \in Task :
          /\ task[t].pc = "free"
          /\ task' = [task EXCEPT ![t] = [FreeTask EXCEPT !.pc = "start", !.job = req[r].job]]
          /\ registered' = [registered EXCEPT ![req[r].job] = t]
  BY DEF Launch
<1>4. DEFINE u == [FreeTask EXCEPT !.pc = "start", !.job = req[r].job]
<1>5. u \in TaskRecord /\ u.pc = "start" /\ u.job = req[r].job
  BY <1>2 DEF FreeTask, TaskRecord, TaskState, JobStatus
<1>6. task' = [task EXCEPT ![t] = u]
  BY <1>3
<1>. HIDE DEF u
<1>7. /\ task' \in [Task -> TaskRecord] /\ task'[t] = u
      /\ \A s \in Task : s # t => task'[s] = task[s]
  BY <1>1, <1>5, <1>6
<1>. QED BY <1>2, <1>3, <1>5, <1>7

\* EndWork chooses a status that is not a failure.
LEMMA EndWorkEffect ==
  ASSUME TypeOK, NEW t \in Task, EndWork(t)
  PROVE  /\ task' \in [Task -> TaskRecord]
         /\ task'[t].pc = "finish" /\ task'[t].job = task[t].job
         /\ task'[t].target \in {"paused", "completed", "cancelled"}
         /\ \A s \in Task : s # t => task'[s] = task[s]
<1>1. task \in [Task -> TaskRecord]
  BY DEF TypeOK
<1>2. PICK s \in Outcomes(t) : task' = [task EXCEPT ![t].pc = "finish", ![t].target = s]
  BY DEF EndWork
<1>3. s \in {"paused", "completed", "cancelled"}
  BY DEF Outcomes
<1>4. DEFINE u == [task[t] EXCEPT !.pc = "finish", !.target = s]
<1>5. u \in TaskRecord /\ u.pc = "finish" /\ u.job = task[t].job /\ u.target = s
  BY <1>1, <1>3 DEF TaskRecord, TaskState, JobStatus
<1>6. task' = [task EXCEPT ![t] = u]
  BY <1>1, <1>2
<1>. HIDE DEF u
<1>. QED BY <1>1, <1>3, <1>5, <1>6

\* Setting a cancel event changes nothing else of a task.
LEMMA CancelEffect ==
  ASSUME TypeOK, NEW j \in Job, Cancel(j)
  PROVE  /\ task' \in [Task -> TaskRecord]
         /\ \A s \in Task : /\ task'[s].pc = task[s].pc /\ task'[s].job = task[s].job
                            /\ task'[s].target = task[s].target
<1>1. task \in [Task -> TaskRecord] /\ registered[j] \in Task
  BY DEF TypeOK, Cancel
<1>2. DEFINE u == [task[registered[j]] EXCEPT !.event = TRUE]
<1>3. u \in TaskRecord
  BY <1>1 DEF TaskRecord
<1>4. /\ u.pc = task[registered[j]].pc /\ u.job = task[registered[j]].job
      /\ u.target = task[registered[j]].target
  BY <1>1 DEF TaskRecord
<1>5. task' = [task EXCEPT ![registered[j]] = u]
  BY <1>1 DEF Cancel
<1>. HIDE DEF u
<1>. QED BY <1>1, <1>3, <1>4, <1>5

LEMMA ShutdownEffect ==
  ASSUME TypeOK, Shutdown
  PROVE  /\ task' \in [Task -> TaskRecord]
         /\ \A s \in Task : /\ task'[s].pc = task[s].pc /\ task'[s].job = task[s].job
                            /\ task'[s].target = task[s].target
         /\ req' \in [Request -> RequestRecord]
         /\ \A r \in Request : req'[r] = IdleRequest
<1>1. task \in [Task -> TaskRecord]
  BY DEF TypeOK
<1>2. ASSUME NEW s \in Task
      PROVE  /\ task'[s] \in TaskRecord
             /\ task'[s].pc = task[s].pc /\ task'[s].job = task[s].job
             /\ task'[s].target = task[s].target
  <2>1. task'[s] = task[s] \/ task'[s] = [task[s] EXCEPT !.event = TRUE]
    BY DEF Shutdown
  <2>2. task[s] \in TaskRecord
    BY <1>1
  <2>3. [task[s] EXCEPT !.event = TRUE] \in TaskRecord
    BY <2>2 DEF TaskRecord
  <2>. QED BY <2>1, <2>2, <2>3 DEF TaskRecord
<1>3. task' = [s \in Task |-> task'[s]]
  BY DEF Shutdown
<1>4. req' = [r \in Request |-> IdleRequest]
  BY DEF Shutdown
<1>. QED BY <1>2, <1>3, <1>4, IdleRecord

(***************************************************************************)
(* Types, and the shapes of requests and tasks that they need              *)
(***************************************************************************)
ShapeInv == TypeOK /\ RequestShape /\ TaskShape

LEMMA InitShape == Init => ShapeInv
<1>. SUFFICES ASSUME Init PROVE ShapeInv
  OBVIOUS
<1>1. TypeOK
  BY LifecycleAssumption, IdleRecord DEF Init, TypeOK, AllKinds, JobStatus
<1>2. RequestShape /\ TaskShape
  BY DEF Init, RequestShape, TaskShape, Claims, IdleRequest, FreeTask
<1>. QED BY <1>1, <1>2 DEF ShapeInv

LEMMA RequestKeepsShape ==
  ASSUME ShapeInv, NEW r \in Request, Call(r) \/ RequestStep(r)
  PROVE  ShapeInv'
<1>. USE DEF requestFrame
<1>1. TypeOK /\ RequestShape /\ TaskShape
  BY DEF ShapeInv
<1>2. {"read", "check", "create", "mark", "announce", "launch"} \subseteq RequestState
  BY DEF RequestState
<1>3. CASE Call(r)
  <2>1. TypeOK'
    BY <1>1, <1>3, CallEffect DEF Call, TypeOK
  <2>2. RequestShape'
    BY <1>1, <1>3, CallEffect DEF Call, RequestShape, Claims, KindOf
  <2>3. TaskShape'
    BY <1>1, <1>3 DEF Call, TaskShape
  <2>. QED BY <2>1, <2>2, <2>3 DEF ShapeInv
<1>4. CASE AcquireLock(r)
  <2>. DEFINE pc == IF req[r].wants = "resume" THEN "read" ELSE "check"
  <2>1. Go(r, pc) /\ pc \in RequestState
    BY <1>2, <1>4 DEF AcquireLock
  <2>2. TypeOK'
    BY <1>1, <1>4, <2>1, RequestMoves DEF AcquireLock, TypeOK
  <2>3. RequestShape'
    BY <1>1, <1>4, <2>1, RequestMoves DEF AcquireLock, RequestShape, Claims, KindOf
  <2>4. TaskShape'
    BY <1>1, <1>4 DEF AcquireLock, TaskShape
  <2>. QED BY <2>2, <2>3, <2>4 DEF ShapeInv
<1>5. CASE ReadJob(r)
  <2>1. TaskShape'
    BY <1>1, <1>5 DEF ReadJob, TaskShape
  <2>2. CASE EndRequest(r)
    BY <1>1, <1>5, <2>1, <2>2, RequestEnds
       DEF ReadJob, TypeOK, RequestShape, Claims, KindOf, ShapeInv, IdleRequest
  <2>3. CASE MayResume(req[r].job) /\ Go(r, "check") /\ UNCHANGED lock
    BY <1>1, <1>2, <1>5, <2>1, <2>3, RequestMoves
       DEF ReadJob, TypeOK, RequestShape, Claims, KindOf, ShapeInv, MayResume
  <2>. QED BY <1>5, <2>2, <2>3 DEF ReadJob
<1>6. CASE EnsureNoRunning(r)
  <2>1. TaskShape'
    BY <1>1, <1>6 DEF EnsureNoRunning, TaskShape
  <2>2. CASE EndRequest(r)
    BY <1>1, <1>6, <2>1, <2>2, RequestEnds
       DEF EnsureNoRunning, TypeOK, RequestShape, Claims, KindOf, ShapeInv, IdleRequest
  <2>3. CASE Go(r, IF req[r].wants = "resume" THEN "mark" ELSE "create") /\ UNCHANGED lock
    BY <1>1, <1>2, <1>6, <2>1, <2>3, RequestMoves
       DEF EnsureNoRunning, TypeOK, RequestShape, Claims, KindOf, ShapeInv
  <2>. QED BY <1>6, <2>2, <2>3 DEF EnsureNoRunning
<1>7. CASE Reject(r)
  BY <1>1, <1>7, RequestEnds
     DEF Reject, TypeOK, RequestShape, TaskShape, Claims, KindOf, ShapeInv, IdleRequest
<1>8. CASE CreateJob(r)
  <2>. PICK j \in Job :
         /\ status[j] = "absent"
         /\ status' = [status EXCEPT ![j] = "pending"]
         /\ kind' = [kind EXCEPT ![j] = req[r].wants]
         /\ req[r].wants \in AllKinds
         /\ req' \in [Request -> RequestRecord]
         /\ req'[r].pc = "launch" /\ req'[r].wants = req[r].wants /\ req'[r].job = j
         /\ \A q \in Request : q # r => req'[q] = req[q]
    BY <1>1, <1>8, CreateEffect
  <2>0. UNCHANGED <<lock, task, registered, faults, requestFrame>>
    BY <1>8 DEF CreateJob
  <2>1. TypeOK'
    BY <1>1, <2>0 DEF TypeOK, JobStatus
  <2>2. RequestShape'
    <3>1. status \in [Job -> JobStatus] /\ kind \in [Job -> AllKinds]
      BY <1>1 DEF TypeOK
    <3>2. \A i \in Job : status[i] # "absent" =>
                           status'[i] # "absent" /\ kind'[i] = kind[i]
      BY <3>1
    <3>3. status'[j] # "absent" /\ kind'[j] = req[r].wants
      BY <3>1
    <3>4. req[r].wants # "resume"
      BY <1>1, <1>8 DEF CreateJob, RequestShape
    <3>5. KindOf(req'[r].wants) = kind'[j] /\ req'[r].wants # "none"
      BY <1>1, <1>8, <3>3, <3>4 DEF KindOf, CreateJob, RequestShape
    <3>6. ASSUME NEW q \in Request, q # r
          PROVE  /\ req[q].wants = "resume" => status'[req[q].job] # "absent"
                 /\ Claims(q) => /\ status'[req[q].job] # "absent"
                                 /\ kind'[req[q].job] = KindOf(req[q].wants)
      BY <1>1, <3>2 DEF RequestShape
    <3>. QED BY <1>1, <3>3, <3>4, <3>5, <3>6 DEF RequestShape, Claims
  <2>3. TaskShape'
    BY <1>1, <2>0 DEF TypeOK, TaskShape
  <2>. QED BY <2>1, <2>2, <2>3 DEF ShapeInv
<1>9. CASE ResumeMark(r)
  <2>1. Go(r, "announce") /\ req[r].job \in Job
    BY <1>1, <1>9 DEF ResumeMark, RequestShape
  <2>2. TypeOK'
    BY <1>1, <1>2, <1>9, <2>1, RequestMoves DEF ResumeMark, TypeOK, JobStatus
  <2>3. RequestShape'
    BY <1>1, <1>2, <1>9, <2>1, RequestMoves DEF ResumeMark, TypeOK, RequestShape, Claims, KindOf
  <2>4. TaskShape'
    BY <1>1, <1>9, <2>1 DEF ResumeMark, TypeOK, TaskShape
  <2>. QED BY <2>2, <2>3, <2>4 DEF ShapeInv
<1>10. CASE ResumeAnnounce(r)
  <2>1. TaskShape'
    BY <1>1, <1>10 DEF ResumeAnnounce, TaskShape
  <2>2. CASE faults < MaxFaults /\ faults' = faults + 1 /\ EndRequest(r)
    <3>1. faults' \in 0..MaxFaults
      BY <1>1, <2>2, LifecycleAssumption DEF TypeOK
    <3>. QED BY <1>1, <1>10, <2>1, <2>2, <3>1, RequestEnds
         DEF ResumeAnnounce, TypeOK, RequestShape, Claims, KindOf, ShapeInv, IdleRequest
  <2>3. CASE Go(r, "launch") /\ UNCHANGED <<lock, faults>>
    BY <1>1, <1>2, <1>10, <2>1, <2>3, RequestMoves
       DEF ResumeAnnounce, TypeOK, RequestShape, Claims, KindOf, ShapeInv
  <2>. QED BY <1>10, <2>2, <2>3 DEF ResumeAnnounce
<1>11. CASE Launch(r)
  <2>1. EndRequest(r)
    BY <1>11 DEF Launch
  <2>2. UNCHANGED <<kind, status, faults, requestFrame>> /\ req[r].pc = "launch"
    BY <1>11 DEF Launch
  <2>3. PICK t \in Task :
          /\ task[t].pc = "free"
          /\ task' \in [Task -> TaskRecord]
          /\ task'[t].pc = "start" /\ task'[t].job = req[r].job
          /\ \A s \in Task : s # t => task'[s] = task[s]
          /\ registered' = [registered EXCEPT ![req[r].job] = t]
    BY <1>1, <1>11, LaunchEffect
  <2>4. TypeOK'
    BY <1>1, <2>1, <2>2, <2>3, RequestEnds DEF TypeOK
  <2>5. RequestShape'
    BY <1>1, <2>1, <2>2, RequestEnds DEF RequestShape, Claims, KindOf, IdleRequest
  <2>6. TaskShape'
    BY <1>1, <2>2, <2>3 DEF TaskShape, RequestShape, Claims
  <2>. QED BY <2>4, <2>5, <2>6 DEF ShapeInv
<1>. QED BY <1>3, <1>4, <1>5, <1>6, <1>7, <1>8, <1>9, <1>10, <1>11 DEF RequestStep

LEMMA TaskKeepsShape ==
  ASSUME ShapeInv, NEW t \in Task, TaskStep(t) \/ KillTask(t)
  PROVE  ShapeInv'
<1>. USE DEF taskFrame
<1>1. TypeOK /\ RequestShape /\ TaskShape
  BY DEF ShapeInv
<1>2. {"announce", "work", "returned", "report", "failing", "failReport", "died", "killed"}
         \subseteq TaskState
  BY DEF TaskState
<1>3. ASSUME NEW pc \in TaskState, GoTask(t, pc), pc # "finish", task[t].pc # "free",
             UNCHANGED <<status, taskFrame>>, faults' \in 0..MaxFaults
      PROVE  ShapeInv'
  <2>1. TypeOK'
    BY <1>1, <1>3, TaskMoves DEF TypeOK
  <2>2. RequestShape'
    BY <1>1, <1>3 DEF RequestShape, Claims, KindOf
  <2>3. TaskShape'
    BY <1>1, <1>3, TaskMoves DEF TaskShape
  <2>. QED BY <2>1, <2>2, <2>3 DEF ShapeInv
<1>4. faults \in 0..MaxFaults
  BY <1>1 DEF TypeOK
<1>5. ASSUME NEW pc \in TaskState, GoTask(t, pc), pc # "finish", task[t].pc # "free",
             NEW st \in JobStatus \ {"absent"}, SetStatus(task[t].job, st),
             UNCHANGED <<faults, taskFrame>>
      PROVE  ShapeInv'
  <2>1. task[t].job \in Job
    BY <1>1, <1>5 DEF TaskShape
  <2>2. TypeOK'
    BY <1>1, <1>5, <2>1, TaskMoves DEF TypeOK, SetStatus
  <2>3. RequestShape'
    BY <1>1, <1>5, <2>1 DEF TypeOK, SetStatus, RequestShape, Claims, KindOf
  <2>4. TaskShape'
    BY <1>1, <1>5, <2>1, TaskMoves DEF TypeOK, SetStatus, TaskShape
  <2>. QED BY <2>2, <2>3, <2>4 DEF ShapeInv
<1>6. CASE Begin(t)
  <2>1. "running" \in JobStatus \ {"absent"}
    BY DEF JobStatus
  <2>. QED BY <1>2, <1>5, <1>6, <2>1 DEF Begin
<1>7. CASE Announce(t)
  BY <1>2, <1>3, <1>4, <1>7 DEF Announce
<1>8. CASE EndWork(t)
  <2>0. UNCHANGED <<status, faults, taskFrame>> /\ task[t].pc = "work"
    BY <1>8 DEF EndWork
  <2>1. TypeOK'
    BY <1>1, <1>8, <2>0, EndWorkEffect DEF TypeOK
  <2>2. RequestShape'
    BY <1>1, <2>0 DEF RequestShape, Claims, KindOf
  <2>3. TaskShape'
    BY <1>1, <1>8, <2>0, EndWorkEffect DEF TaskShape
  <2>. QED BY <2>1, <2>2, <2>3 DEF ShapeInv
<1>9. CASE Finish(t)
  <2>1. task[t].target \in JobStatus \ {"absent"}
    BY <1>1, <1>9 DEF Finish, TaskShape, JobStatus
  <2>. QED BY <1>2, <1>5, <1>9, <2>1 DEF Finish
<1>10. CASE Report(t)
  BY <1>2, <1>3, <1>4, <1>10 DEF Report
<1>11. CASE FinishFailed(t)
  <2>1. "failed" \in JobStatus \ {"absent"}
    BY DEF JobStatus
  <2>. QED BY <1>2, <1>5, <1>11, <2>1 DEF FinishFailed
<1>12. CASE WorkRaises(t)
  BY <1>2, <1>3, <1>4, <1>12 DEF WorkRaises
<1>13. CASE DatabaseFault(t)
  <2>1. faults' \in 0..MaxFaults
    BY <1>1, <1>13, LifecycleAssumption DEF TypeOK, DatabaseFault
  <2>. QED BY <1>2, <1>3, <1>13, <2>1 DEF DatabaseFault
<1>14. CASE OnTaskDone(t)
  <2>1. task[t].job \in Job /\ status[task[t].job] # "absent"
    BY <1>1, <1>14 DEF OnTaskDone, TaskShape
  <2>2. TypeOK'
    BY <1>1, <1>14, <2>1, IdleRecord DEF OnTaskDone, TypeOK
  <2>3. RequestShape'
    BY <1>1, <1>14 DEF OnTaskDone, RequestShape, Claims, KindOf
  <2>4. task' = [task EXCEPT ![t] = FreeTask] /\ FreeTask.pc = "free"
    BY <1>14 DEF OnTaskDone, FreeTask
  <2>5. TaskShape'
    BY <1>1, <1>14, <2>1, <2>4 DEF OnTaskDone, TypeOK, TaskShape
  <2>. QED BY <2>2, <2>3, <2>5 DEF ShapeInv
<1>15. CASE KillTask(t)
  BY <1>2, <1>3, <1>4, <1>15 DEF KillTask, Unfinished
<1>. QED BY <1>6, <1>7, <1>8, <1>9, <1>10, <1>11, <1>12, <1>13, <1>14, <1>15 DEF TaskStep

LEMMA JobKeepsShape ==
  ASSUME ShapeInv, NEW j \in Job, Cancel(j) \/ Finalize(j)
  PROVE  ShapeInv'
<1>1. TypeOK /\ RequestShape /\ TaskShape
  BY DEF ShapeInv
<1>2. CASE Cancel(j)
  <2>1. TypeOK'
    BY <1>1, <1>2, CancelEffect DEF Cancel, TypeOK
  <2>2. RequestShape'
    BY <1>1, <1>2 DEF Cancel, RequestShape, Claims, KindOf
  <2>3. TaskShape'
    BY <1>1, <1>2, CancelEffect DEF Cancel, TaskShape
  <2>. QED BY <2>1, <2>2, <2>3 DEF ShapeInv
<1>3. CASE Finalize(j)
  <2>1. faults' \in 0..MaxFaults
    BY <1>1, <1>3, LifecycleAssumption DEF Finalize, TypeOK
  <2>2. TypeOK'
    BY <1>1, <1>3, <2>1 DEF Finalize, SetStatus, TypeOK, JobStatus
  <2>3. RequestShape'
    BY <1>1, <1>3 DEF Finalize, SetStatus, TypeOK, RequestShape, Claims, KindOf
  <2>4. TaskShape'
    BY <1>1, <1>3 DEF Finalize, SetStatus, TypeOK, TaskShape
  <2>. QED BY <2>2, <2>3, <2>4 DEF ShapeInv
<1>. QED BY <1>2, <1>3

\* When the process stops its requests are idle and its tasks are free.
LEMMA StopEffect ==
  ASSUME Stop
  PROVE  /\ server' = "down" /\ lock' = NoRequest /\ finalizing' = {}
         /\ req' \in [Request -> RequestRecord] /\ task' \in [Task -> TaskRecord]
         /\ registered' \in [Job -> Task \cup {NoTask}]
         /\ \A r \in Request : req'[r] = IdleRequest
         /\ \A t \in Task : task'[t] = FreeTask
  BY IdleRecord DEF Stop

\* Pausing what runs neither creates a job nor touches one that does not run.
LEMMA PauseEffect ==
  ASSUME TypeOK, PauseAllRunning
  PROVE  /\ status' \in [Job -> JobStatus]
         /\ \A j \in Job : status[j] # "running" => status'[j] = status[j]
         /\ \A j \in Job : status[j] = "running" => status'[j] = "paused"
  BY DEF TypeOK, PauseAllRunning, JobStatus

LEMMA ServerKeepsShape ==
  ASSUME ShapeInv, ServerStep \/ Crash
  PROVE  ShapeInv'
<1>1. TypeOK /\ RequestShape /\ TaskShape
  BY DEF ShapeInv
<1>2. stops < MaxStops /\ stops' = stops + 1 => stops' \in 0..MaxStops
  BY <1>1, LifecycleAssumption DEF TypeOK
<1>3. CASE Shutdown
  <2>1. TypeOK'
    BY <1>1, <1>2, <1>3, ShutdownEffect DEF Shutdown, TypeOK
  <2>2. RequestShape'
    BY <1>1, <1>3, ShutdownEffect DEF RequestShape, Claims, IdleRequest
  <2>3. UNCHANGED <<status, finalizing>>
    BY <1>3 DEF Shutdown
  <2>4. TaskShape'
    BY <1>1, <1>3, <2>3, ShutdownEffect DEF TaskShape
  <2>. QED BY <2>1, <2>2, <2>4 DEF ShapeInv
<1>4. ASSUME Stop, UNCHANGED <<kind, faults, userCancelled>>,
             status' \in [Job -> JobStatus], stops' \in 0..MaxStops
      PROVE  ShapeInv'
  <2>1. TypeOK'
    BY <1>1, <1>4, StopEffect DEF TypeOK
  <2>2. RequestShape' /\ TaskShape'
    BY <1>4, StopEffect DEF RequestShape, TaskShape, Claims, IdleRequest, FreeTask
  <2>. QED BY <2>1, <2>2 DEF ShapeInv
<1>5. CASE PauseRunning
  BY <1>1, <1>4, <1>5, PauseEffect DEF PauseRunning, TypeOK
<1>6. CASE Crash
  BY <1>1, <1>2, <1>4, <1>6 DEF Crash, TypeOK
<1>7. CASE RecoverOnStartup
  <2>1. UNCHANGED <<kind, lock, req, task, registered, finalizing, faults, stops,
                    userCancelled>> /\ server' = "up" /\ PauseAllRunning
    BY <1>7 DEF RecoverOnStartup
  <2>2. TypeOK'
    BY <1>1, <2>1, PauseEffect DEF TypeOK
  <2>3. \A j \in Job : status[j] # "absent" => status'[j] # "absent"
    BY <1>1, <2>1, PauseEffect
  <2>4. finalizing \subseteq Job
    BY <1>1 DEF TypeOK
  <2>5. RequestShape' /\ TaskShape'
    BY <1>1, <2>1, <2>3, <2>4 DEF RequestShape, TaskShape, Claims, KindOf
  <2>. QED BY <2>2, <2>5 DEF ShapeInv
<1>. QED BY <1>3, <1>5, <1>6, <1>7 DEF ServerStep

LEMMA NextKeepsShape == ShapeInv /\ [Next]_vars => ShapeInv'
<1>. SUFFICES ASSUME ShapeInv, [Next]_vars PROVE ShapeInv'
  OBVIOUS
<1>1. CASE UNCHANGED vars
  BY <1>1 DEF vars, ShapeInv, TypeOK, RequestShape, TaskShape, Claims, KindOf
<1>2. CASE Next
  BY <1>2, RequestKeepsShape, TaskKeepsShape, JobKeepsShape, ServerKeepsShape DEF Next
<1>. QED BY <1>1, <1>2

\* The state of the JobManager has the types of TypeOK for any number of jobs,
\* requests and tasks: the jobs that requests and tasks write are jobs.
THEOREM TypeCorrect == Spec => []TypeOK
<1>1. Spec => []ShapeInv
  BY InitShape, NextKeepsShape, PTL DEF Spec
<1>2. ShapeInv => TypeOK
  BY DEF ShapeInv
<1>. QED BY <1>1, <1>2, PTL

(***************************************************************************)
(* One deletion at a time                                                  *)
(***************************************************************************)
OwnerInv == /\ LockHeld /\ UnfinishedIsRegistered /\ OneOwner
            /\ StatusOfTask /\ OneActive /\ DownIsEmpty

IInv == ShapeInv /\ OwnerInv

LEMMA InitOwner == Init => OwnerInv
  BY DEF Init, OwnerInv, LockHeld, UnfinishedIsRegistered, OneOwner, StatusOfTask, OneActive,
         DownIsEmpty, Active, Holds, KindOf, Claims, Occupies, Unfinished, IdleRequest, FreeTask

\* A step of a request that writes neither tasks nor statuses keeps what is
\* said of tasks.
LEMMA TasksUntouched ==
  ASSUME UnfinishedIsRegistered, StatusOfTask,
         UNCHANGED <<status, task, registered, finalizing>>, faults' = faults \/ faults' # 0
  PROVE  UnfinishedIsRegistered' /\ StatusOfTask'
  BY DEF UnfinishedIsRegistered, Unfinished, StatusOfTask

\* A request that ends claims nothing, holds nothing and is in nobody's way.
LEMMA EndKeepsOwner ==
  ASSUME IInv, NEW r \in Request, req[r].pc # "idle", EndRequest(r),
         UNCHANGED <<kind, status, task, registered, finalizing, server>>,
         faults' = faults \/ faults' # 0
  PROVE  OwnerInv'
<1>1. TypeOK /\ OwnerInv
  BY DEF IInv, ShapeInv
<1>2. /\ req'[r] = IdleRequest /\ \A q \in Request : q # r => req'[q] = req[q]
      /\ \A q \in Request : q # r /\ lock = q => lock' = q
  BY <1>1, RequestEnds
<1>3. ~Holds(r)' /\ ~Claims(r)'
  BY <1>2 DEF Holds, Claims, IdleRequest
<1>4. \A q \in Request : q # r => Holds(q)' = Holds(q) /\ Claims(q)' = Claims(q)
  BY <1>2 DEF Holds, Claims, KindOf
<1>5. UnfinishedIsRegistered' /\ StatusOfTask'
  BY <1>1, TasksUntouched DEF OwnerInv
<1>6. LockHeld'
  BY <1>1, <1>2, <1>3, <1>4 DEF OwnerInv, LockHeld
<1>7. OneOwner'
  BY <1>1, <1>2, <1>3, <1>4 DEF OwnerInv, OneOwner, Occupies
<1>8. OneActive'
  BY <1>1, <1>2, <1>3, <1>4 DEF OwnerInv, OneActive, Active, IdleRequest
<1>9. DownIsEmpty'
  BY <1>1, <1>2 DEF OwnerInv, DownIsEmpty, IdleRequest
<1>. QED BY <1>5, <1>6, <1>7, <1>8, <1>9 DEF OwnerInv

LEMMA CallKeepsOwner ==
  ASSUME IInv, NEW r \in Request, Call(r)
  PROVE  OwnerInv'
<1>1. TypeOK /\ OwnerInv
  BY DEF IInv, ShapeInv
<1>2. /\ server = "up" /\ req[r].pc = "idle"
      /\ UNCHANGED <<kind, status, lock, task, registered, faults, requestFrame>>
  BY DEF Call
<1>3. ~Holds(r)' /\ ~Claims(r)' /\ \A q \in Request : q # r => req'[q] = req[q]
  BY <1>1, CallEffect DEF Holds, Claims, KindOf
<1>4. \A q \in Request : q # r => Holds(q)' = Holds(q) /\ Claims(q)' = Claims(q)
  BY <1>3 DEF Holds, Claims, KindOf
<1>5. UnfinishedIsRegistered' /\ StatusOfTask'
  BY <1>1, <1>2, TasksUntouched DEF OwnerInv, requestFrame
<1>6. LockHeld'
  BY <1>1, <1>2, <1>3, <1>4 DEF OwnerInv, LockHeld
<1>7. OneOwner'
  BY <1>1, <1>2, <1>3, <1>4 DEF OwnerInv, OneOwner, Occupies, requestFrame
<1>8. OneActive'
  BY <1>1, <1>2, <1>3, <1>4, CallEffect DEF OwnerInv, OneActive, Active
<1>9. DownIsEmpty'
  BY <1>2 DEF DownIsEmpty, requestFrame
<1>. QED BY <1>5, <1>6, <1>7, <1>8, <1>9 DEF OwnerInv

LEMMA AcquireKeepsOwner ==
  ASSUME IInv, NEW r \in Request, AcquireLock(r)
  PROVE  OwnerInv'
<1>1. TypeOK /\ RequestShape /\ OwnerInv
  BY DEF IInv, ShapeInv
<1>. DEFINE pc == IF req[r].wants = "resume" THEN "read" ELSE "check"
<1>2. /\ req[r].pc = "lock" /\ lock = NoRequest /\ lock' = r /\ Go(r, pc)
      /\ UNCHANGED <<kind, status, task, registered, faults, requestFrame>>
  BY DEF AcquireLock
<1>3. /\ req'[r].pc = pc /\ req'[r].wants = req[r].wants /\ req'[r].job = req[r].job
      /\ \A q \in Request : q # r => req'[q] = req[q]
  BY <1>1, <1>2, RequestMoves DEF RequestState
<1>4. ~Claims(r)' /\ req'[r].pc \notin {"create", "mark", "announce", "launch"}
  BY <1>3 DEF Claims
<1>5. \A q \in Request : q # r => ~Holds(q) /\ ~Holds(q)' /\ Claims(q)' = Claims(q)
  BY <1>1, <1>2, <1>3, LifecycleAssumption DEF Holds, Claims, KindOf, OwnerInv, LockHeld
<1>6. UnfinishedIsRegistered' /\ StatusOfTask'
  BY <1>1, <1>2, TasksUntouched DEF OwnerInv, requestFrame
<1>7. LockHeld'
  BY <1>2, <1>5 DEF LockHeld
<1>8. OneOwner'
  BY <1>1, <1>2, <1>3, <1>4, <1>5 DEF OwnerInv, OneOwner, Occupies, requestFrame
<1>9. OneActive'
  BY <1>1, <1>2, <1>3, <1>4, <1>5 DEF OwnerInv, OneActive, Active
<1>10. DownIsEmpty'
  BY <1>1, <1>2 DEF OwnerInv, DownIsEmpty, requestFrame, IdleRequest
<1>. QED BY <1>6, <1>7, <1>8, <1>9, <1>10 DEF OwnerInv

\* resume makes the job its own: MayResume has excluded every other owner.
LEMMA ReadKeepsOwner ==
  ASSUME IInv, NEW r \in Request, ReadJob(r)
  PROVE  OwnerInv'
<1>1. TypeOK /\ RequestShape /\ TaskShape /\ OwnerInv
  BY DEF IInv, ShapeInv
<1>2. /\ req[r].pc = "read" /\ req[r].wants = "resume"
      /\ UNCHANGED <<kind, status, task, registered, faults, requestFrame>>
  BY <1>1 DEF ReadJob, RequestShape
<1>3. CASE EndRequest(r)
  BY <1>2, <1>3, EndKeepsOwner DEF requestFrame
<1>4. CASE MayResume(req[r].job) /\ Go(r, "check") /\ UNCHANGED lock
  <2>1. /\ req'[r].pc = "check" /\ req'[r].wants = "resume" /\ req'[r].job = req[r].job
        /\ \A q \in Request : q # r => req'[q] = req[q]
    BY <1>1, <1>2, <1>4, RequestMoves DEF RequestState
  <2>2. /\ req[r].job \in Job /\ status[req[r].job] \in {"pending", "paused"}
        /\ kind[req[r].job] = "delete" /\ ~LiveTask(req[r].job)
    BY <1>1, <1>2, <1>4 DEF RequestShape, MayResume, Resumable
  <2>3. /\ Holds(r)' = Holds(r)
        /\ \A q \in Request : q # r => Holds(q)' = Holds(q) /\ Claims(q)' = Claims(q)
    BY <1>2, <2>1 DEF Holds, Claims, KindOf
  <2>4. \A q \in Request : q # r /\ Claims(q) => req[q].job # req[r].job
    <3>1. Holds(r) /\ lock = r
      BY <1>1, <1>2 DEF Holds, KindOf, OwnerInv, LockHeld
    <3>2. ASSUME NEW q \in Request, q # r, Claims(q), req[q].job = req[r].job PROVE FALSE
      <4>1. KindOf(req[q].wants) = "delete"
        BY <1>1, <2>2, <3>2 DEF RequestShape
      <4>2. Holds(q)
        BY <3>2, <4>1 DEF Holds, Claims
      <4>. QED BY <1>1, <3>1, <3>2, <4>2 DEF OwnerInv, LockHeld
    <3>. QED BY <3>2
  <2>5. \A t \in Task : Occupies(t) => task[t].job # req[r].job
    <3>1. ASSUME NEW t \in Task, Occupies(t), task[t].job = req[r].job PROVE FALSE
      <4>1. CASE Unfinished(t)
        <5>1. registered[req[r].job] = t
          BY <1>1, <3>1, <4>1 DEF OwnerInv, UnfinishedIsRegistered
        <5>. QED BY <2>2, <4>1, <5>1, LifecycleAssumption DEF LiveTask
      <4>2. CASE ~Unfinished(t)
        BY <1>1, <2>2, <3>1, <4>2 DEF Unfinished, Occupies, OwnerInv, StatusOfTask
      <4>. QED BY <4>1, <4>2
    <3>. QED BY <3>1
  <2>6. req[r].job \notin finalizing
    BY <1>1, <2>2 DEF OwnerInv, StatusOfTask
  <2>7. UnfinishedIsRegistered' /\ StatusOfTask'
    BY <1>1, <1>2, TasksUntouched DEF OwnerInv, requestFrame
  <2>8. LockHeld'
    BY <1>1, <1>4, <2>1, <2>3 DEF OwnerInv, LockHeld
  <2>9. OneOwner'
    BY <1>1, <1>2, <2>1, <2>3, <2>4, <2>5, <2>6 DEF OwnerInv, OneOwner, Occupies, requestFrame
  <2>10. OneActive'
    BY <1>1, <1>2, <2>1, <2>3 DEF OwnerInv, OneActive, Active
  <2>11. DownIsEmpty'
    BY <1>1, <1>2 DEF OwnerInv, DownIsEmpty, requestFrame, IdleRequest
  <2>. QED BY <2>7, <2>8, <2>9, <2>10, <2>11 DEF OwnerInv
<1>. QED BY <1>3, <1>4 DEF ReadJob

LEMMA EnsureKeepsOwner ==
  ASSUME IInv, NEW r \in Request, EnsureNoRunning(r)
  PROVE  OwnerInv'
<1>1. TypeOK /\ RequestShape /\ OwnerInv
  BY DEF IInv, ShapeInv
<1>2. /\ req[r].pc = "check"
      /\ UNCHANGED <<kind, status, task, registered, faults, requestFrame>>
  BY DEF EnsureNoRunning
<1>3. CASE EndRequest(r)
  BY <1>2, <1>3, EndKeepsOwner DEF requestFrame
<1>. DEFINE pc == IF req[r].wants = "resume" THEN "mark" ELSE "create"
<1>4. CASE Active(KindOf(req[r].wants)) = {} /\ Go(r, pc) /\ UNCHANGED lock
  <2>1. /\ req'[r].pc = pc /\ req'[r].wants = req[r].wants /\ req'[r].job = req[r].job
        /\ \A q \in Request : q # r => req'[q] = req[q]
    BY <1>1, <1>4, RequestMoves DEF RequestState
  <2>2. \A q \in Request : Holds(q)' = Holds(q) /\ Claims(q)' = Claims(q) /\ req'[q].job = req[q].job
    BY <1>2, <2>1 DEF Holds, Claims, KindOf
  <2>3. Holds(r) => Active("delete") = {}
    BY <1>4 DEF Holds
  <2>4. UnfinishedIsRegistered' /\ StatusOfTask'
    BY <1>1, <1>2, TasksUntouched DEF OwnerInv, requestFrame
  <2>5. LockHeld'
    BY <1>1, <1>4, <2>2 DEF OwnerInv, LockHeld
  <2>6. OneOwner'
    BY <1>1, <1>2, <2>2 DEF OwnerInv, OneOwner, Occupies, requestFrame
  <2>7. OneActive'
    <3>1. Active("delete")' = Active("delete") /\ status' = status
      BY <1>2 DEF Active
    <3>. QED BY <1>1, <2>1, <2>2, <2>3, <3>1 DEF OwnerInv, OneActive
  <2>8. DownIsEmpty'
    BY <1>1, <1>2 DEF OwnerInv, DownIsEmpty, requestFrame, IdleRequest
  <2>. QED BY <2>4, <2>5, <2>6, <2>7, <2>8 DEF OwnerInv
<1>. QED BY <1>3, <1>4 DEF EnsureNoRunning

LEMMA CreateKeepsOwner ==
  ASSUME IInv, NEW r \in Request, CreateJob(r)
  PROVE  OwnerInv'
<1>1. TypeOK /\ RequestShape /\ TaskShape /\ OwnerInv
  BY DEF IInv, ShapeInv
<1>2. /\ req[r].pc = "create"
      /\ UNCHANGED <<lock, task, registered, faults, requestFrame>>
  BY DEF CreateJob
<1>3. PICK j \in Job :
         /\ status[j] = "absent"
         /\ status' = [status EXCEPT ![j] = "pending"]
         /\ kind' = [kind EXCEPT ![j] = req[r].wants]
         /\ req[r].wants \in AllKinds
         /\ req' \in [Request -> RequestRecord]
         /\ req'[r].pc = "launch" /\ req'[r].wants = req[r].wants /\ req'[r].job = j
         /\ \A q \in Request : q # r => req'[q] = req[q]
  BY <1>1, CreateEffect
<1>4. /\ status'[j] = "pending" /\ kind'[j] = req[r].wants
      /\ \A i \in Job : i # j => status'[i] = status[i] /\ kind'[i] = kind[i]
  BY <1>1, <1>3 DEF TypeOK
<1>5. /\ \A t \in Task : task[t].pc # "free" => task[t].job \in Job /\ task[t].job # j
      /\ j \notin finalizing /\ finalizing \subseteq Job
  BY <1>1, <1>3 DEF TaskShape, TypeOK
<1>6. \A q \in Request : Claims(q) => req[q].job \in Job /\ req[q].job # j
  BY <1>1, <1>3 DEF RequestShape
<1>7. /\ Holds(r)' = Holds(r)
      /\ \A q \in Request : q # r => Holds(q)' = Holds(q) /\ Claims(q)' = Claims(q)
  BY <1>2, <1>3 DEF Holds, Claims, KindOf
<1>8. UnfinishedIsRegistered'
  BY <1>1, <1>2 DEF OwnerInv, UnfinishedIsRegistered, Unfinished
<1>9. StatusOfTask'
  BY <1>1, <1>2, <1>4, <1>5 DEF OwnerInv, StatusOfTask, requestFrame
<1>10. LockHeld'
  BY <1>1, <1>2, <1>7 DEF OwnerInv, LockHeld
<1>11. OneOwner'
  BY <1>1, <1>2, <1>3, <1>5, <1>6, <1>7 DEF OwnerInv, OneOwner, Occupies, requestFrame
<1>12. OneActive'
  <2>1. CASE req[r].wants = "delete"
    <3>1. Holds(r) /\ Active("delete") = {}
      BY <1>1, <1>2, <2>1 DEF Holds, KindOf, OwnerInv, OneActive
    <3>2. Active("delete")' = {j}
      BY <1>4, <2>1, <3>1 DEF Active
    <3>3. \A q \in Request : q # r => ~Holds(q)'
      BY <1>1, <1>7, <3>1 DEF OwnerInv, LockHeld
    <3>4. \A q \in Request : req'[q].pc \in {"announce", "launch"}
                             => status'[req'[q].job] \in {"pending", "running"}
      BY <1>1, <1>3, <1>4, <1>6 DEF OwnerInv, OneActive, Claims
    <3>. QED BY <1>3, <3>2, <3>3, <3>4 DEF OneActive
  <2>2. CASE req[r].wants # "delete"
    <3>1. Active("delete")' = Active("delete")
      BY <1>3, <1>4, <2>2 DEF Active
    <3>2. \A q \in Request : req'[q].pc \in {"announce", "launch"}
                             => status'[req'[q].job] \in {"pending", "running"}
      BY <1>1, <1>3, <1>4, <1>6 DEF OwnerInv, OneActive, Claims
    <3>. QED BY <1>1, <1>3, <1>7, <3>1, <3>2 DEF OwnerInv, OneActive
  <2>. QED BY <2>1, <2>2
<1>13. DownIsEmpty'
  BY <1>1, <1>2 DEF OwnerInv, DownIsEmpty, requestFrame, IdleRequest
<1>. QED BY <1>8, <1>9, <1>10, <1>11, <1>12, <1>13 DEF OwnerInv

\* resume writes RUNNING on the only job that may now be active.
LEMMA MarkKeepsOwner ==
  ASSUME IInv, NEW r \in Request, ResumeMark(r)
  PROVE  OwnerInv'
<1>1. TypeOK /\ RequestShape /\ TaskShape /\ OwnerInv
  BY DEF IInv, ShapeInv
<1>. DEFINE j == req[r].job
<1>2. /\ req[r].pc = "mark" /\ req[r].wants = "resume" /\ j \in Job /\ kind[j] = "delete"
      /\ UNCHANGED <<kind, lock, task, registered, faults, requestFrame>>
      /\ Go(r, "announce")
  BY <1>1 DEF ResumeMark, RequestShape, Claims, KindOf
<1>3. /\ req'[r].pc = "announce" /\ req'[r].wants = req[r].wants /\ req'[r].job = j
      /\ \A q \in Request : q # r => req'[q] = req[q]
  BY <1>1, <1>2, RequestMoves DEF RequestState
<1>4. status'[j] = "running" /\ \A i \in Job : i # j => status'[i] = status[i]
  BY <1>1, <1>2 DEF TypeOK, ResumeMark, SetStatus
<1>5. Holds(r) /\ Claims(r) /\ Active("delete") = {}
  BY <1>1, <1>2 DEF Holds, Claims, KindOf, OwnerInv, OneActive
<1>6. \A q \in Request : Holds(q)' = Holds(q) /\ Claims(q)' = Claims(q) /\ req'[q].job = req[q].job
  BY <1>2, <1>3 DEF Holds, Claims, KindOf
<1>7. /\ \A t \in Task : Occupies(t) => task[t].job \in Job /\ task[t].job # j
      /\ j \notin finalizing /\ finalizing \subseteq Job
  BY <1>1, <1>5 DEF OwnerInv, OneOwner, TypeOK, TaskShape, Occupies
<1>8. UnfinishedIsRegistered'
  BY <1>1, <1>2 DEF OwnerInv, UnfinishedIsRegistered, Unfinished
<1>9. StatusOfTask'
  BY <1>1, <1>2, <1>4, <1>7 DEF OwnerInv, StatusOfTask, requestFrame, Occupies
<1>10. LockHeld'
  BY <1>1, <1>2, <1>6 DEF OwnerInv, LockHeld
<1>11. OneOwner'
  BY <1>1, <1>2, <1>6 DEF OwnerInv, OneOwner, Occupies, requestFrame
<1>12. OneActive'
  <2>1. Active("delete")' = {j}
    BY <1>2, <1>4, <1>5 DEF Active
  <2>2. \A q \in Request : q # r => ~Holds(q)'
    BY <1>1, <1>5, <1>6 DEF OwnerInv, LockHeld
  <2>3. \A q \in Request : req'[q].pc \in {"announce", "launch"}
                           => status'[req'[q].job] \in {"pending", "running"}
    BY <1>1, <1>3, <1>4 DEF OwnerInv, OneActive, RequestShape, Claims
  <2>. QED BY <1>3, <2>1, <2>2, <2>3 DEF OneActive
<1>13. DownIsEmpty'
  BY <1>1, <1>2 DEF OwnerInv, DownIsEmpty, requestFrame, IdleRequest
<1>. QED BY <1>8, <1>9, <1>10, <1>11, <1>12, <1>13 DEF OwnerInv

LEMMA AnnounceKeepsOwner ==
  ASSUME IInv, NEW r \in Request, ResumeAnnounce(r)
  PROVE  OwnerInv'
<1>1. TypeOK /\ OwnerInv
  BY DEF IInv, ShapeInv
<1>2. req[r].pc = "announce" /\ UNCHANGED <<kind, status, task, registered, requestFrame>>
  BY DEF ResumeAnnounce
<1>3. CASE faults < MaxFaults /\ faults' = faults + 1 /\ EndRequest(r)
  <2>1. faults' # 0
    BY <1>1, <1>3, LifecycleAssumption DEF TypeOK
  <2>. QED BY <1>2, <1>3, <2>1, EndKeepsOwner DEF requestFrame
<1>4. CASE Go(r, "launch") /\ UNCHANGED <<lock, faults>>
  <2>1. /\ req'[r].pc = "launch" /\ req'[r].wants = req[r].wants /\ req'[r].job = req[r].job
        /\ \A q \in Request : q # r => req'[q] = req[q]
    BY <1>1, <1>4, RequestMoves DEF RequestState
  <2>2. \A q \in Request : Holds(q)' = Holds(q) /\ Claims(q)' = Claims(q) /\ req'[q].job = req[q].job
    BY <1>2, <2>1 DEF Holds, Claims, KindOf
  <2>3. UnfinishedIsRegistered' /\ StatusOfTask'
    BY <1>1, <1>2, <1>4, TasksUntouched DEF OwnerInv, requestFrame
  <2>4. LockHeld'
    BY <1>1, <1>4, <2>2 DEF OwnerInv, LockHeld
  <2>5. OneOwner'
    BY <1>1, <1>2, <2>2 DEF OwnerInv, OneOwner, Occupies, requestFrame
  <2>6. OneActive'
    <3>1. Active("delete")' = Active("delete") /\ status' = status
      BY <1>2 DEF Active
    <3>. QED BY <1>1, <1>2, <2>1, <2>2, <3>1 DEF OwnerInv, OneActive
  <2>7. DownIsEmpty'
    BY <1>1, <1>2 DEF OwnerInv, DownIsEmpty, requestFrame, IdleRequest
  <2>. QED BY <2>3, <2>4, <2>5, <2>6, <2>7 DEF OwnerInv
<1>. QED BY <1>3, <1>4 DEF ResumeAnnounce

\* The job passes from the request to the new task.
LEMMA LaunchKeepsOwner ==
  ASSUME IInv, NEW r \in Request, Launch(r)
  PROVE  OwnerInv'
<1>1. TypeOK /\ RequestShape /\ TaskShape /\ OwnerInv
  BY DEF IInv, ShapeInv
<1>. DEFINE j == req[r].job
<1>2. /\ req[r].pc = "launch" /\ EndRequest(r) /\ Claims(r) /\ j \in Job
      /\ UNCHANGED <<kind, status, faults, requestFrame>>
  BY <1>1 DEF Launch, RequestShape, Claims
<1>3. PICK t \in Task :
         /\ task[t].pc = "free"
         /\ task' \in [Task -> TaskRecord]
         /\ task'[t].pc = "start" /\ task'[t].job = j
         /\ \A s \in Task : s # t => task'[s] = task[s]
         /\ registered' = [registered EXCEPT ![j] = t]
  BY <1>1, LaunchEffect
<1>4. /\ req'[r] = IdleRequest /\ \A q \in Request : q # r => req'[q] = req[q]
      /\ \A q \in Request : q # r /\ lock = q => lock' = q
  BY <1>1, <1>2, RequestEnds
<1>5. ~Holds(r)' /\ ~Claims(r)' /\ req'[r].pc = "idle"
  BY <1>4 DEF Holds, Claims, IdleRequest
<1>6. \A q \in Request : q # r => Holds(q)' = Holds(q) /\ Claims(q)' = Claims(q)
  BY <1>4 DEF Holds, Claims, KindOf
<1>7. /\ \A s \in Task : s # t => Occupies(s)' = Occupies(s) /\ Unfinished(s)' = Unfinished(s)
      /\ \A s \in Task : Occupies(s) => task[s].job # j
      /\ \A s \in Task : Unfinished(s) => Occupies(s)
      /\ j \notin finalizing
      /\ \A q \in Request : q # r /\ Claims(q) => req[q].job # j
  BY <1>1, <1>2, <1>3 DEF OwnerInv, OneOwner, Occupies, Unfinished
<1>8. UnfinishedIsRegistered'
  <2>1. registered'[j] = t /\ \A i \in Job : i # j => registered'[i] = registered[i]
    BY <1>1, <1>2, <1>3 DEF TypeOK
  <2>2. \A s \in Task : Unfinished(s) => task[s].job \in Job
    BY <1>1 DEF TaskShape, Unfinished
  <2>. QED BY <1>1, <1>3, <1>7, <2>1, <2>2 DEF OwnerInv, UnfinishedIsRegistered
<1>9. StatusOfTask'
  <2>1. status[j] \in {"pending", "running"}
    BY <1>1, <1>2 DEF OwnerInv, OneActive
  <2>. QED BY <1>1, <1>2, <1>3, <2>1 DEF OwnerInv, StatusOfTask, requestFrame
<1>10. LockHeld'
  BY <1>1, <1>4, <1>5, <1>6 DEF OwnerInv, LockHeld
<1>11. OneOwner'
  BY <1>1, <1>2, <1>3, <1>4, <1>5, <1>6, <1>7 DEF OwnerInv, OneOwner, requestFrame
<1>12. OneActive'
  <2>1. Active("delete")' = Active("delete") /\ status' = status
    BY <1>2 DEF Active
  <2>. QED BY <1>1, <1>4, <1>5, <1>6, <2>1 DEF OwnerInv, OneActive
<1>13. DownIsEmpty'
  BY <1>1, <1>2 DEF OwnerInv, DownIsEmpty, requestFrame, IdleRequest
<1>. QED BY <1>8, <1>9, <1>10, <1>11, <1>12, <1>13 DEF OwnerInv

LEMMA RequestKeepsOwner ==
  ASSUME IInv, NEW r \in Request, Call(r) \/ RequestStep(r)
  PROVE  OwnerInv'
<1>1. CASE Reject(r)
  BY <1>1, EndKeepsOwner DEF Reject, requestFrame
<1>. QED BY <1>1, CallKeepsOwner, AcquireKeepsOwner, ReadKeepsOwner, EnsureKeepsOwner,
           CreateKeepsOwner, MarkKeepsOwner, AnnounceKeepsOwner, LaunchKeepsOwner DEF RequestStep

\* What a step that leaves the requests and the lock alone keeps, when it makes
\* no further deletion active and writes no job that a request has claimed.
LEMMA RequestsUntouched ==
  ASSUME OwnerInv, UNCHANGED <<kind, lock, req>>, status \in [Job -> JobStatus],
         \A i \in Job : status'[i] \in {"pending", "running"}
                        => status[i] \in {"pending", "running"},
         \A q \in Request : Claims(q) => status'[req[q].job] = status[req[q].job]
  PROVE  LockHeld' /\ OneActive'
<1>1. \A q \in Request : Holds(q)' = Holds(q) /\ req'[q] = req[q]
  BY DEF Holds, KindOf
<1>2. \A q \in Request : req[q].pc \in {"announce", "launch"} => Claims(q)
  BY DEF Claims
<1>3. Active("delete")' \subseteq Active("delete")
  BY DEF Active
<1>4. LockHeld'
  BY <1>1 DEF OwnerInv, LockHeld
<1>. QED BY <1>1, <1>2, <1>3, <1>4 DEF OwnerInv, OneActive

\* A task moves on, gives up or ends without writing a status.
LEMMA MoveKeepsOwner ==
  ASSUME IInv, NEW t \in Task, NEW pc \in TaskState, GoTask(t, pc),
         task[t].pc # "free", Occupies(t) \/ pc \in {"returned", "killed"},
         pc \in {"work", "returned", "failing", "died", "killed"},
         Unfinished(t),
         pc = "work" => status[task[t].job] = "running",
         pc = "failing" /\ faults' = 0 => status[task[t].job] = "running",
         pc = "died" => status[task[t].job] \in {"running", "failed"},
         faults' = faults \/ faults' # 0,
         UNCHANGED <<status, taskFrame>>
  PROVE  OwnerInv'
<1>. USE DEF taskFrame
<1>1. TypeOK /\ TaskShape /\ OwnerInv
  BY DEF IInv, ShapeInv
<1>2. /\ task'[t].pc = pc /\ task'[t].job = task[t].job
      /\ \A s \in Task : s # t => task'[s] = task[s]
  BY <1>1, TaskMoves
<1>3. \A s \in Task : (Occupies(s)' => Occupies(s)) /\ task'[s].job = task[s].job
                      /\ (Unfinished(s)' => Unfinished(s))
  BY <1>2 DEF Occupies, Unfinished
<1>4. \A q \in Request : Claims(q)' = Claims(q)
  BY DEF Claims
<1>5. LockHeld' /\ OneActive'
  BY <1>1, RequestsUntouched DEF TypeOK
<1>6. UnfinishedIsRegistered'
  BY <1>1, <1>3 DEF OwnerInv, UnfinishedIsRegistered
<1>7. OneOwner'
  BY <1>1, <1>3, <1>4 DEF OwnerInv, OneOwner
<1>8. StatusOfTask'
  BY <1>1, <1>2 DEF OwnerInv, StatusOfTask
<1>9. DownIsEmpty'
  BY <1>1 DEF OwnerInv, DownIsEmpty
<1>. QED BY <1>5, <1>6, <1>7, <1>8, <1>9 DEF OwnerInv

\* A task writes the status of its own job.
LEMMA WriteKeepsOwner ==
  ASSUME IInv, NEW t \in Task, NEW pc \in TaskState, GoTask(t, pc),
         task[t].pc \in {"start", "finish", "failing"},
         NEW st \in JobStatus, SetStatus(task[t].job, st),
         \/ pc = "announce" /\ st = "running" /\ task[t].pc = "start"
         \/ pc = "report" /\ st \in {"paused", "completed", "cancelled"}
         \/ pc = "failReport" /\ st = "failed",
         UNCHANGED <<faults, taskFrame>>
  PROVE  OwnerInv'
<1>. USE DEF taskFrame
<1>. DEFINE j == task[t].job
<1>1. TypeOK /\ RequestShape /\ TaskShape /\ OwnerInv
  BY DEF IInv, ShapeInv
<1>2. /\ task'[t].pc = pc /\ task'[t].job = j
      /\ \A s \in Task : s # t => task'[s] = task[s]
  BY <1>1, TaskMoves
<1>3. Occupies(t) /\ Unfinished(t) /\ j \in Job
  BY <1>1 DEF Occupies, Unfinished, TaskShape
<1>4. status'[j] = st /\ \A i \in Job : i # j => status'[i] = status[i]
  BY <1>1, <1>3 DEF TypeOK, SetStatus
<1>5. \A s \in Task : (Occupies(s)' => Occupies(s)) /\ task'[s].job = task[s].job
                      /\ (Unfinished(s)' => Unfinished(s))
  BY <1>2, <1>3 DEF Occupies, Unfinished
<1>6. /\ \A s \in Task : s # t /\ Occupies(s) => task[s].job # j
      /\ j \notin finalizing /\ finalizing \subseteq Job
      /\ \A q \in Request : Claims(q) => req[q].job \in Job /\ req[q].job # j
      /\ \A q \in Request : Claims(q)' = Claims(q)
  BY <1>1, <1>3 DEF OwnerInv, OneOwner, TypeOK, RequestShape, Claims
<1>7. LockHeld' /\ OneActive'
  <2>1. status'[j] \in {"pending", "running"} => status[j] \in {"pending", "running"}
    BY <1>1, <1>4 DEF OwnerInv, StatusOfTask
  <2>2. status \in [Job -> JobStatus]
    BY <1>1 DEF TypeOK
  <2>. QED BY <1>1, <1>4, <1>6, <2>1, <2>2, RequestsUntouched
<1>8. UnfinishedIsRegistered'
  BY <1>1, <1>5 DEF OwnerInv, UnfinishedIsRegistered
<1>9. OneOwner'
  BY <1>1, <1>5, <1>6 DEF OwnerInv, OneOwner
<1>10. StatusOfTask'
  <2>1. \A s \in Task : s # t /\ Occupies(s) => task[s].job \in Job /\ task[s].job # j
    BY <1>1, <1>6 DEF TaskShape, Occupies
  <2>. QED BY <1>1, <1>2, <1>4, <1>6, <2>1 DEF OwnerInv, StatusOfTask, Occupies
<1>11. DownIsEmpty'
  BY <1>1 DEF OwnerInv, DownIsEmpty
<1>. QED BY <1>7, <1>8, <1>9, <1>10, <1>11 DEF OwnerInv

LEMMA EndWorkKeepsOwner ==
  ASSUME IInv, NEW t \in Task, EndWork(t)
  PROVE  OwnerInv'
<1>. USE DEF taskFrame
<1>1. TypeOK /\ TaskShape /\ OwnerInv
  BY DEF IInv, ShapeInv
<1>2. /\ task'[t].pc = "finish" /\ task'[t].job = task[t].job
      /\ \A s \in Task : s # t => task'[s] = task[s]
  BY <1>1, EndWorkEffect
<1>3. task[t].pc = "work" /\ UNCHANGED <<status, faults, taskFrame>>
  BY DEF EndWork
<1>4. \A s \in Task : Occupies(s)' = Occupies(s) /\ task'[s].job = task[s].job
                      /\ Unfinished(s)' = Unfinished(s)
  BY <1>2, <1>3 DEF Occupies, Unfinished
<1>5. \A q \in Request : Claims(q)' = Claims(q)
  BY <1>3 DEF Claims
<1>6. LockHeld' /\ OneActive'
  BY <1>1, <1>3, RequestsUntouched DEF TypeOK
<1>7. UnfinishedIsRegistered'
  BY <1>1, <1>3, <1>4 DEF OwnerInv, UnfinishedIsRegistered
<1>8. OneOwner'
  BY <1>1, <1>3, <1>4, <1>5 DEF OwnerInv, OneOwner
<1>9. StatusOfTask'
  BY <1>1, <1>2, <1>3 DEF OwnerInv, StatusOfTask
<1>10. DownIsEmpty'
  BY <1>1, <1>2, <1>3 DEF OwnerInv, DownIsEmpty
<1>. QED BY <1>6, <1>7, <1>8, <1>9, <1>10 DEF OwnerInv

\* A dead task passes its job to a finalizer, any other lets go of it.
LEMMA DoneKeepsOwner ==
  ASSUME IInv, NEW t \in Task, OnTaskDone(t)
  PROVE  OwnerInv'
<1>1. TypeOK /\ TaskShape /\ OwnerInv
  BY DEF IInv, ShapeInv
<1>. DEFINE j == task[t].job
<1>2. /\ task[t].pc \in {"returned", "died", "killed"} /\ j \in Job
      /\ registered' = [registered EXCEPT ![j] = IF @ = t THEN NoTask ELSE @]
      /\ finalizing' = IF task[t].pc = "died" THEN finalizing \cup {j} ELSE finalizing
      /\ task' = [task EXCEPT ![t] = FreeTask]
      /\ UNCHANGED <<kind, status, lock, req, server, faults>>
  BY <1>1 DEF OnTaskDone, TaskShape
<1>3. task'[t].pc = "free" /\ \A s \in Task : s # t => task'[s] = task[s]
  BY <1>1, <1>2 DEF TypeOK, FreeTask
<1>4. /\ ~Occupies(t)' /\ ~Unfinished(t)' /\ ~Unfinished(t)
      /\ \A s \in Task : s # t => /\ Occupies(s)' = Occupies(s)
                                  /\ Unfinished(s)' = Unfinished(s)
  BY <1>2, <1>3 DEF Occupies, Unfinished
<1>5. \A q \in Request : Claims(q)' = Claims(q)
  BY <1>2 DEF Claims
<1>6. LockHeld' /\ OneActive'
  BY <1>1, <1>2, RequestsUntouched DEF TypeOK
<1>7. UnfinishedIsRegistered'
  <2>1. \A i \in Job : registered[i] # t => registered'[i] = registered[i]
    BY <1>1, <1>2 DEF TypeOK
  <2>2. \A s \in Task : Unfinished(s) => task[s].job \in Job
    BY <1>1 DEF TaskShape, Unfinished
  <2>. QED BY <1>1, <1>3, <1>4, <2>1, <2>2 DEF OwnerInv, UnfinishedIsRegistered
<1>8. task[t].pc = "died" => /\ Occupies(t) /\ status[j] \in {"running", "failed"}
  BY <1>1 DEF Occupies, OwnerInv, StatusOfTask
<1>9. OneOwner'
  <2>1. task[t].pc = "died" => /\ \A s \in Task : s # t /\ Occupies(s) => task[s].job # j
                               /\ \A q \in Request : Claims(q) => req[q].job # j
    BY <1>1, <1>8 DEF OwnerInv, OneOwner
  <2>2. \A s \in Task : Occupies(s)' => Occupies(s) /\ s # t /\ task'[s] = task[s]
    BY <1>3, <1>4
  <2>3. /\ \A s \in Task : Occupies(s)' => task'[s].job \notin finalizing'
        /\ \A q \in Request : Claims(q)' => req'[q].job \notin finalizing'
    BY <1>1, <1>2, <1>5, <2>1, <2>2 DEF OwnerInv, OneOwner
  <2>4. req' = req
    BY <1>2
  <2>. QED BY <1>1, <1>5, <2>2, <2>3, <2>4 DEF OwnerInv, OneOwner
<1>10. StatusOfTask'
  BY <1>1, <1>2, <1>3, <1>8 DEF OwnerInv, StatusOfTask
<1>11. DownIsEmpty'
  BY <1>1, <1>2 DEF OwnerInv, DownIsEmpty
<1>. QED BY <1>6, <1>7, <1>9, <1>10, <1>11 DEF OwnerInv

LEMMA TaskKeepsOwner ==
  ASSUME IInv, MaxFaults <= 1, NEW t \in Task, TaskStep(t) \/ KillTask(t)
  PROVE  OwnerInv'
<1>1. TypeOK /\ TaskShape /\ OwnerInv
  BY DEF IInv, ShapeInv
<1>2. {"announce", "work", "returned", "report", "failing", "failReport", "died", "killed"}
         \subseteq TaskState /\ {"running", "failed", "paused", "completed", "cancelled"}
         \subseteq JobStatus
  BY DEF TaskState, JobStatus
<1>3. CASE Begin(t)
  BY <1>2, <1>3, WriteKeepsOwner DEF Begin
<1>4. CASE Announce(t)
  <2>1. status[task[t].job] = "running" /\ Occupies(t) /\ Unfinished(t)
    BY <1>1, <1>4 DEF Announce, OwnerInv, StatusOfTask, Occupies, Unfinished
  <2>. QED BY <1>2, <1>4, <2>1, MoveKeepsOwner DEF Announce
<1>5. CASE EndWork(t)
  BY <1>5, EndWorkKeepsOwner
<1>6. CASE Finish(t)
  <2>1. task[t].target \in {"paused", "completed", "cancelled"}
    BY <1>1, <1>6 DEF Finish, TaskShape
  <2>. QED BY <1>2, <1>6, <2>1, WriteKeepsOwner DEF Finish
<1>7. CASE Report(t)
  BY <1>2, <1>7, MoveKeepsOwner DEF Report, Unfinished
<1>8. CASE FinishFailed(t)
  BY <1>2, <1>8, WriteKeepsOwner DEF FinishFailed
<1>9. CASE WorkRaises(t)
  <2>1. status[task[t].job] = "running" /\ Occupies(t) /\ Unfinished(t)
    BY <1>1, <1>9 DEF WorkRaises, OwnerInv, StatusOfTask, Occupies, Unfinished
  <2>. QED BY <1>2, <1>9, <2>1, MoveKeepsOwner DEF WorkRaises
<1>10. CASE DatabaseFault(t)
  <2>1. faults = 0 /\ faults' # 0
    BY <1>1, <1>10, LifecycleAssumption DEF TypeOK, DatabaseFault
  <2>2. UNCHANGED <<status, taskFrame>> /\ Occupies(t) /\ Unfinished(t) /\ task[t].pc # "free"
    BY <1>10 DEF DatabaseFault, Occupies, Unfinished
  <2>3. task[t].pc \in {"failing", "failReport"} => status[task[t].job] \in {"running", "failed"}
    BY <1>1, <2>1 DEF OwnerInv, StatusOfTask
  <2>4. CASE GoTask(t, "failing")
    BY <1>2, <2>1, <2>2, <2>4, MoveKeepsOwner
  <2>5. CASE task[t].pc \in {"failing", "failReport"} /\ GoTask(t, "died")
    BY <1>2, <2>1, <2>2, <2>3, <2>5, MoveKeepsOwner
  <2>. QED BY <1>10, <2>4, <2>5 DEF DatabaseFault
<1>11. CASE OnTaskDone(t)
  BY <1>11, DoneKeepsOwner
<1>12. CASE KillTask(t)
  BY <1>2, <1>12, MoveKeepsOwner DEF KillTask, Unfinished
<1>. QED BY <1>3, <1>4, <1>5, <1>6, <1>7, <1>8, <1>9, <1>10, <1>11, <1>12 DEF TaskStep

LEMMA JobKeepsOwner ==
  ASSUME IInv, NEW j \in Job, Cancel(j) \/ Finalize(j)
  PROVE  OwnerInv'
<1>1. TypeOK /\ TaskShape /\ RequestShape /\ OwnerInv
  BY DEF IInv, ShapeInv
<1>2. CASE Cancel(j)
  <2>1. /\ \A s \in Task : Occupies(s)' = Occupies(s) /\ Unfinished(s)' = Unfinished(s)
        /\ \A s \in Task : task'[s].pc = task[s].pc /\ task'[s].job = task[s].job
    BY <1>1, <1>2, CancelEffect DEF Occupies, Unfinished
  <2>2. UNCHANGED <<kind, status, lock, req, registered, finalizing, server, faults>>
        /\ server = "up"
    BY <1>2 DEF Cancel
  <2>3. LockHeld' /\ OneActive'
    BY <1>1, <2>2, RequestsUntouched DEF TypeOK
  <2>4. UnfinishedIsRegistered'
    BY <1>1, <2>1, <2>2 DEF OwnerInv, UnfinishedIsRegistered
  <2>5. \A q \in Request : Claims(q)' = Claims(q)
    BY <2>2 DEF Claims
  <2>6. OneOwner'
    BY <1>1, <2>1, <2>2, <2>5 DEF OwnerInv, OneOwner
  <2>7. StatusOfTask'
    BY <1>1, <2>1, <2>2 DEF OwnerInv, StatusOfTask
  <2>8. DownIsEmpty'
    BY <2>2 DEF DownIsEmpty
  <2>. QED BY <2>3, <2>4, <2>6, <2>7, <2>8 DEF OwnerInv
<1>3. CASE Finalize(j)
  <2>1. /\ j \in finalizing /\ finalizing' = finalizing \ {j}
        /\ UNCHANGED <<kind, lock, req, task, registered, server>>
    BY <1>3 DEF Finalize
  <2>2. /\ \A i \in Job : i # j => status'[i] = status[i]
        /\ status'[j] \in {status[j], "failed"}
        /\ faults' = faults \/ faults' # 0
    BY <1>1, <1>3, LifecycleAssumption DEF TypeOK, Finalize, SetStatus
  <2>3. /\ \A q \in Request : Claims(q)' = Claims(q) /\ (Claims(q) => req[q].job \in Job \ {j})
        /\ \A s \in Task : /\ Occupies(s)' = Occupies(s) /\ Unfinished(s)' = Unfinished(s)
                           /\ Occupies(s) => task[s].job \in Job \ {j}
    BY <1>1, <2>1 DEF OwnerInv, OneOwner, RequestShape, TaskShape, Claims, Occupies, Unfinished
  <2>4. LockHeld' /\ OneActive'
    BY <1>1, <2>1, <2>2, <2>3, RequestsUntouched DEF TypeOK
  <2>5. UnfinishedIsRegistered'
    BY <1>1, <2>1, <2>3 DEF OwnerInv, UnfinishedIsRegistered
  <2>6. OneOwner'
    BY <1>1, <2>1, <2>3 DEF OwnerInv, OneOwner
  <2>7. StatusOfTask'
    BY <1>1, <2>1, <2>2, <2>3 DEF OwnerInv, StatusOfTask, Occupies, TypeOK
  <2>8. DownIsEmpty'
    BY <1>1, <2>1 DEF OwnerInv, DownIsEmpty
  <2>. QED BY <2>4, <2>5, <2>6, <2>7, <2>8 DEF OwnerInv
<1>. QED BY <1>2, <1>3

LEMMA ServerKeepsOwner ==
  ASSUME IInv, ServerStep \/ Crash
  PROVE  OwnerInv'
<1>1. TypeOK /\ TaskShape /\ OwnerInv
  BY DEF IInv, ShapeInv
\* In memory only the finalizers can be left; no new deletion becomes active.
<1>2. ASSUME \A r \in Request : req'[r] = IdleRequest,
             UNCHANGED kind, status' \in [Job -> JobStatus],
             \A i \in Job : status'[i] \in {"pending", "running"}
                            => status[i] \in {"pending", "running"}
      PROVE  LockHeld' /\ OneActive' /\ \A q \in Request : ~Claims(q)'
  <2>1. \A q \in Request : ~Holds(q)' /\ ~Claims(q)' /\ req'[q].pc = "idle"
    BY <1>2 DEF Holds, Claims, IdleRequest
  <2>2. Active("delete")' \subseteq Active("delete")
    BY <1>2 DEF Active
  <2>. QED BY <1>1, <2>1, <2>2 DEF LockHeld, OwnerInv, OneActive
<1>3. CASE Shutdown
  <2>1. UNCHANGED <<kind, status, registered, finalizing, faults>> /\ server' = "stopping"
    BY <1>3 DEF Shutdown
  <2>2. /\ \A s \in Task : Occupies(s)' = Occupies(s) /\ Unfinished(s)' = Unfinished(s)
        /\ \A s \in Task : task'[s].pc = task[s].pc /\ task'[s].job = task[s].job
    BY <1>1, <1>3, ShutdownEffect DEF Occupies, Unfinished
  <2>3. LockHeld' /\ OneActive' /\ \A q \in Request : ~Claims(q)'
    BY <1>1, <1>2, <1>3, <2>1, ShutdownEffect DEF TypeOK
  <2>4. UnfinishedIsRegistered' /\ StatusOfTask' /\ DownIsEmpty'
    BY <1>1, <2>1, <2>2 DEF OwnerInv, UnfinishedIsRegistered, StatusOfTask, DownIsEmpty
  <2>5. OneOwner'
    BY <1>1, <2>1, <2>2, <2>3 DEF OwnerInv, OneOwner
  <2>. QED BY <2>3, <2>4, <2>5 DEF OwnerInv
<1>4. ASSUME Stop, UNCHANGED kind, status' \in [Job -> JobStatus],
             \A i \in Job : status'[i] \in {"pending", "running"}
                            => status[i] \in {"pending", "running"}
      PROVE  OwnerInv'
  <2>1. LockHeld' /\ OneActive' /\ \A q \in Request : ~Claims(q)'
    BY <1>2, <1>4, StopEffect
  <2>2. \A t \in Task : ~Occupies(t)' /\ ~Unfinished(t)' /\ task'[t].pc = "free"
    BY <1>4, StopEffect DEF Occupies, Unfinished, FreeTask
  <2>3. UnfinishedIsRegistered' /\ StatusOfTask' /\ DownIsEmpty' /\ OneOwner'
    BY <1>4, <2>1, <2>2, StopEffect
       DEF UnfinishedIsRegistered, StatusOfTask, DownIsEmpty, OneOwner
  <2>. QED BY <2>1, <2>3 DEF OwnerInv
<1>5. CASE PauseRunning
  BY <1>1, <1>4, <1>5, PauseEffect DEF PauseRunning
<1>6. CASE Crash
  BY <1>1, <1>4, <1>6 DEF Crash, TypeOK
<1>7. CASE RecoverOnStartup
  <2>1. /\ UNCHANGED <<kind, lock, req, task, registered, finalizing, faults>>
        /\ server = "down" /\ server' = "up" /\ PauseAllRunning
    BY <1>7 DEF RecoverOnStartup
  <2>2. /\ \A t \in Task : task[t].pc = "free"
        /\ finalizing = {}
        /\ \A r \in Request : req[r] = IdleRequest
    BY <1>1, <2>1 DEF OwnerInv, DownIsEmpty
  <2>3. LockHeld' /\ OneActive' /\ \A q \in Request : ~Claims(q)'
    BY <1>1, <1>2, <2>1, <2>2, PauseEffect
  <2>4. UnfinishedIsRegistered' /\ StatusOfTask' /\ DownIsEmpty' /\ OneOwner'
    BY <2>1, <2>2, <2>3
       DEF UnfinishedIsRegistered, Unfinished, StatusOfTask, DownIsEmpty, OneOwner, Occupies
  <2>. QED BY <2>3, <2>4 DEF OwnerInv
<1>. QED BY <1>3, <1>5, <1>6, <1>7 DEF ServerStep

LEMMA NextKeepsOwner == MaxFaults <= 1 /\ IInv /\ [Next]_vars => IInv'
<1>. SUFFICES ASSUME MaxFaults <= 1, IInv, [Next]_vars PROVE IInv'
  OBVIOUS
<1>1. ShapeInv'
  BY NextKeepsShape DEF IInv
<1>2. CASE UNCHANGED vars
  <2>1. OwnerInv
    BY DEF IInv
  <2>2. OwnerInv'
    BY <1>2, <2>1 DEF vars, OwnerInv, LockHeld, UnfinishedIsRegistered, OneOwner,
       StatusOfTask, OneActive, DownIsEmpty, Active, Holds, KindOf, Claims, Occupies, Unfinished
  <2>. QED BY <1>1, <2>2 DEF IInv
<1>3. CASE Next
  BY <1>1, <1>3, RequestKeepsOwner, TaskKeepsOwner, JobKeepsOwner, ServerKeepsOwner DEF Next, IInv
<1>. QED BY <1>2, <1>3

\* A task that works for a deletion has a pending or running job, and there is
\* at most one such job, with at most one task.
LEMMA OwnersAreAlone == IInv => OneDeleteAtATime
<1>. SUFFICES ASSUME IInv, NEW s \in Working("delete"), NEW t \in Working("delete")
             PROVE  s = t
  BY DEF OneDeleteAtATime
<1>1. TaskShape /\ OwnerInv
  BY DEF IInv, ShapeInv
<1>2. Occupies(s) /\ Occupies(t) /\ s \in Task /\ t \in Task
  BY DEF Working, Occupies
<1>3. task[s].job \in Active("delete") /\ task[t].job \in Active("delete")
  BY <1>1 DEF Working, Active, TaskShape, OwnerInv, StatusOfTask
<1>4. task[s].job = task[t].job
  BY <1>1, <1>3 DEF OwnerInv, OneActive
<1>. QED BY <1>1, <1>2, <1>4 DEF OwnerInv, OneOwner

\* Two deletions never run at once, whatever requests, resumptions, shutdowns
\* and crashes there are, when at most one database access of finishing or
\* publishing a job fails. With two failures the finalizer of a dead task can
\* overwrite the status of a job that has been resumed in the meantime.
THEOREM OneDelete ==
  ASSUME MaxFaults <= 1
  PROVE  Spec => []OneDeleteAtATime
<1>1. Init => IInv
  BY InitShape, InitOwner DEF IInv
<1>2. IInv /\ [Next]_vars => IInv'
  BY NextKeepsOwner
<1>. QED BY <1>1, <1>2, OwnersAreAlone, PTL DEF Spec

LEMMA IInvAlways ==
  ASSUME MaxFaults <= 1
  PROVE  Spec => []IInv
<1>1. Init => IInv
  BY InitShape, InitOwner DEF IInv
<1>2. IInv /\ [Next]_vars => IInv'
  BY NextKeepsOwner
<1>. QED BY <1>1, <1>2, PTL DEF Spec

\* Under the same assumption the registry is complete: cancel, shutdown and the
\* check of resume find every task that is not done.
THEOREM RegistryIsComplete ==
  ASSUME MaxFaults <= 1
  PROVE  Spec => []UnfinishedIsRegistered
<1>1. IInv => UnfinishedIsRegistered
  BY DEF IInv, OwnerInv
<1>. QED BY <1>1, IInvAlways, PTL

\* Under the same assumption no job ever has two tasks.
THEOREM OneTaskEach ==
  ASSUME MaxFaults <= 1
  PROVE  Spec => []OneTaskPerJob
<1>1. IInv => OneTaskPerJob
  BY DEF IInv, OwnerInv, OneTaskPerJob, UnfinishedIsRegistered
<1>. QED BY <1>1, IInvAlways, PTL

(***************************************************************************)
(* Who stands behind a status: what is said of ended, cancelled and        *)
(* blocking jobs                                                           *)
(***************************************************************************)
\* A registration belongs to a task that is there, and to its job.
RegisteredAreTheirs ==
    \A j \in Job : registered[j] # NoTask =>
        task[registered[j]].pc # "free" /\ task[registered[j]].job = j

\* Without a stop an event, and the status it leads to, is a user's.
EventIsUsers ==
    stops = 0 => \A t \in Task :
        /\ task[t].pc # "free" /\ task[t].event => task[t].job \in userCancelled
        /\ task[t].pc = "finish" /\ task[t].target = "cancelled"
              => task[t].job \in userCancelled

CancelInv == RegisteredAreTheirs /\ EventIsUsers /\ QuietCancelledByUser

\* A resumption that is past its reading has a job that can be resumed.
ResumesResumable ==
    \A r \in Request :
        req[r].wants = "resume" /\ req[r].pc \in {"check", "mark"}
            => status[req[r].job] \in Resumable

StoppedBefore == server # "up" => stops # 0

AnnouncedIsRunning == \A r \in Request : req[r].pc = "announce" => status[req[r].job] # "pending"

ReportedIsOver == \A t \in Task : task[t].pc = "report" =>
                      status[task[t].job] \in {"paused", "completed", "cancelled"}

\* Somebody who is not done with job j.
InHands(j) ==
    \/ \E t \in Task : Occupies(t) /\ task[t].job = j
    \/ j \in finalizing
    \/ \E r \in Request : req[r].job = j /\ req[r].pc \in {"announce", "launch"}

Held ==
    server = "up" => \A j \in Job : status[j] \in {"pending", "running"} =>
        \/ InHands(j)
        \/ status[j] = "pending" /\ stops # 0
        \/ status[j] = "running" /\ faults # 0

HeldInv == ResumesResumable /\ StoppedBefore /\ AnnouncedIsRunning /\ ReportedIsOver /\ Held

\* What a task keeps of its registration when only its place changes.
LEMMA CancelMove ==
  ASSUME ShapeInv, CancelInv, NEW t \in Task, NEW pc \in TaskState, GoTask(t, pc),
         task[t].pc # "free", pc \notin {"free", "finish"},
         UNCHANGED <<registered, stops, userCancelled>>,
         \A j \in Job : status'[j] = "cancelled" =>
             status[j] = "cancelled" \/ (stops = 0 => j \in userCancelled)
  PROVE  CancelInv'
<1>1. TypeOK
  BY DEF ShapeInv
<1>2. /\ task'[t].pc = pc /\ task'[t].job = task[t].job /\ task'[t].event = task[t].event
      /\ \A s \in Task : s # t => task'[s] = task[s]
  BY <1>1, TaskMoves
<1>3. RegisteredAreTheirs'
  BY <1>1, <1>2 DEF CancelInv, RegisteredAreTheirs, TypeOK
<1>4. EventIsUsers'
  BY <1>2 DEF CancelInv, EventIsUsers
<1>5. QuietCancelledByUser'
  BY DEF CancelInv, QuietCancelledByUser
<1>. QED BY <1>3, <1>4, <1>5 DEF CancelInv

LEMMA CancelInitial == Init => CancelInv
  BY DEF Init, CancelInv, RegisteredAreTheirs, EventIsUsers, QuietCancelledByUser, FreeTask

\* A request launches a task without an event; a job it creates or marks is not
\* cancelled.
LEMMA RequestKeepsCancel ==
  ASSUME ShapeInv, CancelInv, NEW r \in Request, Call(r) \/ RequestStep(r)
  PROVE  CancelInv'
<1>. USE DEF requestFrame
<1>1. TypeOK /\ RequestShape
  BY DEF ShapeInv
<1>2. CASE Launch(r)
  <2>0. UNCHANGED <<status, stops, userCancelled>>
    BY <1>2 DEF Launch
  <2>1. req[r].job \in Job /\ RegisteredAreTheirs /\ EventIsUsers /\ QuietCancelledByUser
    BY <1>1, <1>2, LaunchEffect DEF CancelInv
  <2>2. PICK t \in Task :
          /\ task[t].pc = "free"
          /\ task' = [task EXCEPT ![t] = [FreeTask EXCEPT !.pc = "start", !.job = req[r].job]]
          /\ registered' = [registered EXCEPT ![req[r].job] = t]
    BY <1>2 DEF Launch
  <2>3. /\ task'[t].pc = "start" /\ task'[t].job = req[r].job /\ ~task'[t].event
        /\ \A s \in Task : s # t => task'[s] = task[s]
    BY <1>1, <2>2 DEF TypeOK, FreeTask
  <2>4. RegisteredAreTheirs'
    BY <1>1, <2>1, <2>2, <2>3 DEF RegisteredAreTheirs, TypeOK
  <2>5. EventIsUsers'
    BY <2>0, <2>1, <2>3 DEF EventIsUsers
  <2>6. QuietCancelledByUser'
    BY <2>0, <2>1 DEF QuietCancelledByUser
  <2>. QED BY <2>4, <2>5, <2>6 DEF CancelInv
<1>3. CASE ~Launch(r)
  <2>1. UNCHANGED <<task, registered, stops, userCancelled>>
    BY <1>3 DEF Call, RequestStep, AcquireLock, ReadJob, EnsureNoRunning, Reject, CreateJob,
       ResumeMark, ResumeAnnounce
  <2>2. \A j \in Job : status'[j] = "cancelled" => status[j] = "cancelled"
    BY <1>1, <1>3 DEF Call, RequestStep, AcquireLock, ReadJob, EnsureNoRunning, Reject, CreateJob,
       ResumeMark, ResumeAnnounce, TypeOK
  <2>. QED BY <2>1, <2>2 DEF CancelInv, RegisteredAreTheirs, EventIsUsers, QuietCancelledByUser
<1>. QED BY <1>2, <1>3

LEMMA TaskKeepsCancel ==
  ASSUME ShapeInv, CancelInv, NEW t \in Task, TaskStep(t) \/ KillTask(t)
  PROVE  CancelInv'
<1>. USE DEF taskFrame
<1>1. TypeOK /\ TaskShape
  BY DEF ShapeInv
<1>2. {"announce", "work", "returned", "report", "failing", "failReport", "died", "killed"}
         \subseteq TaskState
  BY DEF TaskState
<1>3. CASE Begin(t)
  <2>1. \A j \in Job : status'[j] = "cancelled" => status[j] = "cancelled"
    BY <1>1, <1>3 DEF Begin, SetStatus, TypeOK
  <2>. QED BY <1>2, <1>3, <2>1, CancelMove DEF Begin
<1>4. CASE FinishFailed(t)
  <2>1. \A j \in Job : status'[j] = "cancelled" => status[j] = "cancelled"
    BY <1>1, <1>4 DEF FinishFailed, SetStatus, TypeOK
  <2>. QED BY <1>2, <1>4, <2>1, CancelMove DEF FinishFailed
<1>5. CASE Finish(t)
  <2>1. \A j \in Job : status'[j] = "cancelled" =>
            status[j] = "cancelled" \/ (stops = 0 => j \in userCancelled)
    BY <1>1, <1>5 DEF Finish, SetStatus, TypeOK, CancelInv, EventIsUsers
  <2>. QED BY <1>2, <1>5, <2>1, CancelMove DEF Finish
<1>6. CASE EndWork(t)
  <2>1. PICK s \in Outcomes(t) : task' = [task EXCEPT ![t].pc = "finish", ![t].target = s]
    BY <1>6 DEF EndWork
  <2>2. /\ task'[t].pc = "finish" /\ task'[t].job = task[t].job /\ task'[t].target = s
        /\ task'[t].event = task[t].event
        /\ \A q \in Task : q # t => task'[q] = task[q]
        /\ s = "cancelled" => task[t].event
    BY <1>1, <2>1 DEF TypeOK, TaskRecord, Outcomes
  <2>3. task[t].pc = "work" /\ UNCHANGED <<status, registered, stops, userCancelled>>
    BY <1>6 DEF EndWork
  <2>4. RegisteredAreTheirs'
    BY <1>1, <2>2, <2>3 DEF CancelInv, RegisteredAreTheirs, TypeOK
  <2>5. EventIsUsers'
    BY <2>2, <2>3 DEF CancelInv, EventIsUsers
  <2>. QED BY <2>3, <2>4, <2>5 DEF CancelInv, QuietCancelledByUser
<1>7. CASE OnTaskDone(t)
  <2>1. /\ task[t].pc \in {"returned", "died", "killed"} /\ task[t].job \in Job
        /\ registered' = [registered EXCEPT ![task[t].job] = IF @ = t THEN NoTask ELSE @]
        /\ task' = [task EXCEPT ![t] = FreeTask]
        /\ UNCHANGED <<status, stops, userCancelled>>
    BY <1>1, <1>7 DEF OnTaskDone, TaskShape
  <2>2. task'[t] = FreeTask /\ \A s \in Task : s # t => task'[s] = task[s]
    BY <1>1, <2>1 DEF TypeOK
  <2>3. \A j \in Job : registered'[j] # NoTask => registered'[j] = registered[j] /\ registered[j] # t
    BY <1>1, <2>1 DEF TypeOK, CancelInv, RegisteredAreTheirs
  <2>4. RegisteredAreTheirs'
    BY <1>1, <2>2, <2>3 DEF TypeOK, CancelInv, RegisteredAreTheirs
  <2>5. EventIsUsers'
    BY <2>1, <2>2 DEF CancelInv, EventIsUsers, FreeTask
  <2>. QED BY <2>1, <2>4, <2>5 DEF CancelInv, QuietCancelledByUser
<1>8. CASE Announce(t) \/ Report(t) \/ WorkRaises(t) \/ DatabaseFault(t) \/ KillTask(t)
  <2>1. PICK pc \in {"work", "returned", "failing", "died", "killed"} : GoTask(t, pc)
    BY <1>8 DEF Announce, Report, WorkRaises, DatabaseFault, KillTask
  <2>2. task[t].pc # "free" /\ UNCHANGED <<status, registered, stops, userCancelled>>
    BY <1>8 DEF Announce, Report, WorkRaises, DatabaseFault, KillTask, Unfinished
  <2>. QED BY <1>2, <2>1, <2>2, CancelMove
<1>. QED BY <1>3, <1>4, <1>5, <1>6, <1>7, <1>8 DEF TaskStep

LEMMA CancelKeeps == ShapeInv /\ CancelInv /\ [Next]_vars => CancelInv'
<1>. SUFFICES ASSUME ShapeInv, CancelInv, [Next]_vars PROVE CancelInv'
  OBVIOUS
<1>1. TypeOK /\ TaskShape /\ RegisteredAreTheirs /\ EventIsUsers /\ QuietCancelledByUser
  BY DEF ShapeInv, CancelInv
<1>2. ASSUME NEW j \in Job, Cancel(j) PROVE CancelInv'
  <2>1. /\ registered[j] \in Task /\ UNCHANGED <<status, registered, stops>>
        /\ task' = [task EXCEPT ![registered[j]].event = TRUE]
        /\ userCancelled' = userCancelled \cup {j}
    BY <1>1, <1>2 DEF Cancel, TypeOK
  <2>2. \A s \in Task : /\ task'[s].pc = task[s].pc /\ task'[s].job = task[s].job
                        /\ task'[s].target = task[s].target
                        /\ s # registered[j] => task'[s].event = task[s].event
    BY <1>1, <2>1 DEF TypeOK, TaskRecord
  <2>3. task[registered[j]].job = j
    BY <1>1, <1>2 DEF Cancel, RegisteredAreTheirs
  <2>4. RegisteredAreTheirs'
    BY <1>1, <2>1, <2>2 DEF RegisteredAreTheirs, TypeOK
  <2>5. EventIsUsers'
    BY <1>1, <2>1, <2>2, <2>3 DEF EventIsUsers
  <2>. QED BY <1>1, <2>1, <2>4, <2>5 DEF CancelInv, QuietCancelledByUser
<1>3. ASSUME NEW j \in Job, Finalize(j) PROVE CancelInv'
  <2>1. UNCHANGED <<task, registered, stops, userCancelled>>
    BY <1>3 DEF Finalize
  <2>2. \A i \in Job : status'[i] = "cancelled" => status[i] = "cancelled"
    BY <1>1, <1>3 DEF Finalize, SetStatus, TypeOK
  <2>. QED BY <1>1, <2>1, <2>2 DEF CancelInv, RegisteredAreTheirs, EventIsUsers, QuietCancelledByUser
<1>4. CASE Shutdown
  <2>1. stops' # 0 /\ registered' = registered
    BY <1>1, <1>4, LifecycleAssumption DEF Shutdown, TypeOK
  <2>2. RegisteredAreTheirs'
    BY <1>1, <1>4, <2>1, ShutdownEffect DEF RegisteredAreTheirs, TypeOK
  <2>. QED BY <2>1, <2>2 DEF CancelInv, EventIsUsers, QuietCancelledByUser
<1>5. CASE PauseRunning \/ Crash
  <2>1. Stop /\ registered' = [j \in Job |-> NoTask] /\ userCancelled' = userCancelled
    BY <1>5 DEF PauseRunning, Crash, Stop
  <2>2. stops' = 0 => stops = 0
    BY <1>1, <1>5, LifecycleAssumption DEF PauseRunning, Crash, TypeOK
  <2>3. \A i \in Job : status'[i] = "cancelled" => status[i] = "cancelled"
    BY <1>1, <1>5, PauseEffect DEF PauseRunning, Crash
  <2>4. \A t \in Task : task'[t].pc = "free"
    BY <2>1, StopEffect DEF FreeTask
  <2>. QED BY <1>1, <2>1, <2>2, <2>3, <2>4
       DEF CancelInv, RegisteredAreTheirs, EventIsUsers, QuietCancelledByUser
<1>6. CASE RecoverOnStartup
  <2>1. UNCHANGED <<task, registered, stops, userCancelled>> /\ PauseAllRunning
    BY <1>6 DEF RecoverOnStartup
  <2>2. \A i \in Job : status'[i] = "cancelled" => status[i] = "cancelled"
    BY <1>1, <2>1, PauseEffect
  <2>. QED BY <1>1, <2>1, <2>2 DEF CancelInv, RegisteredAreTheirs, EventIsUsers, QuietCancelledByUser
<1>7. CASE UNCHANGED vars
  BY <1>1, <1>7 DEF vars, CancelInv, RegisteredAreTheirs, EventIsUsers, QuietCancelledByUser
<1>. QED BY <1>2, <1>3, <1>4, <1>5, <1>6, <1>7, RequestKeepsCancel, TaskKeepsCancel DEF Next, ServerStep

\* CANCELLED is the state of a job that the user has stopped, as long as the server
\* has not stopped: for any number of faults.
THEOREM CancelledByUser == Spec => []QuietCancelledByUser
<1>1. Init => ShapeInv /\ CancelInv
  BY InitShape, CancelInitial
<1>2. (ShapeInv /\ CancelInv) /\ [Next]_vars => (ShapeInv /\ CancelInv)'
  BY NextKeepsShape, CancelKeeps
<1>3. CancelInv => QuietCancelledByUser
  BY DEF CancelInv
<1>. QED BY <1>1, <1>2, <1>3, PTL DEF Spec

\* Before any step the invariant holds.
LEMMA HeldInitial == Init => HeldInv
  BY DEF Init, HeldInv, ResumesResumable, StoppedBefore, AnnouncedIsRunning, ReportedIsOver, Held,
     IdleRequest, FreeTask

\* A step that writes at most the status of job j, which no resumption that is past
\* its reading and no task that reports waits for, keeps what they rely on.
LEMMA WriteKeepsHeld ==
  ASSUME IInv, HeldInv, NEW j \in Job, NEW s \in JobStatus \ {"pending"},
         status' = [status EXCEPT ![j] = s],
         UNCHANGED req,
         \A q \in Request : Claims(q) => req[q].job # j,
         \A t \in Task : task'[t].pc = "report" =>
             \/ task[t].pc = "report" /\ task'[t].job = task[t].job /\ task[t].job # j
             \/ task'[t].job = j /\ s \in {"paused", "completed", "cancelled"}
  PROVE  ResumesResumable' /\ AnnouncedIsRunning' /\ ReportedIsOver'
<1>1. TypeOK /\ RequestShape /\ TaskShape
  BY DEF IInv, ShapeInv
<1>2. status'[j] = s /\ \A i \in Job : i # j => status'[i] = status[i]
  BY <1>1 DEF TypeOK
<1>3. ResumesResumable'
  BY <1>1, <1>2 DEF HeldInv, ResumesResumable, Claims, RequestShape
<1>4. AnnouncedIsRunning'
  BY <1>1, <1>2 DEF HeldInv, AnnouncedIsRunning, Claims, RequestShape
<1>5. ReportedIsOver'
  BY <1>1, <1>2 DEF HeldInv, ReportedIsOver, TaskShape
<1>. QED BY <1>3, <1>4, <1>5

\* A request that creates or marks a job has it in hand until its task does; only
\* a failing publication lets go of a running job.
LEMMA RequestKeepsHeld ==
  ASSUME IInv, HeldInv, NEW r \in Request, Call(r) \/ RequestStep(r)
  PROVE  HeldInv'
<1>. USE DEF requestFrame
<1>1. TypeOK /\ RequestShape /\ TaskShape /\ OwnerInv
  BY DEF IInv, ShapeInv
<1>2. ResumesResumable /\ StoppedBefore /\ AnnouncedIsRunning /\ ReportedIsOver /\ Held
  BY DEF HeldInv
<1>3. UNCHANGED <<finalizing, server, stops>> /\ StoppedBefore'
  BY <1>2 DEF Call, RequestStep, AcquireLock, ReadJob, EnsureNoRunning, Reject, CreateJob,
     ResumeMark, ResumeAnnounce, Launch, StoppedBefore
<1>4. ASSUME UNCHANGED <<status, task, faults>>,
             \A q \in Request : q # r => req'[q] = req[q],
             req[r].pc \notin {"announce", "launch"},
             req'[r].pc \notin {"announce", "launch"},
             req'[r].wants = "resume" /\ req'[r].pc \in {"check", "mark"} =>
                 status[req'[r].job] \in Resumable
      PROVE  HeldInv'
  <2>1. ResumesResumable' /\ AnnouncedIsRunning' /\ ReportedIsOver'
    BY <1>2, <1>4 DEF ResumesResumable, AnnouncedIsRunning, ReportedIsOver
  <2>2. \A j \in Job : InHands(j) => InHands(j)'
    BY <1>3, <1>4 DEF InHands, Occupies
  <2>3. Held'
    BY <1>2, <1>3, <1>4, <2>2 DEF Held
  <2>. QED BY <1>3, <2>1, <2>3 DEF HeldInv
<1>5. ASSUME EndRequest(r), req[r].pc \notin {"announce", "launch"},
             UNCHANGED <<status, task, faults>>
      PROVE  HeldInv'
  <2>1. req'[r] = IdleRequest /\ \A q \in Request : q # r => req'[q] = req[q]
    BY <1>1, <1>5, RequestEnds
  <2>. QED BY <1>4, <1>5, <2>1 DEF IdleRequest
<1>6. CASE Call(r)
  <2>1. /\ req'[r].pc \in {"lock", "check"}
        /\ req'[r].wants = "resume" => req'[r].pc = "lock"
        /\ \A q \in Request : q # r => req'[q] = req[q]
    BY <1>1, <1>6, LifecycleAssumption DEF Call, TypeOK
  <2>. QED BY <1>4, <1>6, <2>1 DEF Call
<1>7. CASE AcquireLock(r)
  <2>. DEFINE pc == IF req[r].wants = "resume" THEN "read" ELSE "check"
  <2>1. pc \in RequestState /\ Go(r, pc)
    BY <1>7 DEF AcquireLock, RequestState
  <2>2. /\ req'[r].pc = pc /\ req'[r].wants = req[r].wants
        /\ \A q \in Request : q # r => req'[q] = req[q]
    BY <1>1, <2>1, RequestMoves
  <2>. QED BY <1>4, <1>7, <2>2 DEF AcquireLock
<1>8. CASE ReadJob(r)
  <2>1. CASE MayResume(req[r].job) /\ Go(r, "check") /\ UNCHANGED lock
    <3>1. /\ req'[r].pc = "check" /\ req'[r].job = req[r].job
          /\ \A q \in Request : q # r => req'[q] = req[q]
      BY <1>1, <2>1, RequestMoves DEF RequestState
    <3>. QED BY <1>4, <1>8, <2>1, <3>1 DEF ReadJob, MayResume
  <2>2. CASE EndRequest(r)
    BY <1>5, <1>8, <2>2 DEF ReadJob
  <2>. QED BY <1>8, <2>1, <2>2 DEF ReadJob
<1>9. CASE EnsureNoRunning(r)
  <2>. DEFINE pc == IF req[r].wants = "resume" THEN "mark" ELSE "create"
  <2>1. CASE Go(r, pc)
    <3>1. pc \in RequestState
      BY DEF RequestState
    <3>2. /\ req'[r].pc = pc /\ req'[r].wants = req[r].wants /\ req'[r].job = req[r].job
          /\ \A q \in Request : q # r => req'[q] = req[q]
      BY <1>1, <2>1, <3>1, RequestMoves
    <3>. QED BY <1>2, <1>4, <1>9, <3>2 DEF EnsureNoRunning, ResumesResumable
  <2>2. CASE EndRequest(r)
    BY <1>5, <1>9, <2>2 DEF EnsureNoRunning
  <2>. QED BY <1>9, <2>1, <2>2 DEF EnsureNoRunning
<1>10. CASE Reject(r)
  BY <1>5, <1>10 DEF Reject
<1>11. CASE CreateJob(r)
  <2>1. PICK j \in Job :
          /\ status[j] = "absent"
          /\ status' = [status EXCEPT ![j] = "pending"]
          /\ req' = [req EXCEPT ![r].pc = "launch", ![r].job = j]
    BY <1>11 DEF CreateJob
  <2>2. /\ req'[r].pc = "launch" /\ req'[r].job = j
        /\ \A q \in Request : q # r => req'[q] = req[q]
    BY <1>1, <2>1 DEF TypeOK, RequestRecord
  <2>3. status'[j] = "pending" /\ \A i \in Job : i # j => status'[i] = status[i]
    BY <1>1, <2>1 DEF TypeOK
  <2>4. UNCHANGED <<task, faults>> /\ req[r].pc = "create"
    BY <1>11 DEF CreateJob
  <2>5. ResumesResumable' /\ AnnouncedIsRunning' /\ ReportedIsOver'
    <3>1. ResumesResumable'
      BY <1>1, <1>2, <2>2, <2>3 DEF ResumesResumable, RequestShape, Claims, Resumable
    <3>2. AnnouncedIsRunning'
      <4>1. SUFFICES ASSUME NEW q \in Request, req'[q].pc = "announce"
                     PROVE  status'[req'[q].job] # "pending"
        BY DEF AnnouncedIsRunning
      <4>2. q # r /\ req'[q] = req[q]
        BY <2>2, <4>1
      <4>3. req[q].job \in Job /\ req[q].job # j
        BY <1>1, <2>1, <4>1, <4>2 DEF RequestShape, Claims
      <4>. QED BY <1>2, <2>3, <4>1, <4>2, <4>3 DEF AnnouncedIsRunning
    <3>3. ReportedIsOver'
      BY <1>1, <1>2, <2>1, <2>3, <2>4 DEF ReportedIsOver, TaskShape
    <3>. QED BY <3>1, <3>2, <3>3
  <2>6. \A i \in Job : i = j \/ InHands(i) => InHands(i)'
    BY <1>3, <2>2, <2>4 DEF InHands, Occupies
  <2>7. Held'
    BY <1>2, <1>3, <2>3, <2>4, <2>6 DEF Held
  <2>. QED BY <1>3, <2>5, <2>7 DEF HeldInv
<1>12. CASE ResumeMark(r)
  <2>1. /\ req[r].pc = "mark" /\ req[r].wants = "resume" /\ req[r].job \in Job /\ Claims(r)
        /\ UNCHANGED <<task, faults>>
    BY <1>1, <1>12 DEF ResumeMark, RequestShape, Claims
  <2>2. /\ req'[r].pc = "announce" /\ req'[r].job = req[r].job
        /\ \A q \in Request : q # r => req'[q] = req[q]
    BY <1>1, <1>12, RequestMoves DEF ResumeMark, RequestState
  <2>3. /\ status'[req[r].job] = "running"
        /\ \A i \in Job : i # req[r].job => status'[i] = status[i]
    BY <1>1, <1>12, <2>1 DEF ResumeMark, TypeOK
  <2>4. /\ \A q \in Request : q # r /\ Claims(q) => req[q].job # req[r].job
        /\ \A t \in Task : Occupies(t) => task[t].job # req[r].job
    BY <1>1, <2>1 DEF OwnerInv, OneOwner
  <2>5. ResumesResumable'
    BY <1>1, <1>2, <2>2, <2>3, <2>4 DEF ResumesResumable, RequestShape, Claims
  <2>6. AnnouncedIsRunning'
    BY <1>1, <1>2, <2>2, <2>3, <2>4 DEF AnnouncedIsRunning, RequestShape, Claims
  <2>7. ReportedIsOver'
    BY <1>1, <1>2, <2>1, <2>3, <2>4 DEF ReportedIsOver, TaskShape, Occupies
  <2>8. \A i \in Job : i = req[r].job \/ InHands(i) => InHands(i)'
    BY <1>3, <2>1, <2>2 DEF InHands, Occupies
  <2>9. Held'
    BY <1>2, <1>3, <2>1, <2>3, <2>8 DEF Held
  <2>. QED BY <1>3, <2>5, <2>6, <2>7, <2>9 DEF HeldInv
<1>13. CASE ResumeAnnounce(r)
  <2>1. req[r].pc = "announce" /\ UNCHANGED <<status, task>>
    BY <1>13 DEF ResumeAnnounce
  <2>2. CASE Go(r, "launch") /\ UNCHANGED <<lock, faults>>
    <3>1. /\ req'[r].pc = "launch" /\ req'[r].job = req[r].job
          /\ \A q \in Request : q # r => req'[q] = req[q]
      BY <1>1, <2>2, RequestMoves DEF RequestState
    <3>2. ResumesResumable' /\ AnnouncedIsRunning' /\ ReportedIsOver'
      BY <1>2, <2>1, <3>1 DEF ResumesResumable, AnnouncedIsRunning, ReportedIsOver
    <3>3. \A i \in Job : InHands(i) => InHands(i)'
      BY <1>3, <2>1, <3>1 DEF InHands, Occupies
    <3>4. Held'
      BY <1>2, <1>3, <2>1, <2>2, <3>3 DEF Held
    <3>. QED BY <1>3, <3>2, <3>4 DEF HeldInv
  <2>3. CASE faults' = faults + 1 /\ EndRequest(r)
    <3>1. req'[r] = IdleRequest /\ \A q \in Request : q # r => req'[q] = req[q]
      BY <1>1, <2>3, RequestEnds
    <3>2. ResumesResumable' /\ AnnouncedIsRunning' /\ ReportedIsOver'
      BY <1>2, <2>1, <3>1 DEF ResumesResumable, AnnouncedIsRunning, ReportedIsOver, IdleRequest
    <3>3. faults' # 0
      BY <1>1, <2>3, LifecycleAssumption DEF TypeOK
    <3>4. status[req[r].job] = "running"
      BY <1>1, <1>2, <2>1 DEF OwnerInv, OneActive, AnnouncedIsRunning
    <3>5. \A i \in Job : i # req[r].job /\ InHands(i) => InHands(i)'
      BY <1>3, <2>1, <3>1 DEF InHands, Occupies
    <3>6. Held'
      BY <1>2, <1>3, <2>1, <3>3, <3>4, <3>5 DEF Held
    <3>. QED BY <1>3, <3>2, <3>6 DEF HeldInv
  <2>. QED BY <1>13, <2>2, <2>3 DEF ResumeAnnounce
<1>14. CASE Launch(r)
  <2>1. UNCHANGED <<status, faults>>
    BY <1>14 DEF Launch
  <2>2. PICK t \in Task :
          /\ task[t].pc = "free"
          /\ task' = [task EXCEPT ![t] = [FreeTask EXCEPT !.pc = "start", !.job = req[r].job]]
    BY <1>14 DEF Launch
  <2>3. /\ task'[t].pc = "start" /\ task'[t].job = req[r].job
        /\ \A s \in Task : s # t => task'[s] = task[s]
    BY <1>1, <2>2 DEF TypeOK, FreeTask
  <2>4. req'[r] = IdleRequest /\ \A q \in Request : q # r => req'[q] = req[q]
    BY <1>1, <1>14, RequestEnds DEF Launch
  <2>5. ResumesResumable' /\ AnnouncedIsRunning' /\ ReportedIsOver'
    BY <1>2, <2>1, <2>3, <2>4
       DEF ResumesResumable, AnnouncedIsRunning, ReportedIsOver, IdleRequest
  <2>6. \A i \in Job : InHands(i) => InHands(i)'
    <3>1. SUFFICES ASSUME NEW i \in Job, InHands(i) PROVE InHands(i)'
      OBVIOUS
    <3>2. CASE \E s \in Task : Occupies(s) /\ task[s].job = i
      <4>1. PICK s \in Task : Occupies(s) /\ task[s].job = i
        BY <3>2
      <4>2. s # t
        BY <2>2, <4>1 DEF Occupies
      <4>. QED BY <2>3, <4>1, <4>2 DEF InHands, Occupies
    <3>3. CASE i \in finalizing
      BY <1>3, <3>3 DEF InHands
    <3>4. CASE \E q \in Request : req[q].job = i /\ req[q].pc \in {"announce", "launch"}
      <4>1. PICK q \in Request : req[q].job = i /\ req[q].pc \in {"announce", "launch"}
        BY <3>4
      <4>2. CASE q = r
        BY <2>3, <4>1, <4>2 DEF InHands, Occupies
      <4>3. CASE q # r
        BY <2>4, <4>1, <4>3 DEF InHands
      <4>. QED BY <4>2, <4>3
    <3>. QED BY <3>1, <3>2, <3>3, <3>4 DEF InHands
  <2>7. Held'
    BY <1>2, <1>3, <2>1, <2>6 DEF Held
  <2>. QED BY <1>3, <2>5, <2>7 DEF HeldInv
<1>. QED BY <1>6, <1>7, <1>8, <1>9, <1>10, <1>11, <1>12, <1>13, <1>14 DEF RequestStep

\* A task has its job in hand until it has reported a status that blocks nobody,
\* and one that died hands it to its finalizer.
LEMMA TaskKeepsHeld ==
  ASSUME IInv, HeldInv, NEW t \in Task, TaskStep(t) \/ KillTask(t)
  PROVE  HeldInv'
<1>. USE DEF taskFrame
<1>1. TypeOK /\ RequestShape /\ TaskShape /\ OwnerInv
  BY DEF IInv, ShapeInv
<1>2. ResumesResumable /\ StoppedBefore /\ AnnouncedIsRunning /\ ReportedIsOver /\ Held
  BY DEF HeldInv
<1>3. UNCHANGED <<req, server, stops>> /\ StoppedBefore'
  BY <1>2 DEF TaskStep, Begin, Announce, EndWork, Finish, Report, FinishFailed, WorkRaises,
     DatabaseFault, OnTaskDone, KillTask, StoppedBefore
<1>4. {"announce", "work", "finish", "returned", "report", "failing", "failReport", "died", "killed"}
         \subseteq TaskState
  BY DEF TaskState
<1>5. faults' = 0 => faults = 0
  BY <1>1, LifecycleAssumption DEF TypeOK, TaskStep, Begin, Announce, EndWork, Finish, Report,
     FinishFailed, WorkRaises, DatabaseFault, OnTaskDone, KillTask
<1>6. ASSUME Occupies(t), Occupies(t)', task'[t].job = task[t].job, UNCHANGED finalizing,
             \A s \in Task : s # t => task'[s] = task[s],
             \A i \in Job : i # task[t].job => status'[i] = status[i]
      PROVE  Held'
  <2>1. \A i \in Job : i = task[t].job \/ InHands(i) => InHands(i)'
    <3>1. SUFFICES ASSUME NEW i \in Job, i = task[t].job \/ InHands(i) PROVE InHands(i)'
      OBVIOUS
    <3>2. CASE i = task[t].job
      BY <1>6, <3>2 DEF InHands
    <3>3. CASE i # task[t].job
      BY <1>3, <1>6, <3>1, <3>3 DEF InHands, Occupies
    <3>. QED BY <3>2, <3>3
  <2>. QED BY <1>2, <1>3, <1>5, <1>6, <2>1 DEF Held
<1>7. ASSUME NEW pc \in {"announce", "report", "failReport"}, GoTask(t, pc), UNCHANGED finalizing,
             NEW s \in JobStatus \ {"pending"}, SetStatus(task[t].job, s), Occupies(t),
             pc = "report" => s \in {"paused", "completed", "cancelled"}
      PROVE  HeldInv'
  <2>1. task[t].job \in Job
    BY <1>1, <1>7 DEF TaskShape, Occupies
  <2>2. /\ task'[t].pc = pc /\ task'[t].job = task[t].job
        /\ \A q \in Task : q # t => task'[q] = task[q]
    BY <1>1, <1>4, <1>7, TaskMoves
  <2>3. \A q \in Request : Claims(q) => req[q].job # task[t].job
    BY <1>1, <1>7 DEF OwnerInv, OneOwner
  <2>4. \A q \in Task : q # t /\ task[q].pc = "report" => task[q].job # task[t].job
    BY <1>1, <1>7 DEF OwnerInv, OneOwner, Occupies
  <2>5. \A q \in Task : task'[q].pc = "report" =>
             \/ task[q].pc = "report" /\ task'[q].job = task[q].job /\ task[q].job # task[t].job
             \/ task'[q].job = task[t].job /\ s \in {"paused", "completed", "cancelled"}
    BY <1>7, <2>2, <2>4
  <2>6. status' = [status EXCEPT ![task[t].job] = s]
    BY <1>7 DEF SetStatus
  <2>7. ResumesResumable' /\ AnnouncedIsRunning' /\ ReportedIsOver'
    BY <1>3, <2>1, <2>3, <2>5, <2>6, WriteKeepsHeld
  <2>8. \A i \in Job : i # task[t].job => status'[i] = status[i]
    BY <1>1, <2>6 DEF TypeOK
  <2>9. Occupies(t)'
    BY <2>2 DEF Occupies
  <2>10. Held'
    BY <1>6, <1>7, <2>2, <2>8, <2>9
  <2>. QED BY <1>3, <2>7, <2>10 DEF HeldInv
<1>8. ASSUME NEW pc \in TaskState, task'[t].pc = pc, task'[t].job = task[t].job,
             \A q \in Task : q # t => task'[q] = task[q],
             pc # "report", UNCHANGED status
      PROVE  ResumesResumable' /\ AnnouncedIsRunning' /\ ReportedIsOver'
  BY <1>2, <1>3, <1>8 DEF ResumesResumable, AnnouncedIsRunning, ReportedIsOver
<1>9. CASE Begin(t)
  <2>1. Occupies(t)
    BY <1>9 DEF Begin, Occupies
  <2>. QED BY <1>7, <1>9, <2>1 DEF Begin, JobStatus
<1>10. CASE Finish(t)
  <2>1. Occupies(t) /\ task[t].target \in {"paused", "completed", "cancelled"}
    BY <1>1, <1>10 DEF Finish, Occupies, TaskShape
  <2>. QED BY <1>7, <1>10, <2>1 DEF Finish, JobStatus
<1>11. CASE FinishFailed(t)
  <2>1. Occupies(t)
    BY <1>11 DEF FinishFailed, Occupies
  <2>. QED BY <1>7, <1>11, <2>1 DEF FinishFailed, JobStatus
<1>12. CASE EndWork(t)
  <2>1. PICK s \in Outcomes(t) : task' = [task EXCEPT ![t].pc = "finish", ![t].target = s]
    BY <1>12 DEF EndWork
  <2>2. /\ task'[t].pc = "finish" /\ task'[t].job = task[t].job
        /\ \A q \in Task : q # t => task'[q] = task[q]
    BY <1>1, <2>1 DEF TypeOK, TaskRecord
  <2>3. Occupies(t) /\ Occupies(t)' /\ UNCHANGED <<status, finalizing>>
    BY <1>12, <2>2 DEF EndWork, Occupies
  <2>. QED BY <1>3, <1>4, <1>6, <1>8, <2>2, <2>3 DEF HeldInv
<1>13. CASE Announce(t) \/ WorkRaises(t) \/ DatabaseFault(t)
  <2>1. PICK pc \in {"work", "failing", "died"} : GoTask(t, pc)
    BY <1>13 DEF Announce, WorkRaises, DatabaseFault
  <2>2. Occupies(t) /\ UNCHANGED <<status, finalizing>>
    BY <1>13 DEF Announce, WorkRaises, DatabaseFault, Occupies
  <2>3. /\ task'[t].pc = pc /\ task'[t].job = task[t].job
        /\ \A q \in Task : q # t => task'[q] = task[q]
    BY <1>1, <1>4, <2>1, TaskMoves
  <2>4. Occupies(t)'
    BY <2>3 DEF Occupies
  <2>. QED BY <1>3, <1>4, <1>6, <1>8, <2>2, <2>3, <2>4 DEF HeldInv
<1>14. CASE Report(t)
  <2>1. UNCHANGED <<status, finalizing, faults>> /\ task[t].pc \in {"report", "failReport"}
    BY <1>14 DEF Report
  <2>2. /\ task'[t].pc = "returned" /\ task'[t].job = task[t].job
        /\ \A q \in Task : q # t => task'[q] = task[q]
    BY <1>1, <1>4, <1>14, TaskMoves DEF Report
  <2>3. status[task[t].job] \notin {"pending", "running"}
    BY <1>1, <1>2, <2>1 DEF ReportedIsOver, OwnerInv, StatusOfTask
  <2>4. \A i \in Job : i # task[t].job /\ InHands(i) => InHands(i)'
    BY <1>3, <2>1, <2>2 DEF InHands, Occupies
  <2>5. Held'
    BY <1>2, <1>3, <2>1, <2>3, <2>4 DEF Held
  <2>. QED BY <1>3, <1>4, <1>8, <2>1, <2>2, <2>5 DEF HeldInv
<1>15. CASE OnTaskDone(t)
  <2>1. /\ task[t].pc \in {"returned", "died", "killed"}
        /\ finalizing' = IF task[t].pc = "died" THEN finalizing \cup {task[t].job} ELSE finalizing
        /\ task' = [task EXCEPT ![t] = FreeTask]
        /\ UNCHANGED <<status, faults>>
    BY <1>15 DEF OnTaskDone
  <2>2. task'[t] = FreeTask /\ \A s \in Task : s # t => task'[s] = task[s]
    BY <1>1, <2>1 DEF TypeOK
  <2>3. ResumesResumable' /\ AnnouncedIsRunning' /\ ReportedIsOver'
    BY <1>2, <1>3, <2>1, <2>2 DEF ResumesResumable, AnnouncedIsRunning, ReportedIsOver, FreeTask
  <2>4. \A i \in Job : InHands(i) => InHands(i)'
    <3>1. SUFFICES ASSUME NEW i \in Job, InHands(i) PROVE InHands(i)'
      OBVIOUS
    <3>2. CASE \E s \in Task : Occupies(s) /\ task[s].job = i
      <4>1. PICK s \in Task : Occupies(s) /\ task[s].job = i
        BY <3>2
      <4>2. CASE s = t
        BY <2>1, <4>1, <4>2 DEF InHands, Occupies
      <4>3. CASE s # t
        BY <2>2, <4>1, <4>3 DEF InHands, Occupies
      <4>. QED BY <4>2, <4>3
    <3>3. CASE i \in finalizing
      BY <2>1, <3>3 DEF InHands
    <3>4. CASE \E q \in Request : req[q].job = i /\ req[q].pc \in {"announce", "launch"}
      BY <1>3, <3>4 DEF InHands
    <3>. QED BY <3>1, <3>2, <3>3, <3>4 DEF InHands
  <2>5. Held'
    BY <1>2, <1>3, <2>1, <2>4 DEF Held
  <2>. QED BY <1>3, <2>3, <2>5 DEF HeldInv
<1>16. CASE KillTask(t)
  <2>1. server = "stopping" /\ UNCHANGED status
    BY <1>16 DEF KillTask
  <2>2. /\ task'[t].pc = "killed" /\ task'[t].job = task[t].job
        /\ \A q \in Task : q # t => task'[q] = task[q]
    BY <1>1, <1>4, <1>16, TaskMoves DEF KillTask
  <2>3. Held'
    BY <1>3, <2>1 DEF Held
  <2>. QED BY <1>3, <1>4, <1>8, <2>1, <2>2, <2>3 DEF HeldInv
<1>. QED BY <1>9, <1>10, <1>11, <1>12, <1>13, <1>14, <1>15, <1>16 DEF TaskStep

\* A finalizer writes the one status that is in nobody else's hands; the end of the
\* process leaves pending jobs alone and its start finds no running one.
LEMMA HeldKeeps == MaxFaults <= 1 /\ IInv /\ HeldInv /\ [Next]_vars => HeldInv'
<1>. SUFFICES ASSUME MaxFaults <= 1, IInv, HeldInv, [Next]_vars PROVE HeldInv'
  OBVIOUS
<1>1. TypeOK /\ RequestShape /\ TaskShape /\ OwnerInv
  BY DEF IInv, ShapeInv
<1>2. ResumesResumable /\ StoppedBefore /\ AnnouncedIsRunning /\ ReportedIsOver /\ Held
  BY DEF HeldInv
<1>3. ASSUME NEW j \in Job, Cancel(j) PROVE HeldInv'
  <2>1. /\ registered[j] \in Task
        /\ task' = [task EXCEPT ![registered[j]].event = TRUE]
        /\ UNCHANGED <<status, req, finalizing, server, faults, stops>>
    BY <1>1, <1>3 DEF Cancel, TypeOK
  <2>2. \A s \in Task : task'[s].pc = task[s].pc /\ task'[s].job = task[s].job
    BY <1>1, <2>1 DEF TypeOK, TaskRecord
  <2>3. \A i \in Job : InHands(i) => InHands(i)'
    BY <2>1, <2>2 DEF InHands, Occupies
  <2>4. Held'
    BY <1>2, <2>1, <2>3 DEF Held
  <2>5. ResumesResumable' /\ StoppedBefore' /\ AnnouncedIsRunning' /\ ReportedIsOver'
    BY <1>2, <2>1, <2>2 DEF ResumesResumable, StoppedBefore, AnnouncedIsRunning, ReportedIsOver
  <2>. QED BY <2>4, <2>5 DEF HeldInv
<1>4. ASSUME NEW j \in Job, Finalize(j) PROVE HeldInv'
  <2>1. /\ j \in finalizing /\ finalizing' = finalizing \ {j}
        /\ UNCHANGED <<req, task, server, stops>>
    BY <1>4 DEF Finalize
  <2>2. \A i \in Job : i # j /\ InHands(i) => InHands(i)'
    BY <2>1 DEF InHands, Occupies
  <2>3. StoppedBefore'
    BY <1>2, <2>1 DEF StoppedBefore
  <2>4. CASE SetStatus(j, "failed") /\ UNCHANGED faults
    <3>1. /\ \A q \in Request : Claims(q) => req[q].job # j
          /\ \A t \in Task : Occupies(t) => task[t].job # j
      BY <1>1, <2>1 DEF OwnerInv, OneOwner
    <3>2. \A t \in Task : task'[t].pc = "report" =>
              task[t].pc = "report" /\ task'[t].job = task[t].job /\ task[t].job # j
      BY <2>1, <3>1 DEF Occupies
    <3>3. "failed" \in JobStatus \ {"pending"}
      BY DEF JobStatus
    <3>4. ResumesResumable' /\ AnnouncedIsRunning' /\ ReportedIsOver'
      BY <2>1, <2>4, <3>1, <3>2, <3>3, WriteKeepsHeld DEF SetStatus
    <3>5. status'[j] = "failed" /\ \A i \in Job : i # j => status'[i] = status[i]
      BY <1>1, <2>4 DEF SetStatus, TypeOK
    <3>6. Held'
      BY <1>2, <2>1, <2>2, <2>4, <3>5 DEF Held
    <3>. QED BY <2>3, <3>4, <3>6 DEF HeldInv
  <2>5. CASE faults' = faults + 1 /\ UNCHANGED status
    <3>1. faults' # 0
      BY <1>1, <2>5, LifecycleAssumption DEF TypeOK
    <3>2. status[j] \in {"running", "failed"}
      BY <1>1, <2>1 DEF OwnerInv, StatusOfTask
    <3>3. Held'
      BY <1>2, <2>1, <2>2, <2>5, <3>1, <3>2 DEF Held
    <3>4. ResumesResumable' /\ AnnouncedIsRunning' /\ ReportedIsOver'
      BY <1>2, <2>1, <2>5 DEF ResumesResumable, AnnouncedIsRunning, ReportedIsOver
    <3>. QED BY <2>3, <3>3, <3>4 DEF HeldInv
  <2>. QED BY <1>4, <2>4, <2>5 DEF Finalize
<1>5. CASE Shutdown
  <2>1. /\ server' = "stopping" /\ stops' # 0 /\ UNCHANGED status
        /\ \A r \in Request : req'[r] = IdleRequest
    BY <1>1, <1>5, LifecycleAssumption DEF Shutdown, TypeOK
  <2>2. \A t \in Task : task'[t].pc = task[t].pc /\ task'[t].job = task[t].job
    BY <1>1, <1>5, ShutdownEffect
  <2>3. ResumesResumable' /\ AnnouncedIsRunning'
    BY <2>1 DEF ResumesResumable, AnnouncedIsRunning, IdleRequest
  <2>4. ReportedIsOver'
    BY <1>2, <2>1, <2>2 DEF ReportedIsOver
  <2>5. StoppedBefore' /\ Held'
    BY <2>1 DEF StoppedBefore, Held
  <2>. QED BY <2>3, <2>4, <2>5 DEF HeldInv
<1>6. CASE PauseRunning \/ Crash
  <2>1. Stop /\ server' = "down"
    BY <1>6 DEF PauseRunning, Crash, Stop
  <2>2. stops' # 0
    BY <1>1, <1>2, <1>6, LifecycleAssumption DEF PauseRunning, Crash, TypeOK, StoppedBefore
  <2>3. /\ \A t \in Task : task'[t].pc = "free"
        /\ \A r \in Request : req'[r] = IdleRequest
    BY <2>1, StopEffect DEF FreeTask
  <2>4. ResumesResumable' /\ AnnouncedIsRunning' /\ ReportedIsOver'
    BY <2>3 DEF ResumesResumable, AnnouncedIsRunning, ReportedIsOver, IdleRequest
  <2>5. StoppedBefore' /\ Held'
    BY <2>1, <2>2 DEF StoppedBefore, Held
  <2>. QED BY <2>4, <2>5 DEF HeldInv
<1>7. CASE RecoverOnStartup
  <2>1. /\ PauseAllRunning /\ server = "down" /\ server' = "up"
        /\ UNCHANGED <<req, task, finalizing, faults, stops>>
    BY <1>7 DEF RecoverOnStartup
  <2>2. /\ \A t \in Task : task'[t].pc = "free"
        /\ \A r \in Request : req'[r] = IdleRequest
        /\ stops' # 0
    BY <1>1, <1>2, <2>1 DEF OwnerInv, DownIsEmpty, StoppedBefore
  <2>3. \A i \in Job : status'[i] # "running"
    BY <2>1 DEF PauseAllRunning
  <2>4. ResumesResumable' /\ AnnouncedIsRunning' /\ ReportedIsOver'
    BY <2>2 DEF ResumesResumable, AnnouncedIsRunning, ReportedIsOver, IdleRequest
  <2>5. StoppedBefore' /\ Held'
    BY <2>1, <2>2, <2>3 DEF StoppedBefore, Held
  <2>. QED BY <2>4, <2>5 DEF HeldInv
<1>8. CASE UNCHANGED vars
  <2>1. ResumesResumable' /\ StoppedBefore' /\ AnnouncedIsRunning' /\ ReportedIsOver'
    BY <1>2, <1>8 DEF vars, ResumesResumable, StoppedBefore, AnnouncedIsRunning, ReportedIsOver
  <2>2. Held'
    BY <1>2, <1>8 DEF vars, Held, InHands, Occupies
  <2>. QED BY <2>1, <2>2 DEF HeldInv
<1>. QED BY <1>3, <1>4, <1>5, <1>6, <1>7, <1>8, RequestKeepsHeld, TaskKeepsHeld DEF Next, ServerStep

LEMMA HeldInvAlways ==
  ASSUME MaxFaults <= 1
  PROVE  Spec => [](IInv /\ HeldInv)
<1>1. Init => HeldInv
  BY HeldInitial
<1>2. IInv /\ HeldInv /\ [Next]_vars => HeldInv'
  BY HeldKeeps
<1>. QED BY <1>1, <1>2, IInvAlways, PTL DEF Spec

\* A job that makes _ensure_no_running refuse others is in somebody's hands; the only
\* orphans are those that the end of the process or a failed access to the database
\* has left.
THEOREM OrphansOnly ==
  ASSUME MaxFaults <= 1
  PROVE  Spec => []OnlyOrphansBlock
<1>1. IInv /\ HeldInv => OnlyOrphansBlock
  <2>. SUFFICES ASSUME IInv, HeldInv, server = "up",
                       NEW j \in Job, status[j] \in {"pending", "running"}
                PROVE  \/ \E t \in Task : task[t].job = j
                       \/ j \in finalizing
                       \/ \E r \in Request : req[r].job = j /\ req[r].pc \in {"announce", "launch"}
                       \/ status[j] = "pending" /\ stops > 0
                       \/ status[j] = "running" /\ faults > 0
    BY DEF OnlyOrphansBlock
  <2>1. stops \in Nat /\ faults \in Nat
    BY LifecycleAssumption DEF IInv, ShapeInv, TypeOK
  <2>2. \/ InHands(j)
        \/ status[j] = "pending" /\ stops # 0
        \/ status[j] = "running" /\ faults # 0
    BY DEF HeldInv, Held
  <2>. QED BY <2>1, <2>2 DEF InHands
<1>. QED BY <1>1, HeldInvAlways, PTL

\* What a step of a task writes while no access to the database has failed.
LEMMA TaskKeepsTerminal ==
  ASSUME IInv, faults = 0, NEW t \in Task, TaskStep(t) \/ KillTask(t),
         NEW j \in Job, status[j] \in Terminal
  PROVE  status'[j] = status[j]
<1>1. TypeOK /\ TaskShape /\ OwnerInv
  BY DEF IInv, ShapeInv
<1>2. CASE Begin(t) \/ Finish(t) \/ FinishFailed(t)
  <2>1. /\ task[t].pc \in {"start", "finish", "failing"}
        /\ \E s \in JobStatus : SetStatus(task[t].job, s)
    BY <1>1, <1>2 DEF Begin, Finish, FinishFailed, TaskShape, JobStatus
  <2>2. status[task[t].job] \in {"pending", "running"}
    BY <1>1, <2>1 DEF OwnerInv, StatusOfTask
  <2>3. task[t].job # j
    BY <2>2 DEF Terminal
  <2>. QED BY <1>1, <2>1, <2>3 DEF SetStatus, TypeOK
<1>3. CASE ~(Begin(t) \/ Finish(t) \/ FinishFailed(t))
  BY <1>3 DEF TaskStep, Announce, EndWork, Report, WorkRaises, DatabaseFault, OnTaskDone, KillTask
<1>. QED BY <1>2, <1>3

\* A terminal job goes no further, as long as no database access has failed.
THEOREM TerminalStays ==
  ASSUME MaxFaults <= 1
  PROVE  Spec => TerminalIsFinal
<1>1. IInv /\ HeldInv /\ [Next]_vars =>
        [faults = 0 => \A j \in Job : status[j] \in Terminal => status'[j] = status[j]]_vars
  <2>. SUFFICES ASSUME IInv, HeldInv, Next, faults = 0, NEW j \in Job, status[j] \in Terminal
                PROVE  status'[j] = status[j]
    OBVIOUS
  <2>1. TypeOK /\ RequestShape /\ OwnerInv /\ ResumesResumable
    BY DEF IInv, ShapeInv, HeldInv
  <2>2. ASSUME NEW r \in Request, Call(r) \/ RequestStep(r) PROVE status'[j] = status[j]
    <3>1. CASE CreateJob(r)
      BY <2>1, <3>1 DEF CreateJob, Terminal, TypeOK
    <3>2. CASE ResumeMark(r)
      <4>1. req[r].wants = "resume" /\ req[r].pc = "mark"
        BY <2>1, <3>2 DEF ResumeMark, RequestShape
      <4>2. status[req[r].job] \in Resumable
        BY <2>1, <4>1 DEF ResumesResumable
      <4>. QED BY <2>1, <3>2, <4>2 DEF ResumeMark, Resumable, Terminal, TypeOK
    <3>3. CASE ~(CreateJob(r) \/ ResumeMark(r))
      BY <2>2, <3>3 DEF Call, RequestStep, AcquireLock, ReadJob, EnsureNoRunning, Reject,
         ResumeAnnounce, Launch
    <3>. QED BY <3>1, <3>2, <3>3
  <2>3. ASSUME NEW t \in Task, TaskStep(t) \/ KillTask(t) PROVE status'[j] = status[j]
    BY <2>3, TaskKeepsTerminal
  <2>4. ASSUME NEW i \in Job, Cancel(i) \/ Finalize(i) PROVE status'[j] = status[j]
    <3>1. CASE Cancel(i)
      BY <3>1 DEF Cancel
    <3>2. CASE Finalize(i)
      BY <2>1, <3>2 DEF Finalize, SetStatus, OwnerInv, StatusOfTask, Terminal, TypeOK
    <3>. QED BY <2>4, <3>1, <3>2
  <2>5. CASE ServerStep \/ Crash
    BY <2>5, PauseEffect DEF ServerStep, Shutdown, PauseRunning, RecoverOnStartup, Crash,
       PauseAllRunning, Terminal
  <2>. QED BY <2>2, <2>3, <2>4, <2>5 DEF Next
<1>. QED BY <1>1, HeldInvAlways, PTL DEF Spec, TerminalIsFinal

(***************************************************************************)
(* JobLifecycle implements JobPromise                                      *)
(***************************************************************************)
Stutters == UNCHANGED <<DeletionState, AtWork>>

\* The status of a deletion is written.
LEMMA DeletionWritten ==
  ASSUME TypeOK, NEW j \in Job, kind[j] = "delete", NEW s,
         status' = [status EXCEPT ![j] = s], kind' = kind
  PROVE  Promise!Becomes(j, s)
<1>1. status \in [Job -> JobStatus]
  BY DEF TypeOK
<1>. QED BY <1>1 DEF Promise!Becomes, DeletionState

\* The status of another job is written: nothing is seen of it.
LEMMA OtherWritten ==
  ASSUME TypeOK, NEW j \in Job, kind[j] # "delete", NEW s,
         status' = [status EXCEPT ![j] = s], kind' = kind
  PROVE  DeletionState' = DeletionState
<1>1. status \in [Job -> JobStatus]
  BY DEF TypeOK
<1>. QED BY <1>1 DEF DeletionState

\* The job of a task at work is a pending or running deletion, and there is one at most.
LEMMA WorkedOn ==
  ASSUME IInv
  PROVE  /\ \A j \in AtWork : j \in Job /\ kind[j] = "delete"
                              /\ DeletionState[j] \in {"pending", "running"}
         /\ \A t \in Working("delete") : AtWork = {task[t].job} /\ Working("delete") = {t}
<1>1. TaskShape /\ OwnerInv
  BY DEF IInv, ShapeInv
<1>2. ASSUME NEW t \in Working("delete")
      PROVE  /\ task[t].job \in Job /\ kind[task[t].job] = "delete"
             /\ DeletionState[task[t].job] \in {"pending", "running"}
             /\ Working("delete") = {t}
  <2>1. t \in Task /\ task[t].pc \in {"start", "announce", "work", "finish"}
        /\ kind[task[t].job] = "delete"
    BY DEF Working
  <2>2. task[t].job \in Job /\ status[task[t].job] \in {"pending", "running"}
    BY <1>1, <2>1 DEF TaskShape, OwnerInv, StatusOfTask
  <2>3. Working("delete") = {t}
    BY OwnersAreAlone DEF OneDeleteAtATime
  <2>. QED BY <2>1, <2>2, <2>3 DEF DeletionState
<1>. QED BY <1>2 DEF AtWork

\* While no deletion is pending or running, none is at work.
LEMMA QuietMeansIdle ==
  ASSUME IInv, Active("delete") = {}
  PROVE  AtWork = {} /\ ~Promise!Busy
<1>1. ~Promise!Busy
  BY DEF Promise!Busy, DeletionState, Active
<1>. QED BY <1>1, WorkedOn DEF Promise!Busy

\* The tasks at work stay so, on the same jobs.
LEMMA WorkStays ==
  ASSUME \A s \in Task : (s \in Working("delete"))' <=> s \in Working("delete"),
         \A s \in Working("delete") : task'[s].job = task[s].job
  PROVE  AtWork' = AtWork
<1>1. Working("delete")' = Working("delete")
  BY DEF Working
<1>. QED BY <1>1 DEF AtWork

\* The one task at work stops working.
LEMMA WorkStops ==
  ASSUME IInv, NEW t \in Working("delete"), kind' = kind,
         \A s \in Task : s # t => task'[s] = task[s],
         task'[t].pc \notin {"start", "announce", "work", "finish"}
  PROVE  AtWork' = {}
<1>1. Working("delete") = {t}
  BY WorkedOn
<1>2. Working("delete")' = {}
  BY <1>1 DEF Working
<1>. QED BY <1>2 DEF AtWork

\* A request opens a deletion only when none is pending or running.
LEMMA RequestKeepsPromise ==
  ASSUME IInv, HeldInv, NEW r \in Request, Call(r) \/ RequestStep(r)
  PROVE  Promise!PromiseNext \/ Stutters
<1>1. TypeOK /\ RequestShape /\ TaskShape /\ OwnerInv /\ ResumesResumable
  BY DEF IInv, ShapeInv, HeldInv
<1>2. CASE CreateJob(r)
  <2>1. PICK j \in Job :
           /\ status[j] = "absent"
           /\ status' = [status EXCEPT ![j] = "pending"]
           /\ kind' = [kind EXCEPT ![j] = req[r].wants]
    BY <1>1, <1>2, CreateEffect
  <2>2. task' = task /\ req[r].pc = "create" /\ req[r].wants # "resume"
    BY <1>1, <1>2 DEF CreateJob, RequestShape
  <2>3. kind \in [Job -> AllKinds] /\ status \in [Job -> JobStatus]
    BY <1>1 DEF TypeOK
  <2>4. \A t \in Task : task[t].pc # "free" => task[t].job \in Job /\ task[t].job # j
    BY <1>1, <2>1 DEF TaskShape
  <2>5. AtWork' = AtWork
    <3>1. \A s \in Task : (s \in Working("delete"))' <=> s \in Working("delete")
      BY <2>1, <2>2, <2>3, <2>4 DEF Working
    <3>. QED BY <2>2, <3>1, WorkStays
  <2>6. CASE req[r].wants = "delete"
    <3>1. Active("delete") = {}
      BY <1>1, <2>2, <2>6 DEF OwnerInv, OneActive, Holds, KindOf
    <3>2. ~Promise!Busy /\ AtWork = {}
      BY <3>1, QuietMeansIdle
    <3>3. DeletionState[j] = "absent" /\ Promise!Becomes(j, "pending")
      BY <2>1, <2>3, <2>6 DEF Promise!Becomes, DeletionState
    <3>4. Promise!Create(j)
      BY <2>5, <3>2, <3>3 DEF Promise!Create
    <3>. QED BY <3>4 DEF Promise!PromiseNext
  <2>7. CASE req[r].wants # "delete"
    <3>1. DeletionState' = DeletionState
      BY <2>1, <2>3, <2>7 DEF DeletionState
    <3>. QED BY <2>5, <3>1 DEF Stutters
  <2>. QED BY <2>6, <2>7
<1>3. CASE ResumeMark(r)
  <2>1. req[r].pc = "mark" /\ req[r].wants = "resume" /\ UNCHANGED <<kind, task>>
    BY <1>1, <1>3 DEF ResumeMark, RequestShape
  <2>. DEFINE j == req[r].job
  <2>2. j \in Job /\ kind[j] = "delete" /\ status[j] \in Resumable
    BY <1>1, <2>1 DEF RequestShape, Claims, KindOf, ResumesResumable
  <2>3. Active("delete") = {}
    BY <1>1, <2>1 DEF OwnerInv, OneActive, Holds, KindOf
  <2>4. DeletionState[j] = "paused"
    BY <2>2, <2>3 DEF Active, Resumable, DeletionState
  <2>5. Promise!Becomes(j, "running")
    BY <1>1, <1>3, <2>1, <2>2, DeletionWritten DEF ResumeMark
  <2>6. AtWork' = AtWork /\ AtWork = {} /\ ~Promise!Busy
    BY <2>1, <2>3, QuietMeansIdle, WorkStays DEF Working
  <2>7. Promise!Resume(j)
    BY <2>4, <2>5, <2>6 DEF Promise!Resume
  <2>. QED BY <2>2, <2>7 DEF Promise!PromiseNext
<1>4. CASE Launch(r)
  <2>. DEFINE j == req[r].job
  <2>1. req[r].pc = "launch" /\ UNCHANGED <<kind, status>> /\ Claims(r)
    BY <1>4 DEF Launch, requestFrame, Claims
  <2>2. PICK t \in Task :
           task[t].pc = "free"
           /\ task' = [task EXCEPT ![t] = [FreeTask EXCEPT !.pc = "start", !.job = j]]
    BY <1>4 DEF Launch
  <2>3. j \in Job /\ status[j] \in {"pending", "running"} /\ task \in [Task -> TaskRecord]
    BY <1>1, <2>1 DEF RequestShape, OwnerInv, OneActive, TypeOK
  <2>4. /\ task'[t].pc = "start" /\ task'[t].job = j
        /\ \A s \in Task : s # t => task'[s] = task[s]
    BY <2>2, <2>3 DEF FreeTask
  <2>5. CASE kind[j] = "delete"
    <3>1. Working("delete") = {}
      <4>. SUFFICES ASSUME NEW s \in Working("delete") PROVE FALSE
        OBVIOUS
      <4>1. task[s].job \in AtWork /\ s \in Task /\ Occupies(s)
        BY DEF AtWork, Working, Occupies
      <4>2. task[s].job \in Active("delete") /\ j \in Active("delete")
        BY <2>3, <2>5, <4>1, WorkedOn DEF Active, DeletionState
      <4>3. task[s].job = j
        BY <1>1, <4>2 DEF OwnerInv, OneActive
      <4>. QED BY <1>1, <2>1, <4>1, <4>3 DEF OwnerInv, OneOwner
    <3>2. Working("delete")' = {t}
      BY <2>1, <2>4, <2>5, <3>1 DEF Working
    <3>3. AtWork = {} /\ AtWork' = {j}
      BY <2>4, <3>1, <3>2 DEF AtWork
    <3>4. DeletionState' = DeletionState /\ DeletionState[j] \in {"pending", "running"}
      BY <2>1, <2>3, <2>5 DEF DeletionState
    <3>5. Promise!Launch(j)
      BY <3>3, <3>4 DEF Promise!Launch
    <3>. QED BY <2>3, <3>5 DEF Promise!PromiseNext
  <2>6. CASE kind[j] # "delete"
    <3>1. DeletionState' = DeletionState
      BY <2>1 DEF DeletionState
    <3>2. \A s \in Task : (s \in Working("delete"))' <=> s \in Working("delete")
      BY <2>1, <2>2, <2>4, <2>6 DEF Working
    <3>3. AtWork' = AtWork
      BY <2>2, <2>4, <3>2, WorkStays DEF Working
    <3>. QED BY <3>1, <3>3 DEF Stutters
  <2>. QED BY <2>5, <2>6
<1>5. CASE ~(CreateJob(r) \/ ResumeMark(r) \/ Launch(r))
  <2>1. UNCHANGED <<kind, status, task>>
    BY <1>5 DEF Call, RequestStep, AcquireLock, ReadJob, EnsureNoRunning, Reject, ResumeAnnounce
  <2>. QED BY <2>1 DEF Stutters, DeletionState, AtWork, Working
<1>. QED BY <1>2, <1>3, <1>4, <1>5

\* A task that leaves its work without a word, or had left it before.
LEMMA LeavingKeepsPromise ==
  ASSUME IInv, NEW t \in Task, UNCHANGED <<kind, status>>,
         \A s \in Task : s # t => task'[s] = task[s],
         task'[t].pc \notin {"start", "announce", "work", "finish"}
  PROVE  Promise!PromiseNext \/ Stutters
<1>1. DeletionState' = DeletionState
  BY DEF DeletionState
<1>2. CASE t \in Working("delete")
  BY <1>1, <1>2, WorkStops DEF Promise!GiveUp, Promise!PromiseNext
<1>3. CASE t \notin Working("delete")
  <2>1. AtWork' = AtWork
    BY <1>3, WorkStays DEF Working
  <2>. QED BY <1>1, <2>1 DEF Stutters
<1>. QED BY <1>2, <1>3

\* A task ends only the deletion it is at work on.
LEMMA TaskKeepsPromise ==
  ASSUME IInv, NEW t \in Task, TaskStep(t) \/ KillTask(t)
  PROVE  Promise!PromiseNext \/ Stutters
<1>. USE DEF taskFrame
<1>. DEFINE j == task[t].job
<1>1. TypeOK /\ TaskShape /\ OwnerInv
  BY DEF IInv, ShapeInv
<1>2. task[t].pc # "free" => j \in Job
  BY <1>1 DEF TaskShape
<1>3. CASE Begin(t)
  <2>1. /\ task[t].pc = "start" /\ kind' = kind
        /\ status' = [status EXCEPT ![j] = "running"]
    BY <1>3 DEF Begin, SetStatus
  <2>2. /\ task'[t].pc = "announce" /\ task'[t].job = j
        /\ \A s \in Task : s # t => task'[s] = task[s]
    BY <1>1, <1>3, TaskMoves DEF Begin, TaskState
  <2>3. AtWork' = AtWork
    <3>1. \A s \in Task : (s \in Working("delete"))' <=> s \in Working("delete")
      BY <2>1, <2>2 DEF Working
    <3>. QED BY <2>2, <3>1, WorkStays DEF Working
  <2>4. CASE kind[j] = "delete"
    <3>1. t \in Working("delete")
      BY <2>1, <2>4 DEF Working
    <3>2. AtWork = {j} /\ DeletionState[j] \in {"pending", "running"}
      BY <3>1, WorkedOn
    <3>3. Promise!Becomes(j, "running")
      BY <1>1, <1>2, <2>1, <2>4, DeletionWritten
    <3>4. Promise!Begin(j)
      BY <2>3, <3>2, <3>3 DEF Promise!Begin
    <3>. QED BY <1>2, <2>1, <3>4 DEF Promise!PromiseNext
  <2>5. CASE kind[j] # "delete"
    BY <1>1, <1>2, <2>1, <2>3, <2>5, OtherWritten DEF Stutters
  <2>. QED BY <2>4, <2>5
<1>4. CASE Announce(t) \/ EndWork(t)
  <2>1. UNCHANGED <<kind, status>> /\ task[t].pc \in {"announce", "work"}
    BY <1>4 DEF Announce, EndWork
  <2>2. /\ task'[t].pc \in {"work", "finish"} /\ task'[t].job = j
        /\ \A s \in Task : s # t => task'[s] = task[s]
    BY <1>1, <1>4, TaskMoves, EndWorkEffect DEF Announce, TaskState
  <2>3. \A s \in Task : (s \in Working("delete"))' <=> s \in Working("delete")
    BY <2>1, <2>2 DEF Working
  <2>4. AtWork' = AtWork
    BY <2>2, <2>3, WorkStays DEF Working
  <2>. QED BY <2>1, <2>4 DEF Stutters, DeletionState
<1>5. CASE Finish(t)
  <2>1. /\ task[t].pc = "finish" /\ kind' = kind
        /\ status' = [status EXCEPT ![j] = task[t].target]
    BY <1>5 DEF Finish, SetStatus
  <2>2. /\ task'[t].pc = "report"
        /\ \A s \in Task : s # t => task'[s] = task[s]
    BY <1>1, <1>5, TaskMoves DEF Finish, TaskState
  <2>3. task[t].target \in {"paused", "completed", "cancelled"} /\ status[j] = "running"
    BY <1>1, <2>1 DEF TaskShape, OwnerInv, StatusOfTask
  <2>4. CASE kind[j] = "delete"
    <3>1. t \in Working("delete")
      BY <2>1, <2>4 DEF Working
    <3>2. AtWork = {j} /\ AtWork' = {} /\ DeletionState[j] = "running"
      BY <1>2, <2>1, <2>2, <2>3, <2>4, <3>1, WorkedOn, WorkStops DEF DeletionState
    <3>3. Promise!Becomes(j, task[t].target)
      BY <1>1, <1>2, <2>1, <2>4, DeletionWritten
    <3>4. Promise!End(j)
      BY <2>3, <3>2, <3>3 DEF Promise!End
    <3>. QED BY <1>2, <2>1, <3>4 DEF Promise!PromiseNext
  <2>5. CASE kind[j] # "delete"
    <3>1. AtWork' = AtWork
      BY <2>1, <2>2, <2>5, WorkStays DEF Working
    <3>. QED BY <1>1, <1>2, <2>1, <2>5, <3>1, OtherWritten DEF Stutters
  <2>. QED BY <2>4, <2>5
<1>6. CASE FinishFailed(t)
  <2>1. /\ task[t].pc = "failing" /\ kind' = kind
        /\ status' = [status EXCEPT ![j] = "failed"]
    BY <1>6 DEF FinishFailed, SetStatus
  <2>2. /\ task'[t].pc = "failReport"
        /\ \A s \in Task : s # t => task'[s] = task[s]
    BY <1>1, <1>6, TaskMoves DEF FinishFailed, TaskState
  <2>3. AtWork' = AtWork
    BY <2>1, <2>2, WorkStays DEF Working
  <2>4. CASE kind[j] = "delete"
    <3>1. j \notin AtWork
      BY <1>1, <2>1 DEF AtWork, Working, OwnerInv, OneOwner, Occupies
    <3>2. DeletionState[j] # "absent"
      BY <1>1, <1>2, <2>1, <2>4 DEF DeletionState, TaskShape
    <3>3. Promise!Becomes(j, "failed")
      BY <1>1, <1>2, <2>1, <2>4, DeletionWritten
    <3>4. Promise!Fail(j)
      BY <2>3, <3>1, <3>2, <3>3 DEF Promise!Fail
    <3>. QED BY <1>2, <2>1, <3>4 DEF Promise!PromiseNext
  <2>5. CASE kind[j] # "delete"
    BY <1>1, <1>2, <2>1, <2>3, <2>5, OtherWritten DEF Stutters
  <2>. QED BY <2>4, <2>5
<1>7. CASE Report(t) \/ WorkRaises(t) \/ DatabaseFault(t) \/ KillTask(t)
  <2>1. UNCHANGED <<kind, status>>
        /\ \E pc \in {"returned", "failing", "died", "killed"} : GoTask(t, pc)
    BY <1>7 DEF Report, WorkRaises, DatabaseFault, KillTask
  <2>2. /\ task'[t].pc \in {"returned", "failing", "died", "killed"}
        /\ \A s \in Task : s # t => task'[s] = task[s]
    BY <1>1, <2>1, TaskMoves DEF TaskState
  <2>. QED BY <2>1, <2>2, LeavingKeepsPromise
<1>8. CASE OnTaskDone(t)
  <2>1. UNCHANGED <<kind, status>> /\ task' = [task EXCEPT ![t] = FreeTask]
    BY <1>8 DEF OnTaskDone
  <2>2. task'[t].pc = "free" /\ \A s \in Task : s # t => task'[s] = task[s]
    BY <1>1, <2>1 DEF TypeOK, FreeTask
  <2>. QED BY <2>1, <2>2, LeavingKeepsPromise
<1>. QED BY <1>3, <1>4, <1>5, <1>6, <1>7, <1>8 DEF TaskStep

\* A finalizer fails a deletion that is not at work; a stop interrupts what is.
LEMMA OthersKeepPromise ==
  ASSUME IInv, (\E j \in Job : Cancel(j) \/ Finalize(j)) \/ ServerStep \/ Crash
  PROVE  Promise!PromiseNext \/ Stutters
<1>1. TypeOK /\ TaskShape /\ OwnerInv
  BY DEF IInv, ShapeInv
<1>2. ASSUME NEW j \in Job, Cancel(j) PROVE Stutters
  <2>1. UNCHANGED <<kind, status>>
    BY <1>2 DEF Cancel
  <2>2. \A s \in Task : task'[s].pc = task[s].pc /\ task'[s].job = task[s].job
    BY <1>1, <1>2, CancelEffect
  <2>3. AtWork' = AtWork
    BY <2>1, <2>2, WorkStays DEF Working
  <2>. QED BY <2>1, <2>3 DEF Stutters, DeletionState
<1>3. ASSUME NEW j \in Job, Finalize(j) PROVE Promise!PromiseNext \/ Stutters
  <2>1. j \in finalizing /\ UNCHANGED <<kind, task>>
    BY <1>3 DEF Finalize
  <2>2. AtWork' = AtWork
    BY <2>1 DEF AtWork, Working
  <2>3. CASE status' = status
    BY <2>1, <2>2, <2>3 DEF Stutters, DeletionState
  <2>4. CASE status' = [status EXCEPT ![j] = "failed"]
    <3>1. CASE kind[j] = "delete"
      <4>1. j \notin AtWork
        BY <1>1, <2>1 DEF AtWork, Working, OwnerInv, OneOwner, Occupies
      <4>2. DeletionState[j] # "absent"
        BY <1>1, <2>1, <3>1 DEF DeletionState, TaskShape
      <4>3. Promise!Becomes(j, "failed")
        BY <1>1, <2>1, <2>4, <3>1, DeletionWritten
      <4>4. Promise!Fail(j)
        BY <2>2, <4>1, <4>2, <4>3 DEF Promise!Fail
      <4>. QED BY <4>4 DEF Promise!PromiseNext
    <3>2. CASE kind[j] # "delete"
      BY <1>1, <2>1, <2>2, <2>4, <3>2, OtherWritten DEF Stutters
    <3>. QED BY <3>1, <3>2
  <2>. QED BY <1>3, <2>3, <2>4 DEF Finalize, SetStatus
<1>4. CASE Shutdown
  <2>1. UNCHANGED <<kind, status>>
    BY <1>4 DEF Shutdown
  <2>2. \A s \in Task : task'[s].pc = task[s].pc /\ task'[s].job = task[s].job
    BY <1>1, <1>4, ShutdownEffect
  <2>3. AtWork' = AtWork
    BY <2>1, <2>2, WorkStays DEF Working
  <2>. QED BY <2>1, <2>3 DEF Stutters, DeletionState
<1>5. ASSUME kind' = kind, PauseAllRunning, \A t \in Task : task'[t].pc = "free"
      PROVE  Promise!PromiseNext
  <2>1. AtWork' = {}
    BY <1>5 DEF AtWork, Working
  <2>2. Promise!Interrupt
    BY <1>5, <2>1 DEF Promise!Interrupt, PauseAllRunning, DeletionState
  <2>. QED BY <2>2 DEF Promise!PromiseNext
<1>6. CASE PauseRunning
  <2>1. kind' = kind /\ PauseAllRunning /\ \A t \in Task : task'[t].pc = "free"
    BY <1>6, StopEffect DEF PauseRunning, FreeTask
  <2>. QED BY <1>5, <2>1
<1>7. CASE RecoverOnStartup
  <2>1. kind' = kind /\ PauseAllRunning /\ \A t \in Task : task'[t].pc = "free"
    BY <1>1, <1>7 DEF RecoverOnStartup, OwnerInv, DownIsEmpty
  <2>. QED BY <1>5, <2>1
<1>8. CASE Crash
  <2>1. UNCHANGED <<kind, status>> /\ \A t \in Task : task'[t].pc = "free"
    BY <1>8, StopEffect DEF Crash, FreeTask
  <2>2. AtWork' = {}
    BY <2>1 DEF AtWork, Working
  <2>. QED BY <2>1, <2>2 DEF Promise!GiveUp, Promise!PromiseNext, DeletionState
<1>. QED BY <1>2, <1>3, <1>4, <1>6, <1>7, <1>8 DEF ServerStep

\* With one failed database access at most the job manager implements JobPromise: one
\* deletion is pending or running, one at most is at work, and only that one ends.
THEOREM LifecycleKeepsPromise ==
  ASSUME MaxFaults <= 1
  PROVE  Spec => KeepsPromise
<1>1. Init => Promise!PromiseInit
  BY DEF Init, Promise!PromiseInit, DeletionState, AtWork, Working, FreeTask
<1>2. IInv /\ HeldInv /\ [Next]_vars => [Promise!PromiseNext]_(Promise!promiseVars)
  <2>. SUFFICES ASSUME IInv, HeldInv, [Next]_vars PROVE Promise!PromiseNext \/ Stutters
    BY DEF Stutters, Promise!promiseVars
  <2>1. CASE UNCHANGED vars
    BY <2>1 DEF vars, Stutters, DeletionState, AtWork, Working
  <2>. QED BY <2>1, RequestKeepsPromise, TaskKeepsPromise, OthersKeepPromise DEF Next
<1>. QED BY <1>1, <1>2, HeldInvAlways, PTL DEF Spec, KeepsPromise, Promise!PromiseSpec

=============================================================================
