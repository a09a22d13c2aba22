--------------------------- MODULE DeleteJobProofs ---------------------------
(***************************************************************************)
(* Theorems about DeleteJob, for any comments, jobs, requests and numbers  *)
(* of disturbing events: what a deletion may touch and what it reports.    *)
(***************************************************************************)
EXTENDS DeleteJob, FiniteSetTheorems, TLAPS

(***************************************************************************)
(* Types                                                                   *)
(***************************************************************************)
JobStatus  == Active \cup {"absent", "paused", "completed", "failed", "cancelled"}
RowStatus  == {"active", "deleted", "failed"}
ItemStatus == {"none", "pending", "succeeded", "failed", "skipped"}

JobRecord == [status : JobStatus, dry : BOOLEAN, allow : BOOLEAN, done : Nat,
              succeeded : Nat, failed : Nat, skipped : Nat]
ReqRecord == [pc : {"idle", "lock", "backup"}, ids : SUBSET Comment, dry : BOOLEAN,
              allow : BOOLEAN]
RunRecord == [pc : {"idle", "start", "work", "verify", "total", "finish"},
              job : Job \cup {NoJob}, todo : SUBSET Comment, good : SUBSET Comment,
              bad : SUBSET Comment, succ : Nat, fail : Nat, cancel : BOOLEAN,
              cancelled : BOOLEAN, stopped : SUBSET {"circuit", "aborted"}, unread : BOOLEAN]
TrialRecord == [pc : {"idle", "record"}, c : Comment \cup {NoComment}, ok : BOOLEAN]

Types ==
    /\ class \in [Comment -> Classes] /\ status \in [Comment -> RowStatus]
    /\ alive \in SUBSET Comment /\ owner \in BOOLEAN
    /\ job \in [Job -> JobRecord] /\ item \in [Job -> [Comment -> ItemStatus]]
    /\ backup \in [Job -> SUBSET Comment]
    /\ req \in [Request -> ReqRecord] /\ lock \in Request \cup {NoRequest}
    /\ run \in RunRecord /\ test \in TrialRecord
    /\ run.pc # "idle" => run.job \in Job
    /\ test.pc = "record" => test.c \in Comment

LEMMA CountsAreNat ==
  ASSUME NEW S \in SUBSET Comment
  PROVE  IsFiniteSet(S) /\ Cardinality(S) \in Nat /\ Cardinality(S) <= Cardinality(Comment)
         /\ Cardinality(Comment) \in Nat
  BY FS_Subset, FS_CardinalityType, JobAssumption

LEMMA IdleRecords ==
  /\ IdleReq \in ReqRecord /\ IdleRun \in RunRecord /\ IdleTest \in TrialRecord
  /\ NewJob \in JobRecord
  BY DEF IdleReq, ReqRecord, IdleRun, RunRecord, IdleTest, TrialRecord, NewJob, JobRecord,
         JobStatus, Active

(***************************************************************************)
(* One deletion at a time                                                  *)
(***************************************************************************)
\* The job of a run is open, and running after its first step.
Open ==
    run.pc # "idle" =>
       /\ job[run.job].status \in Active
       /\ run.pc # "start" => job[run.job].status = "running"

\* A request that is at its backup holds the lock, and no job is open meanwhile.
Alone ==
    \A r \in Request : req[r].pc = "backup" =>
        lock = r /\ \A j \in Job : job[j].status \notin Active

\* So nothing is at work when a job is made or resumed.
LEMMA NothingAtWork ==
  ASSUME Types, Open, \A j \in Job : job[j].status \notin Active
  PROVE  run.pc = "idle"
  BY DEF Types, Open

(***************************************************************************)
(* What the steps do                                                       *)
(***************************************************************************)
\* Only the row of job j changes, and not what was agreed for it.
OnlyJob(j) ==
    /\ job' \in [Job -> JobRecord]
    /\ \A k \in Job : k # j => job'[k] = job[k]
SameTerms(j) == job'[j].dry = job[j].dry /\ job'[j].allow = job[j].allow
OnlyItems(j) ==
    /\ item' \in [Job -> [Comment -> ItemStatus]]
    /\ \A k \in Job : k # j => item'[k] = item[k]

\* The run stays as it is, up to its place.
SameRun ==
    /\ run' \in RunRecord /\ run'.job = run.job
    /\ run'.todo = run.todo /\ run'.good = run.good /\ run'.bad = run.bad
    /\ run'.succ = run.succ /\ run'.fail = run.fail /\ run'.stopped = run.stopped
    /\ run'.cancelled = run.cancelled

\* A run of job j begins.
Fresh(j) ==
    /\ run' \in RunRecord /\ run'.pc = "start" /\ run'.job = j
    /\ run'.todo = {} /\ run'.good = {} /\ run'.bad = {} /\ run'.stopped = {}
    /\ run'.succ = 0 /\ run'.fail = 0

Asking ==
    /\ req' \in [Request -> ReqRecord] /\ lock' \in Request \cup {NoRequest}
    /\ UNCHANGED <<class, status, alive, owner, job, item, backup, run, test>>

\* Job j is made.
Born(j) ==
    /\ run.pc = "idle" /\ Fresh(j)
    /\ job[j].status = "absent" /\ OnlyJob(j) /\ job'[j].status = "pending" /\ job'[j].done = 0
    /\ OnlyItems(j) /\ \A c \in Comment : item'[j][c] \in {"none", "pending"}
    /\ backup' \in [Job -> SUBSET Comment] /\ \A k \in Job : k # j => backup'[k] = backup[k]
    /\ ~job'[j].dry => \A c \in Comment : item'[j][c] # "none" => c \in backup'[j]
    /\ req' \in [Request -> ReqRecord] /\ lock' \in Request \cup {NoRequest}
    /\ UNCHANGED <<class, status, alive, owner, test>>

\* Job j goes on.
Resuming(j) ==
    /\ run.pc = "idle" /\ Fresh(j)
    /\ job[j].status = "paused" /\ OnlyJob(j) /\ SameTerms(j) /\ job'[j].status = "running"
    /\ job'[j].done = job[j].done
    /\ UNCHANGED <<class, status, alive, owner, item, backup, req, lock, test>>

\* The run is told something, or ends its work.
Turned ==
    /\ run.pc # "idle" /\ run' \in RunRecord /\ run'.job = run.job /\ run'.todo = run.todo
    /\ run'.good \subseteq run.good /\ run'.bad \subseteq run.bad
    /\ run'.succ = run.succ /\ run'.fail = run.fail
    /\ run.stopped \subseteq run'.stopped /\ run'.unread = run.unread
    /\ \/ run'.pc = run.pc /\ (run.pc = "work" \/ run'.stopped = run.stopped)
       \/ /\ run.pc = "work" /\ run'.pc \in {"verify", "total"}
          /\ run'.pc = "total" => job[j0].dry \/ run'.stopped # {}
          /\ run'.pc = "verify" => ~job[j0].dry
    /\ UNCHANGED <<class, status, alive, owner, job, item, backup, req, lock, test>>

Filtering ==
    /\ run.pc = "start" /\ run' \in RunRecord /\ run'.pc \in {"work", "total"}
    /\ run'.job = run.job /\ run'.good = run.good /\ run'.bad = run.bad
    /\ run'.succ = run.succ /\ run'.fail = run.fail /\ run'.stopped = run.stopped
    /\ run'.todo = {c \in Items(j0, "pending") : ~Skips(j0, c)}
    /\ OnlyItems(j0)
    /\ \A c \in Comment : /\ item'[j0][c] = "none" <=> item[j0][c] = "none"
                          /\ item'[j0][c] = item[j0][c] \/ item'[j0][c] = "skipped"
    /\ OnlyJob(j0) /\ SameTerms(j0) /\ job'[j0].status = "running" /\ job'[j0].done = job[j0].done
    /\ UNCHANGED <<class, status, alive, owner, backup, req, lock, test>>

Sending(c) ==
    /\ run.pc = "work" /\ c \in run.todo
    /\ run' \in RunRecord /\ run'.pc = "work" /\ run'.job = run.job
    /\ run'.todo = run.todo \ {c} /\ run'.stopped = run.stopped
    /\ \/ run'.good = run.good \cup {c} /\ run'.bad = run.bad
       \/ run'.bad = run.bad \cup {c} /\ run'.good = run.good
    /\ run'.succ = run.succ /\ run'.fail = run.fail
    /\ alive' \in SUBSET alive
    /\ UNCHANGED <<class, status, owner, job, item, backup, req, lock, test>>

Storing ==
    /\ run.pc = "work"
    /\ run' \in RunRecord /\ run'.pc = "work" /\ run'.job = run.job /\ run'.todo = run.todo
    /\ run'.good = {} /\ run'.bad = {} /\ run'.stopped = run.stopped
    /\ run'.succ = run.succ + Cardinality(run.good)
    /\ run'.fail = run.fail + Cardinality(run.bad)
    /\ OnlyJob(j0) /\ SameTerms(j0) /\ job'[j0].status = job[j0].status
    /\ job'[j0].done = run'.succ + run'.fail
    /\ OnlyItems(j0)
    /\ \A c \in Comment : item'[j0][c] = "none" => item[j0][c] = "none"
    /\ \A c \in Comment : item'[j0][c] # "none" => c \in Unsaved \/ item[j0][c] # "none"
    /\ status' = [c \in Comment |->
                    IF c \in run.good /\ ~job[j0].dry THEN "deleted"
                    ELSE IF c \in run.bad THEN "failed" ELSE status[c]]
    /\ UNCHANGED <<class, alive, owner, backup, req, lock, test>>

Verifying ==
    /\ run.pc = "verify" /\ SameRun /\ run'.pc = "total"
    /\ OnlyItems(j0)
    /\ \A c \in Comment : item'[j0][c] = "none" <=> item[j0][c] = "none"
    /\ status' \in [Comment -> RowStatus]
    /\ \A c \in Comment : status'[c] # status[c] =>
          \/ status'[c] = "deleted" /\ item[j0][c] = "failed" /\ item'[j0][c] = "succeeded"
          \/ status'[c] = "failed" /\ c \in alive
    /\ ~run'.unread =>
         \A c \in Comment : /\ item'[j0][c] = "succeeded" => c \notin alive
                            /\ item'[j0][c] = "failed" => c \in alive
                            /\ item[j0][c] = "succeeded" /\ c \in alive => status'[c] = "failed"
    /\ UNCHANGED <<class, alive, owner, job, backup, req, lock, test>>

Totalling ==
    /\ run.pc = "total" /\ SameRun /\ run'.pc = "finish" /\ run'.unread = run.unread
    /\ OnlyJob(j0) /\ SameTerms(j0) /\ job'[j0].status = job[j0].status
    /\ <<job'[j0].succeeded, job'[j0].failed, job'[j0].skipped>> = Totals(j0)
    /\ job'[j0].done = job'[j0].succeeded + job'[j0].failed + job'[j0].skipped
    /\ UNCHANGED <<class, status, alive, owner, item, backup, req, lock, test>>

\* The run ends with its job in status s.
Over(s) ==
    /\ run.pc # "idle" /\ run' = IdleRun
    /\ OnlyJob(j0) /\ job'[j0] = [job[j0] EXCEPT !.status = s] /\ s \in JobStatus
    /\ UNCHANGED <<class, status, alive, owner, item, backup, req, lock, test>>

Crashing ==
    /\ run' = IdleRun /\ test' = IdleTest /\ req' \in [Request -> ReqRecord] /\ lock' = NoRequest
    /\ job' \in [Job -> JobRecord]
    /\ \A j \in Job : \/ job'[j] = job[j] /\ job[j].status # "running"
                      \/ job[j].status = "running" /\ job'[j] = [job[j] EXCEPT !.status = "paused"]
    /\ UNCHANGED <<class, status, alive, owner, item, backup>>

Trying ==
    /\ test.pc = "idle" /\ test' \in TrialRecord /\ test'.pc = "record" /\ test'.c \in Comment
    /\ status[test'.c] # "deleted"
    /\ alive' \in SUBSET alive /\ alive \ {test'.c} \subseteq alive'
    /\ UNCHANGED <<class, status, owner, job, item, backup, req, lock, run>>

Tried ==
    /\ test.pc = "record" /\ test' = IdleTest
    /\ status' = [status EXCEPT ![test.c] = IF test.ok THEN "deleted" ELSE "failed"]
    /\ UNCHANGED <<class, alive, owner, job, item, backup, req, lock, run>>

Rescored ==
    /\ class' \in [Comment -> Classes]
    /\ UNCHANGED <<status, alive, owner, job, item, backup, req, lock, run, test>>

LEMMA RequestsAsk ==
  ASSUME Types, NEW r \in Request,
         \/ CreateDelete(r) \/ RetryFailed(r) \/ RetryLocked(r) \/ RetryRefused(r)
         \/ BackupFails(r)
  PROVE  Asking
  <1> USE IdleRecords
  <1>1. ASSUME NEW ids \in SUBSET Comment, NEW dry \in BOOLEAN, NEW allow \in BOOLEAN,
               Resolve(r, ids, dry, allow)
        PROVE  Asking
    <2>1. [pc |-> "backup", ids |-> {c \in ids : Selectable(c)}, dry |-> dry, allow |-> allow]
            \in ReqRecord
      BY DEF ReqRecord
    <2> QED BY <1>1, <2>1 DEF Resolve, Asking, Types, rows, records
  <1>2. ASSUME EndRequest(r) PROVE req' \in [Request -> ReqRecord] /\ lock' \in Request \cup {NoRequest}
    BY <1>2 DEF EndRequest, Types
  <1>3. req[r].ids \in SUBSET Comment /\ req[r].dry \in BOOLEAN /\ req[r].allow \in BOOLEAN
    BY DEF Types, ReqRecord
  <1>4. CASE CreateDelete(r) BY <1>4, <1>1 DEF CreateDelete, Selections
  <1>5. CASE RetryFailed(r)
    <2>1. PICK j \in Job : req' = [req EXCEPT ![r] = [pc |-> "lock", ids |-> Items(j, "failed"),
                                       dry |-> job[j].dry, allow |-> job[j].allow]]
      BY <1>5 DEF RetryFailed
    <2>2. [pc |-> "lock", ids |-> Items(j, "failed"), dry |-> job[j].dry, allow |-> job[j].allow]
            \in ReqRecord
      BY DEF ReqRecord, Items, Types, JobRecord
    <2> QED BY <1>5, <2>1, <2>2 DEF RetryFailed, Asking, Types, rows, records
  <1>6. CASE RetryLocked(r) BY <1>6, <1>1, <1>3 DEF RetryLocked
  <1>7. CASE RetryRefused(r)
    BY <1>7, <1>2 DEF RetryRefused, Asking, Types, rows, records
  <1>8. CASE BackupFails(r)
    BY <1>8, <1>2 DEF BackupFails, Asking, Types, rows, records
  <1> QED BY <1>4, <1>5, <1>6, <1>7, <1>8

LEMMA CreationIsBirth ==
  ASSUME Types, Open, Alone, NEW r \in Request, NEW j \in Job, Create(r, j)
  PROVE  Born(j)
  <1> USE IdleRecords
  <1> DEFINE new == [NewJob EXCEPT !.status = "pending", !.dry = req[r].dry, !.allow = req[r].allow]
             its == [c \in Comment |-> IF c \in req[r].ids THEN "pending" ELSE "none"]
  <1>1. new \in JobRecord /\ new.status = "pending" /\ new.done = 0 /\ new.dry = req[r].dry
    BY DEF NewJob, JobRecord, JobStatus, Active, Types, ReqRecord
  <1>2. its \in [Comment -> ItemStatus] /\ \A c \in Comment : its[c] \in {"none", "pending"}
    BY DEF ItemStatus
  <1>3. Fresh(j)
    BY DEF Create, Launch, Fresh, IdleRun, RunRecord
  <1>4. OnlyJob(j) /\ job'[j] = new
    BY <1>1 DEF Create, OnlyJob, Types
  <1>5. OnlyItems(j) /\ item'[j] = its
    BY <1>2 DEF Create, OnlyItems, Types
  <1>6. /\ backup' \in [Job -> SUBSET Comment] /\ \A k \in Job : k # j => backup'[k] = backup[k]
        /\ backup'[j] = IF req[r].dry THEN {} ELSE req[r].ids
    BY DEF Create, Types, ReqRecord
  <1>7. ~job'[j].dry => \A c \in Comment : item'[j][c] # "none" => c \in backup'[j]
    BY <1>1, <1>4, <1>5, <1>6 DEF its
  <1>8. req' \in [Request -> ReqRecord] /\ lock' \in Request \cup {NoRequest}
    BY DEF Create, EndRequest, Types
  <1>9. run.pc = "idle"
    BY NothingAtWork DEF Create, Alone
  <1> HIDE DEF new, its
  <1> QED BY <1>1, <1>2, <1>3, <1>4, <1>5, <1>6, <1>7, <1>8, <1>9 DEF Born, Create, rows, Types

LEMMA ResumptionResumes ==
  ASSUME Types, Open, NEW j \in Job, Resume(j)
  PROVE  Resuming(j)
  <1> USE IdleRecords
  <1>1. Fresh(j)
    BY DEF Resume, Launch, Fresh, IdleRun, RunRecord
  <1>2. [job[j] EXCEPT !.status = "running"] \in JobRecord
    BY DEF Types, JobRecord, JobStatus, Active
  <1>3. /\ OnlyJob(j) /\ SameTerms(j) /\ job'[j].status = "running" /\ job'[j].done = job[j].done
    BY <1>2 DEF Resume, OnlyJob, SameTerms, Types, JobRecord
  <1>4. run.pc = "idle"
    BY NothingAtWork DEF Resume
  <1> QED BY <1>1, <1>3, <1>4 DEF Resuming, Resume, rows

LEMMA TurningTurns ==
  ASSUME Types, Cancel \/ OpenCircuit \/ Abort \/ EndWork
  PROVE  Turned
  <1>1. CASE Cancel BY <1>1 DEF Cancel, Turned, Types, RunRecord, rows, records
  <1>2. CASE OpenCircuit BY <1>2 DEF OpenCircuit, Turned, Types, RunRecord, rows, records
  <1>3. CASE Abort
    <2>1. run.pc = "work" /\ run \in RunRecord
          /\ UNCHANGED <<class, status, alive, owner, job, item, backup, req, lock, test>>
      BY <1>3 DEF Abort, Types, rows, records
    <2>2. run.stopped \cup {"aborted"} \in SUBSET {"circuit", "aborted"}
      BY <2>1 DEF RunRecord
    <2>3. CASE run' = [run EXCEPT !.stopped = @ \cup {"aborted"}]
      BY <2>1, <2>2, <2>3 DEF Turned, RunRecord
    <2>4. CASE run' = [run EXCEPT !.stopped = @ \cup {"aborted"}, !.good = {}, !.bad = {}]
      BY <2>1, <2>2, <2>4 DEF Turned, RunRecord
    <2> QED BY <1>3, <2>3, <2>4 DEF Abort
  <1>4. CASE EndWork BY <1>4 DEF EndWork, Turned, Types, RunRecord, rows, records
  <1> QED BY <1>1, <1>2, <1>3, <1>4

LEMMA FilterFilters ==
  ASSUME Types, Filter
  PROVE  Filtering
  <1> DEFINE pending == Items(j0, "pending")
             skipped == {c \in pending : Skips(j0, c)}
             its == [c \in Comment |-> IF c \in skipped THEN "skipped" ELSE item[j0][c]]
             num == IF skipped = {} THEN job[j0].skipped ELSE Cardinality(skipped)
             new == [job[j0] EXCEPT !.status = "running", !.skipped = num]
  <1>1. run.pc = "start" /\ j0 \in Job
    BY DEF Filter, j0, Types
  <1>2. job[j0] \in JobRecord /\ item[j0] \in [Comment -> ItemStatus]
    BY <1>1 DEF Types
  <1>3. pending \in SUBSET Comment /\ skipped \in SUBSET Comment
    BY DEF Items
  <1>4. num \in Nat
    BY <1>2, <1>3, CountsAreNat DEF JobRecord
  <1>5. its \in [Comment -> ItemStatus]
    BY <1>2 DEF ItemStatus
  <1>6. new \in JobRecord /\ new.status = "running" /\ new.done = job[j0].done
        /\ new.dry = job[j0].dry /\ new.allow = job[j0].allow
    <2> HIDE DEF num
    <2> QED BY <1>2, <1>4 DEF JobRecord, JobStatus, Active
  <1>7. \A c \in Comment : /\ its[c] = "none" <=> item[j0][c] = "none"
                           /\ its[c] = item[j0][c] \/ its[c] = "skipped"
    BY DEF Items
  <1>8. item' = [item EXCEPT ![j0] = its]
    BY <1>1, <1>2 DEF Filter, Types
  <1>9. job' = [job EXCEPT ![j0] = new]
    BY <1>1, <1>2 DEF Filter, Types, JobRecord
  <1>10. OnlyItems(j0) /\ item'[j0] = its
    <2> HIDE DEF its
    <2> QED BY <1>1, <1>5, <1>8 DEF OnlyItems, Types
  <1>11. OnlyJob(j0) /\ job'[j0] = new
    <2> HIDE DEF new
    <2> QED BY <1>1, <1>6, <1>9 DEF OnlyJob, Types
  <1>12. run' = [run EXCEPT !.todo = pending \ skipped,
                            !.pc = IF pending = skipped THEN "total" ELSE "work"]
    BY DEF Filter
  <1>13. pending \ skipped = {c \in pending : ~Skips(j0, c)}
    OBVIOUS
  <1>14. /\ run' \in RunRecord /\ run'.pc \in {"work", "total"}
         /\ run'.job = run.job /\ run'.good = run.good /\ run'.bad = run.bad
         /\ run'.succ = run.succ /\ run'.fail = run.fail /\ run'.stopped = run.stopped
         /\ run'.todo = {c \in pending : ~Skips(j0, c)}
    <2> HIDE DEF pending, skipped
    <2> QED BY <1>3, <1>12, <1>13 DEF Types, RunRecord
  <1>15. UNCHANGED <<class, status, alive, owner, backup, req, lock, test>>
    BY DEF Filter, rows
  <1> HIDE DEF its, new, skipped
  <1> QED BY <1>1, <1>6, <1>7, <1>10, <1>11, <1>14, <1>15 DEF Filtering, SameTerms

LEMMA AskingSends ==
  ASSUME Types, NEW c \in Comment, AskBlog(c)
  PROVE  Sending(c)
  <1>1. run.pc = "work" /\ c \in run.todo /\ run \in RunRecord /\ alive \in SUBSET Comment
        /\ UNCHANGED <<class, status, owner, job, item, backup, req, lock, test>>
    BY DEF AskBlog, Types, rows, records
  <1>2. CASE /\ run' = [run EXCEPT !.todo = @ \ {c}, !.good = @ \cup {c}]
             /\ alive' = alive \/ alive' = alive \ {c}
    <2>1. run' \in RunRecord /\ run'.pc = "work" /\ run'.job = run.job
          /\ run'.todo = run.todo \ {c} /\ run'.stopped = run.stopped
          /\ run'.good = run.good \cup {c} /\ run'.bad = run.bad
          /\ run'.succ = run.succ /\ run'.fail = run.fail
      BY <1>1, <1>2 DEF RunRecord
    <2> QED BY <1>1, <1>2, <2>1 DEF Sending
  <1>3. CASE /\ run' = [run EXCEPT !.todo = @ \ {c}, !.bad = @ \cup {c}]
             /\ alive' = alive \/ alive' = alive \ {c}
    <2>1. run' \in RunRecord /\ run'.pc = "work" /\ run'.job = run.job
          /\ run'.todo = run.todo \ {c} /\ run'.stopped = run.stopped
          /\ run'.bad = run.bad \cup {c} /\ run'.good = run.good
          /\ run'.succ = run.succ /\ run'.fail = run.fail
      BY <1>1, <1>3 DEF RunRecord
    <2> QED BY <1>1, <1>3, <2>1 DEF Sending
  <1> QED BY <1>2, <1>3 DEF AskBlog

LEMMA StoringStores ==
  ASSUME Types, Store(Unsaved)
  PROVE  Storing
  <1> DEFINE succ == run.succ + Cardinality(run.good)
             fail == run.fail + Cardinality(run.bad)
             its == [c \in Comment |-> IF c \in run.good THEN "succeeded"
                         ELSE IF c \in run.bad THEN "failed" ELSE item[j0][c]]
             new == [job[j0] EXCEPT !.done = succ + fail, !.succeeded = succ, !.failed = fail]
  <1>1. run.pc = "work" /\ j0 \in Job
    BY DEF Store, j0, Types
  <1>2. job[j0] \in JobRecord /\ item[j0] \in [Comment -> ItemStatus]
    BY <1>1 DEF Types
  <1>3. run.good \in SUBSET Comment /\ run.bad \in SUBSET Comment /\ run.succ \in Nat
        /\ run.fail \in Nat
    BY DEF Types, RunRecord
  <1>4. succ \in Nat /\ fail \in Nat /\ succ + fail \in Nat
    BY <1>3, CountsAreNat
  <1>5. /\ Unsaved \cap run.good = run.good /\ Unsaved \cap run.bad = run.bad
        /\ run.good \ Unsaved = {} /\ run.bad \ Unsaved = {}
    BY DEF Unsaved
  <1>6. its \in [Comment -> ItemStatus]
    BY <1>2 DEF ItemStatus
  <1>7. new \in JobRecord /\ new.status = job[j0].status /\ new.done = succ + fail
        /\ new.dry = job[j0].dry /\ new.allow = job[j0].allow
    <2> HIDE DEF succ, fail
    <2> QED BY <1>2, <1>4 DEF JobRecord
  <1>8. run' = [run EXCEPT !.good = {}, !.bad = {}, !.succ = succ, !.fail = fail]
    BY <1>5 DEF Store
  <1>9. /\ run' \in RunRecord /\ run'.pc = "work" /\ run'.job = run.job /\ run'.todo = run.todo
        /\ run'.good = {} /\ run'.bad = {} /\ run'.stopped = run.stopped
        /\ run'.succ = succ /\ run'.fail = fail
    <2> HIDE DEF succ, fail
    <2> QED BY <1>1, <1>4, <1>8 DEF Types, RunRecord
  <1>10. item' = [item EXCEPT ![j0] = its]
    BY <1>1, <1>2, <1>5 DEF Store, Types
  <1>11. job' = [job EXCEPT ![j0] = new]
    BY <1>1, <1>2, <1>5 DEF Store, Types, JobRecord
  <1>12. OnlyItems(j0) /\ item'[j0] = its
    <2> HIDE DEF its
    <2> QED BY <1>1, <1>6, <1>10 DEF OnlyItems, Types
  <1>13. OnlyJob(j0) /\ job'[j0] = new
    <2> HIDE DEF new
    <2> QED BY <1>1, <1>7, <1>11 DEF OnlyJob, Types
  <1>14. \A c \in Comment : /\ its[c] = "none" => item[j0][c] = "none"
                            /\ its[c] # "none" => c \in Unsaved \/ item[j0][c] # "none"
    BY DEF Unsaved
  <1>15. /\ status' = [c \in Comment |->
                    IF c \in run.good /\ ~job[j0].dry THEN "deleted"
                    ELSE IF c \in run.bad THEN "failed" ELSE status[c]]
         /\ UNCHANGED <<class, alive, owner, backup, req, lock, test>>
    BY <1>5 DEF Store
  <1>16. \A c \in Comment :
            /\ item'[j0][c] = "none" => item[j0][c] = "none"
            /\ item'[j0][c] # "none" => c \in Unsaved \/ item[j0][c] # "none"
    <2>1. item'[j0] = its
      BY <1>12
    <2> QED BY <2>1, <1>14, Zenon
  <1>17. SameTerms(j0) /\ job'[j0].status = job[j0].status /\ job'[j0].done = run'.succ + run'.fail
    <2> HIDE DEF new, succ, fail
    <2> QED BY <1>7, <1>9, <1>13 DEF SameTerms
  <1> HIDE DEF its, new
  <1> QED BY <1>1, <1>9, <1>12, <1>13, <1>15, <1>16, <1>17 DEF Storing

LEMMA VerifyVerifies ==
  ASSUME Types, Verify
  PROVE  Verifying
  <1>1. run.pc = "verify" /\ j0 \in Job /\ alive \in SUBSET Comment
        /\ UNCHANGED <<class, alive, owner, job, backup, req, lock, test>>
    BY DEF Verify, j0, Types
  <1>2. PICK read \in SUBSET Comment, corrected \in BOOLEAN, reverted \in BOOLEAN :
          (reverted => corrected) /\ Correct(read, corrected, reverted)
    BY DEF Verify
  <1> DEFINE gone    == IF corrected THEN Items(j0, "failed") \ (alive \cap read) ELSE {}
             revived == IF reverted THEN Items(j0, "succeeded") \cap alive \cap read ELSE {}
             whole   == read = Comment /\ reverted
             its == [c \in Comment |-> IF c \in gone THEN "succeeded"
                            ELSE IF c \in revived THEN "failed" ELSE item[j0][c]]
             sts == [c \in Comment |-> IF c \in gone THEN "deleted"
                              ELSE IF c \in revived THEN "failed" ELSE status[c]]
  <1>3. item' = [item EXCEPT ![j0] = its] /\ status' = sts
    BY <1>1, <1>2 DEF Correct, Types
  <1>4. SameRun /\ run'.pc = "total" /\ run'.unread = ~whole
    BY <1>2 DEF Correct, SameRun, Types, RunRecord
  <1>5. its \in [Comment -> ItemStatus] /\ sts \in [Comment -> RowStatus]
    BY <1>1 DEF Types, ItemStatus, RowStatus
  <1>6. OnlyItems(j0) /\ item'[j0] = its
    <2> HIDE DEF its, sts
    <2> QED BY <1>1, <1>3, <1>5 DEF OnlyItems, Types
  <1>7. \A c \in Comment : its[c] = "none" <=> item[j0][c] = "none"
    BY DEF Items
  <1>8. \A c \in Comment : sts[c] # status[c] =>
           \/ sts[c] = "deleted" /\ item[j0][c] = "failed" /\ its[c] = "succeeded"
           \/ sts[c] = "failed" /\ c \in alive
    BY DEF Items
  <1>9. whole => \A c \in Comment : /\ its[c] = "succeeded" => c \notin alive
                                    /\ its[c] = "failed" => c \in alive
                                    /\ item[j0][c] = "succeeded" /\ c \in alive => sts[c] = "failed"
    BY <1>2 DEF Items
  <1> HIDE DEF its, sts, whole
  <1> QED BY <1>1, <1>3, <1>4, <1>5, <1>6, <1>7, <1>8, <1>9 DEF Verifying

LEMMA TotalTotals ==
  ASSUME Types, Total
  PROVE  Totalling
  <1> DEFINE s == Counts(j0, "succeeded")
             f == Counts(j0, "failed")
             k == Counts(j0, "skipped")
             new == [job[j0] EXCEPT !.done = s + f + k, !.succeeded = s, !.failed = f,
                                    !.skipped = k]
  <1>1. run.pc = "total" /\ j0 \in Job /\ SameRun /\ run'.pc = "finish"
        /\ run'.unread = run.unread
    BY DEF Total, j0, Types, SameRun, RunRecord
  <1>2. s \in Nat /\ f \in Nat /\ k \in Nat /\ s + f + k \in Nat
    <2>1. s \in Nat /\ f \in Nat /\ k \in Nat
      BY CountsAreNat DEF Counts, Items
    <2> HIDE DEF s, f, k
    <2> QED BY <2>1
  <1>3. job[j0] \in JobRecord /\ job \in [Job -> JobRecord]
    BY <1>1 DEF Types
  <1>4. job' = [job EXCEPT ![j0] = new]
    BY <1>1, <1>3 DEF Total, JobRecord
  <1>5. /\ new \in JobRecord /\ new.status = job[j0].status /\ new.done = s + f + k
        /\ new.dry = job[j0].dry /\ new.allow = job[j0].allow
        /\ new.succeeded = s /\ new.failed = f /\ new.skipped = k
    <2> HIDE DEF s, f, k
    <2> QED BY <1>2, <1>3 DEF JobRecord
  <1>6. OnlyJob(j0) /\ job'[j0] = new
    <2> HIDE DEF new
    <2> QED BY <1>1, <1>3, <1>4, <1>5 DEF OnlyJob
  <1>7. UNCHANGED <<class, status, alive, owner, item, backup, req, lock, test>>
    BY DEF Total, rows
  <1>8. Totals(j0) = <<s, f, k>>
    BY DEF Totals
  <1> HIDE DEF new, s, f, k
  <1> QED BY <1>1, <1>5, <1>6, <1>7, <1>8 DEF Totalling, SameTerms

LEMMA FinishIsOver ==
  ASSUME Types, Finish
  PROVE  run.pc = "finish" /\ Over(FinalStatus)
  <1>1. FinalStatus \in JobStatus
    BY DEF FinalStatus, JobStatus
  <1>2. run.pc = "finish" /\ j0 \in Job
    BY DEF Finish, j0, Types
  <1>3. [job[j0] EXCEPT !.status = FinalStatus] \in JobRecord
    <2>1. job[j0] \in JobRecord
      BY <1>2 DEF Types
    <2> HIDE DEF FinalStatus
    <2> QED BY <1>1, <2>1 DEF JobRecord
  <1>4. OnlyJob(j0) /\ job'[j0] = [job[j0] EXCEPT !.status = FinalStatus]
    <2> HIDE DEF FinalStatus
    <2> QED BY <1>2, <1>3 DEF Finish, OnlyJob, Types, JobRecord
  <1> QED BY <1>1, <1>2, <1>4 DEF Over, Finish, rows

LEMMA RaisingIsOver ==
  ASSUME Types, RunRaises
  PROVE  Over("failed")
  <1>1. run.pc # "idle" /\ j0 \in Job
    BY DEF RunRaises, j0, Types
  <1>2. [job[j0] EXCEPT !.status = "failed"] \in JobRecord
    <2>1. job[j0] \in JobRecord
      BY <1>1 DEF Types
    <2>2. "failed" \in JobStatus
      BY DEF JobStatus
    <2> QED BY <2>1, <2>2 DEF JobRecord
  <1>3. OnlyJob(j0) /\ job'[j0] = [job[j0] EXCEPT !.status = "failed"]
    BY <1>1, <1>2 DEF RunRaises, OnlyJob, Types, JobRecord
  <1> QED BY <1>1, <1>3 DEF Over, RunRaises, rows, JobStatus

LEMMA CrashCrashes ==
  ASSUME Types, Crash
  PROVE  Crashing
  <1>1. \A j \in Job : [job[j] EXCEPT !.status = "paused"] \in JobRecord
    <2>1. job \in [Job -> JobRecord] /\ "paused" \in JobStatus
      BY DEF Types, JobStatus
    <2> QED BY <2>1 DEF JobRecord
  <1>2. job' \in [Job -> JobRecord]
    BY <1>1 DEF Crash, Types
  <1>3. \A j \in Job : \/ job'[j] = job[j] /\ job[j].status # "running"
                       \/ job[j].status = "running"
                             /\ job'[j] = [job[j] EXCEPT !.status = "paused"]
    BY DEF Crash, Types
  <1> QED BY <1>2, <1>3, IdleRecords DEF Crash, Crashing, rows

LEMMA TrialsTry ==
  ASSUME Types, NEW c \in Comment, TestAsk(c)
  PROVE  Trying
  <1>1. test' \in TrialRecord /\ test'.pc = "record" /\ test'.c = c
    <2>1. PICK ok \in BOOLEAN : test' = [pc |-> "record", c |-> c, ok |-> ok]
      BY DEF TestAsk
    <2> QED BY <2>1 DEF TrialRecord
  <1>2. alive' \in SUBSET alive /\ alive \ {c} \subseteq alive'
    BY DEF TestAsk
  <1> QED BY <1>1, <1>2 DEF TestAsk, Trying, Selectable, rows, records

LEMMA TrialsEnd ==
  ASSUME Types, TestRecord
  PROVE  Tried
  BY DEF TestRecord, Tried, records

LEMMA RescoringRescores ==
  ASSUME Types, NEW c \in Comment, NEW k \in Classes, Rescore(c, k)
  PROVE  Rescored
  BY DEF Rescore, Rescored, Types, records

\* Every step is one of them.
Kinds ==
    \/ Asking
    \/ \E j \in Job : Born(j) \/ Resuming(j)
    \/ Turned \/ Filtering
    \/ \E c \in Comment : Sending(c)
    \/ Storing \/ Verifying \/ Totalling
    \/ run.pc = "finish" /\ Over(FinalStatus)
    \/ Over("failed")
    \/ Crashing \/ Trying \/ Tried \/ Rescored

LEMMA StepKinds ==
  ASSUME Types, Open, Alone, Step
  PROVE  Kinds
  <1>1. CASE \E r \in Request : \/ CreateDelete(r) \/ RetryFailed(r) \/ RetryLocked(r)
                                \/ RetryRefused(r) \/ BackupFails(r)
    BY <1>1, RequestsAsk DEF Kinds
  <1>2. CASE \E r \in Request, j \in Job : Create(r, j)
    BY <1>2, CreationIsBirth DEF Kinds
  <1>3. CASE \E j \in Job : Resume(j)
    BY <1>3, ResumptionResumes DEF Kinds
  <1>4. CASE Cancel \/ OpenCircuit \/ Abort \/ EndWork
    BY <1>4, TurningTurns DEF Kinds
  <1>5. CASE Filter BY <1>5, FilterFilters DEF Kinds
  <1>6. CASE \E c \in Comment : AskBlog(c) BY <1>6, AskingSends DEF Kinds
  <1>7. CASE Store(Unsaved) BY <1>7, StoringStores DEF Kinds
  <1>8. CASE Verify BY <1>8, VerifyVerifies DEF Kinds
  <1>9. CASE Total BY <1>9, TotalTotals DEF Kinds
  <1>10. CASE Finish BY <1>10, FinishIsOver DEF Kinds
  <1>11. CASE RunRaises BY <1>11, RaisingIsOver DEF Kinds
  <1>12. CASE Crash BY <1>12, CrashCrashes DEF Kinds
  <1>13. CASE \E c \in Comment : TestAsk(c) BY <1>13, TrialsTry DEF Kinds
  <1>14. CASE TestRecord BY <1>14, TrialsEnd DEF Kinds
  <1>15. CASE \E c \in Comment, k \in Classes : Rescore(c, k)
    BY <1>15, RescoringRescores DEF Kinds
  <1> QED
    BY <1>1, <1>2, <1>3, <1>4, <1>5, <1>6, <1>7, <1>8, <1>9, <1>10, <1>11, <1>12, <1>13,
       <1>14, <1>15 DEF Step

LEMMA TypesHoldFirst ==
  ASSUME Init PROVE Types
  <1>1. job \in [Job -> JobRecord] /\ req \in [Request -> ReqRecord] /\ run \in RunRecord
        /\ test \in TrialRecord /\ run.pc = "idle" /\ test.pc = "idle"
    BY IdleRecords DEF Init, IdleRun, IdleTest
  <1>2. class \in [Comment -> Classes] /\ status \in [Comment -> RowStatus]
    BY DEF Init, RowStatus
  <1>3. item \in [Job -> [Comment -> ItemStatus]]
    BY DEF Init, ItemStatus
  <1> QED BY <1>1, <1>2, <1>3 DEF Types, Init

LEMMA TypesStay ==
  ASSUME Types, Open, Alone, Step
  PROVE  Types'
  <1> USE IdleRecords
  <1>1. CASE Asking BY <1>1 DEF Asking, Types
  <1>2. ASSUME NEW j \in Job, Born(j) PROVE Types'
    BY <1>2 DEF Born, Fresh, OnlyJob, OnlyItems, Types
  <1>3. ASSUME NEW j \in Job, Resuming(j) PROVE Types'
    BY <1>3 DEF Resuming, Fresh, OnlyJob, Types
  <1>4. CASE Turned BY <1>4 DEF Turned, Types
  <1>5. CASE Filtering BY <1>5 DEF Filtering, OnlyItems, OnlyJob, Types
  <1>6. ASSUME NEW c \in Comment, Sending(c) PROVE Types'
    BY <1>6 DEF Sending, Types
  <1>7. CASE Storing
    <2>1. status' \in [Comment -> RowStatus]
      BY <1>7 DEF Storing, Types, RowStatus
    <2> QED BY <1>7, <2>1 DEF Storing, OnlyItems, OnlyJob, Types
  <1>8. CASE Verifying BY <1>8 DEF Verifying, SameRun, OnlyItems, Types
  <1>9. CASE Totalling BY <1>9 DEF Totalling, SameRun, OnlyJob, Types
  <1>10. ASSUME NEW s, Over(s) PROVE Types'
    BY <1>10 DEF Over, OnlyJob, Types, IdleRun
  <1>11. CASE Crashing BY <1>11 DEF Crashing, Types, IdleRun, IdleTest
  <1>12. CASE Trying BY <1>12 DEF Trying, Types
  <1>13. CASE Tried
    <2>1. status' \in [Comment -> RowStatus]
      BY <1>13 DEF Tried, Types, RowStatus
    <2> QED BY <1>13, <2>1 DEF Tried, Types, IdleTest
  <1>14. CASE Rescored BY <1>14 DEF Rescored, Types
  <1> QED
    BY StepKinds, <1>1, <1>2, <1>3, <1>4, <1>5, <1>6, <1>7, <1>8, <1>9, <1>10, <1>11, <1>12,
       <1>13, <1>14 DEF Kinds

\* A stuttering step.
LEMMA TypesStutter ==
  ASSUME Types, UNCHANGED vars PROVE Types'
  BY DEF Types, vars

LEMMA OpenStays ==
  ASSUME Types, Open, Alone, Step
  PROVE  Open'
  <1> USE DEF Open
  <1>1. CASE Asking \/ Trying \/ Tried \/ Rescored
    BY <1>1 DEF Asking, Trying, Tried, Rescored
  <1>2. ASSUME NEW j \in Job, Born(j) \/ Resuming(j) PROVE Open'
    BY <1>2 DEF Born, Resuming, Fresh, Active
  <1>3. CASE Turned BY <1>3 DEF Turned
  <1>4. CASE Filtering BY <1>4 DEF Filtering, Active, j0
  <1>5. ASSUME NEW c \in Comment, Sending(c) PROVE Open'
    BY <1>5 DEF Sending
  <1>6. CASE Storing BY <1>6 DEF Storing, j0
  <1>7. CASE Verifying BY <1>7 DEF Verifying, SameRun
  <1>8. CASE Totalling BY <1>8 DEF Totalling, SameRun, j0
  <1>9. CASE run' = IdleRun BY <1>9 DEF IdleRun
  <1> QED
    BY StepKinds, <1>1, <1>2, <1>3, <1>4, <1>5, <1>6, <1>7, <1>8, <1>9
    DEF Kinds, Over, Crashing

\* What an end of a request leaves at the backup.
LEMMA EndingLeaves ==
  ASSUME Types, Alone, NEW r \in Request, EndRequest(r), NEW q \in Request, req'[q].pc = "backup"
  PROVE  q # r /\ req[q].pc = "backup" /\ lock' = q
  <1>1. req' = [req EXCEPT ![r] = IdleReq] /\ lock' = IF lock = r THEN NoRequest ELSE lock
    BY DEF EndRequest
  <1>2. q # r /\ req[q].pc = "backup"
    BY <1>1 DEF Types, IdleReq
  <1> QED BY <1>1, <1>2 DEF Alone

LEMMA AloneStays ==
  ASSUME Types, Open, Alone, Step
  PROVE  Alone'
  <1>1. ASSUME UNCHANGED <<req, lock>>, \A j \in Job : job'[j].status \in Active => job[j].status \in Active
        PROVE  Alone'
    BY <1>1 DEF Alone
  <1>2. ASSUME NEW r \in Request, NEW ids, NEW dry, NEW allow, Resolve(r, ids, dry, allow)
        PROVE  Alone'
    <2>1. lock = NoRequest /\ lock' = r /\ job' = job /\ \A j \in Job : job[j].status \notin Active
      BY <1>2 DEF Resolve, Accepts, records
    <2>2. \A q \in Request : req[q].pc # "backup"
      BY <2>1, JobAssumption DEF Alone
    <2>3. \A q \in Request : q # r => req'[q] = req[q]
      BY <1>2 DEF Resolve, Types
    <2> QED BY <2>1, <2>2, <2>3 DEF Alone
  <1>3. ASSUME NEW r \in Request, EndRequest(r), job' = job PROVE Alone'
    BY <1>3, EndingLeaves DEF Alone
  <1>4. ASSUME NEW r \in Request, RetryFailed(r) PROVE Alone'
    <2>1. /\ lock' = lock /\ job' = job
          /\ \A q \in Request : req'[q].pc = "backup" => req[q].pc = "backup"
      BY <1>4 DEF RetryFailed, Types, records
    <2> QED BY <2>1 DEF Alone
  <1>5. ASSUME NEW r \in Request, NEW j \in Job, Create(r, j) PROVE Alone'
    <2>1. lock = r /\ EndRequest(r)
      BY <1>5 DEF Create, Alone
    <2>2. \A q \in Request : req'[q].pc # "backup"
      BY <2>1, EndingLeaves DEF Alone
    <2> QED BY <2>2 DEF Alone
  <1>6. ASSUME NEW j \in Job, Resume(j) PROVE Alone'
    <2>1. lock = NoRequest /\ req' = req
      BY <1>6 DEF Resume
    <2> QED BY <2>1, JobAssumption DEF Alone
  <1>7. CASE \E r \in Request : \/ CreateDelete(r) \/ RetryFailed(r) \/ RetryLocked(r)
                                \/ RetryRefused(r) \/ BackupFails(r)
    BY <1>2, <1>3, <1>4, <1>7 DEF CreateDelete, RetryLocked, RetryRefused, BackupFails, records
  <1>8. CASE \E r \in Request, j \in Job : Create(r, j)
    BY <1>5, <1>8
  <1>9. CASE \E j \in Job : Resume(j)
    BY <1>6, <1>9
  <1>10. ASSUME run.pc # "idle", UNCHANGED <<req, lock>>, OnlyJob(j0) \/ job' = job PROVE Alone'
    <2>1. job[j0].status \in Active /\ \A k \in Job : k # j0 => job'[k] = job[k]
      BY <1>10 DEF Open, OnlyJob, j0
    <2> QED BY <1>10, <2>1, <1>1 DEF Types, j0
  <1>11. CASE Cancel \/ Filter \/ OpenCircuit \/ Abort \/ EndWork \/ Verify
    BY <1>10, <1>11, TurningTurns, FilterFilters, VerifyVerifies DEF Turned, Filtering, Verifying
  <1>12. CASE Total \/ Finish \/ RunRaises
    BY <1>10, <1>12, TotalTotals, FinishIsOver, RaisingIsOver DEF Totalling, Over
  <1>13. CASE Crash
    BY <1>13, IdleRecords DEF Crash, Alone, IdleReq
  <1>14. CASE Store(Unsaved)
    BY <1>10, <1>14, StoringStores DEF Storing
  <1>15. ASSUME NEW c \in Comment, AskBlog(c) PROVE Alone'
    BY <1>10, <1>15, AskingSends DEF Sending
  <1>16. ASSUME NEW c \in Comment, TestAsk(c) PROVE Alone'
    BY <1>1, <1>16 DEF TestAsk, records
  <1>17. CASE TestRecord BY <1>1, <1>17 DEF TestRecord, records
  <1>18. ASSUME NEW c \in Comment, NEW k \in Classes, Rescore(c, k) PROVE Alone'
    BY <1>1, <1>18 DEF Rescore, records
  <1> QED
    BY <1>7, <1>8, <1>9, <1>11, <1>12, <1>13, <1>14, <1>15, <1>16, <1>17, <1>18 DEF Step

(***************************************************************************)
(* The backup                                                              *)
(***************************************************************************)
\* The items of a real job are in its backup, and a run asks only for items.
Backing ==
    /\ \A j \in Job : ~job[j].dry => \A c \in Comment : item[j][c] # "none" => c \in backup[j]
    /\ run.pc # "idle" =>
         \A c \in Comment : c \in run.todo \cup run.good \cup run.bad => item[run.job][c] # "none"

LEMMA BackingStays ==
  ASSUME Types, Open, Alone, Backing, Step
  PROVE  Backing'
  <1> USE DEF Backing
  <1>1. CASE Asking BY <1>1 DEF Asking
  <1>2. ASSUME NEW j \in Job, Born(j) PROVE Backing'
    BY <1>2 DEF Born, Fresh, OnlyJob, OnlyItems
  <1>3. ASSUME NEW j \in Job, Resuming(j) PROVE Backing'
    BY <1>3 DEF Resuming, Fresh, OnlyJob, SameTerms
  <1>4. CASE Turned BY <1>4 DEF Turned
  <1>5. CASE Filtering
    <2>1. \A c \in Comment : c \in Items(j0, "pending") => item[j0][c] # "none"
      BY DEF Items
    <2> QED BY <1>5, <2>1 DEF Filtering, OnlyItems, OnlyJob, SameTerms, j0
  <1>6. ASSUME NEW c \in Comment, Sending(c) PROVE Backing'
    BY <1>6 DEF Sending
  <1>7. CASE Storing
    BY <1>7 DEF Storing, OnlyItems, OnlyJob, SameTerms, j0, Unsaved, Types
  <1>8. CASE Verifying BY <1>8 DEF Verifying, SameRun, OnlyItems, j0
  <1>9. CASE Totalling BY <1>9 DEF Totalling, SameRun, OnlyJob, SameTerms, j0
  <1>10. ASSUME NEW s, Over(s) PROVE Backing'
    <2>1. \A j \in Job : job'[j].dry = job[j].dry
      BY <1>10 DEF Over, OnlyJob, Types, JobRecord
    <2> QED BY <1>10, <2>1 DEF Over, IdleRun
  <1>11. CASE Crashing
    <2>1. \A j \in Job : job'[j].dry = job[j].dry
      BY <1>11 DEF Crashing, Types, JobRecord
    <2> QED BY <1>11, <2>1 DEF Crashing, IdleRun
  <1>12. CASE Trying BY <1>12 DEF Trying
  <1>13. CASE Tried BY <1>13 DEF Tried
  <1>14. CASE Rescored BY <1>14 DEF Rescored
  <1> QED
    BY StepKinds, <1>1, <1>2, <1>3, <1>4, <1>5, <1>6, <1>7, <1>8, <1>9, <1>10, <1>11, <1>12,
       <1>13, <1>14 DEF Kinds

(***************************************************************************)
(* What a run leaves alone                                                 *)
(***************************************************************************)
\* What has been barred since the launch is not among what the run asks for.
Barring ==
    /\ barred \in SUBSET Comment /\ (run.pc = "idle" => barred = {})
    /\ run.pc # "idle" => \A c \in barred : Forbidden(run.job, c)
    /\ run.pc = "start" => run.todo = {} /\ run.good = {} /\ run.bad = {}
    /\ run.pc \notin {"idle", "start"} =>
         \A c \in barred : c \notin run.todo /\ c \notin run.good /\ c \notin run.bad

LEMMA BarringStays ==
  ASSUME Types, Open, Alone, Barring, Step, Watch
  PROVE  Barring'
  <1>1. /\ run'.pc = "idle" => barred' = {}
        /\ run'.pc # "idle" => barred' \subseteq {c \in Comment : Forbidden(run.job, c)'}
        /\ run'.pc # "idle" /\ run.pc # "idle" => barred' \subseteq barred
        /\ barred' \in SUBSET Comment
    BY DEF Watch, Launched, Barring
  <1>2. run'.pc # "idle" => \A c \in barred' : Forbidden(run.job, c)'
    BY <1>1
  <1> DEFINE Goal == /\ run'.pc = "start" => run'.todo = {} /\ run'.good = {} /\ run'.bad = {}
                     /\ run'.pc \notin {"idle", "start"} =>
                          \A c \in barred' : /\ c \notin run'.todo /\ c \notin run'.good
                                             /\ c \notin run'.bad
  <1>3. ASSUME UNCHANGED run PROVE Goal
    BY <1>1, <1>3 DEF Barring
  <1>4. ASSUME NEW j \in Job, Fresh(j) PROVE Goal
    BY <1>4 DEF Fresh
  <1>5. ASSUME run' = IdleRun PROVE Goal
    BY <1>5 DEF IdleRun
  <1>6. ASSUME SameRun, run.pc \notin {"idle", "start"}, run'.pc \notin {"idle", "start"} PROVE Goal
    BY <1>1, <1>6 DEF SameRun, Barring
  <1>7. ASSUME Turned PROVE Goal
    BY <1>1, <1>7 DEF Turned, Barring
  <1>8. ASSUME Filtering PROVE Goal
    <2>1. run.pc = "start" /\ run'.pc \in {"work", "total"} /\ run'.good = {} /\ run'.bad = {}
      BY <1>8 DEF Filtering, Barring
    <2>2. ASSUME NEW c \in barred' PROVE c \notin run'.todo
      <3>1. Forbidden(run.job, c)' /\ c \in Comment
        BY <1>1, <2>1
      <3>2. Forbidden(j0, c)
        BY <3>1, <1>8 DEF Filtering, Forbidden, SameTerms, j0
      <3>3. Skips(j0, c)
        BY <3>2 DEF Forbidden, Skips, Selectable, Protected
      <3> QED BY <3>3, <1>8 DEF Filtering
    <2> QED BY <2>1, <2>2
  <1>9. ASSUME NEW c \in Comment, Sending(c) PROVE Goal
    BY <1>1, <1>9 DEF Sending, Barring
  <1>10. ASSUME Storing PROVE Goal
    BY <1>1, <1>10 DEF Storing, Barring
  <1>11. Goal
    <2> HIDE DEF Goal
    <2>1. CASE Asking BY <2>1, <1>3 DEF Asking
    <2>2. CASE \E j \in Job : Born(j) \/ Resuming(j) BY <2>2, <1>4 DEF Born, Resuming
    <2>3. CASE Turned \/ Filtering \/ Storing BY <2>3, <1>7, <1>8, <1>10
    <2>4. CASE \E c \in Comment : Sending(c) BY <2>4, <1>9
    <2>5. CASE Verifying \/ Totalling BY <2>5, <1>6 DEF Verifying, Totalling
    <2>6. CASE Over(FinalStatus) \/ Over("failed") \/ Crashing BY <2>6, <1>5 DEF Over, Crashing
    <2>7. CASE Trying \/ Tried \/ Rescored BY <2>7, <1>3 DEF Trying, Tried, Rescored
    <2> QED BY StepKinds, <2>1, <2>2, <2>3, <2>4, <2>5, <2>6, <2>7 DEF Kinds
  <1> QED BY <1>1, <1>2, <1>11 DEF Barring

(***************************************************************************)
(* What is recorded as deleted is gone                                     *)
(***************************************************************************)
Gone ==
    /\ doubtful \subseteq alive
    /\ \A c \in Comment : status[c] = "deleted" /\ c \in alive => c \in doubtful
    /\ run.pc # "idle" /\ ~job[run.job].dry => run.good \cap alive \subseteq doubtful
    /\ test.pc = "record" /\ test.ok /\ test.c \in alive => test.c \in doubtful

\* What the history remembers of a step.
LEMMA DoubtGrows ==
  ASSUME Watch
  PROVE  /\ doubtful' \subseteq alive'
         /\ \A c \in doubtful : c \in alive' /\ c \notin PutRight => c \in doubtful'
         /\ \A c \in Told : c \in alive' => c \in doubtful'
         /\ run.pc # "verify" => PutRight = {}
  BY DEF Watch, PutRight, Verified

LEMMA GoneStays ==
  ASSUME Types, Open, Alone, Barring, Gone, Step, Watch
  PROVE  Gone'
  <1> USE DEF Gone
  <1>1. /\ doubtful' \subseteq alive'
        /\ \A c \in doubtful : c \in alive' /\ c \notin PutRight => c \in doubtful'
        /\ \A c \in Told : c \in alive' => c \in doubtful'
        /\ run.pc # "verify" => PutRight = {}
    BY DoubtGrows
  <1>2. /\ doubtful' \subseteq alive'
        /\ test'.pc = "record" /\ test'.ok /\ test'.c \in alive' => test'.c \in doubtful'
    BY <1>1 DEF Told
  <1>3. ASSUME \/ run'.pc = "idle" \/ run'.good = {} \/ job'[run'.job].dry = job[run'.job].dry
        PROVE  run'.pc # "idle" /\ ~job'[run'.job].dry => run'.good \cap alive' \subseteq doubtful'
    BY <1>1, <1>3 DEF Told
  <1>4. ASSUME \A c \in Comment : status'[c] = "deleted" => status[c] = "deleted" \/ c \in doubtful,
               alive' \subseteq alive,
               \/ run.pc # "verify"
               \/ run' = IdleRun \/ run'.pc = run.pc
        PROVE  \A c \in Comment : status'[c] = "deleted" /\ c \in alive' => c \in doubtful'
    <2>1. PutRight = {}
      BY <1>1, <1>4 DEF PutRight, Verified, IdleRun
    <2> QED BY <1>1, <1>4, <2>1
  <1>5. CASE Asking \/ Trying \/ Rescored
    BY <1>2, <1>3, <1>4, <1>5 DEF Asking, Trying, Rescored
  <1>6. ASSUME NEW j \in Job, Born(j) \/ Resuming(j) PROVE Gone'
    BY <1>2, <1>3, <1>4, <1>6 DEF Born, Resuming, Fresh
  <1>7. CASE Turned
    <2>1. job' = job /\ status' = status /\ alive' = alive
          /\ (run.pc # "verify" \/ run'.pc = run.pc)
      BY <1>7 DEF Turned
    <2> QED BY <1>2, <1>3, <1>4, <2>1
  <1>8. CASE Filtering
    <2>1. job'[run'.job].dry = job[run'.job].dry /\ status' = status /\ alive' = alive
          /\ run.pc # "verify"
      BY <1>8 DEF Filtering, SameTerms, j0
    <2> QED BY <1>2, <1>3, <1>4, <2>1
  <1>9. ASSUME NEW c \in Comment, Sending(c) PROVE Gone'
    <2>1. job' = job /\ status' = status /\ alive' \subseteq alive /\ run.pc # "verify"
      BY <1>9 DEF Sending
    <2> QED BY <1>2, <1>3, <1>4, <2>1
  <1>10. CASE Storing
    <2>1. /\ run'.good = {} /\ alive' = alive /\ run.pc = "work"
          /\ status' = [c \in Comment |->
                    IF c \in run.good /\ ~job[j0].dry THEN "deleted"
                    ELSE IF c \in run.bad THEN "failed" ELSE status[c]]
      BY <1>10 DEF Storing
    <2>2. PutRight = {}
      BY <1>1, <2>1
    <2>3. ASSUME NEW c \in Comment, status'[c] = "deleted", c \in alive' PROVE c \in doubtful'
      <3>1. status[c] = "deleted" \/ (c \in run.good /\ ~job[j0].dry)
        BY <2>1, <2>3
      <3>2. c \in doubtful
        BY <2>1, <2>3, <3>1 DEF j0
      <3> QED BY <1>1, <2>2, <2>3, <3>2
    <2> QED BY <1>2, <1>3, <2>1, <2>3
  <1>11. CASE Verifying
    <2>1. run.pc = "verify" /\ run'.pc = "total" /\ alive' = alive /\ job' = job /\ Verified
      BY <1>11 DEF Verifying, Verified
    <2>2. ASSUME NEW c \in Comment, status'[c] = "deleted", c \in alive' PROVE c \in doubtful'
      <3>1. CASE status[c] = "deleted"
        <4>1. ASSUME c \in PutRight PROVE FALSE
          <5>1. ~run'.unread /\ item[j0][c] = "succeeded" /\ c \in alive
            BY <2>1, <2>2, <4>1 DEF PutRight, Items
          <5>2. status'[c] = "failed"
            BY <1>11, <5>1 DEF Verifying
          <5> QED BY <2>2, <5>2
        <4> QED BY <1>1, <2>1, <2>2, <3>1, <4>1
      <3>2. CASE status[c] # "deleted"
        <4>1. item[j0][c] = "failed" /\ item'[j0][c] = "succeeded"
          BY <1>11, <2>2, <3>2 DEF Verifying
        <4>2. c \in Told
          BY <2>1, <4>1 DEF Told, Items
        <4> QED BY <1>1, <2>2, <4>2
      <3> QED BY <3>1, <3>2
    <2> QED BY <1>2, <1>3, <2>1, <2>2
  <1>12. CASE Totalling
    <2>1. job'[run'.job].dry = job[run'.job].dry /\ status' = status /\ alive' = alive
          /\ run.pc # "verify"
      BY <1>12 DEF Totalling, SameRun, SameTerms, j0
    <2> QED BY <1>2, <1>3, <1>4, <2>1
  <1>13. ASSUME NEW s, Over(s) PROVE Gone'
    BY <1>2, <1>3, <1>4, <1>13 DEF Over, IdleRun
  <1>14. CASE Crashing
    BY <1>2, <1>3, <1>4, <1>14 DEF Crashing, IdleRun
  <1>15. CASE Tried
    <2>1. run' = run /\ job' = job /\ alive' = alive
          /\ status' = [status EXCEPT ![test.c] = IF test.ok THEN "deleted" ELSE "failed"]
      BY <1>15 DEF Tried
    <2>2. PutRight = {}
      BY <1>1, <2>1 DEF PutRight, Verified
    <2>3. ASSUME NEW c \in Comment, status'[c] = "deleted", c \in alive' PROVE c \in doubtful'
      <3>1. status[c] = "deleted" \/ (c = test.c /\ test.ok)
        BY <2>1, <2>3 DEF Types
      <3>2. c \in doubtful
        BY <1>15, <2>1, <2>3, <3>1 DEF Tried
      <3> QED BY <1>1, <2>2, <2>3, <3>2
    <2> QED BY <1>2, <1>3, <2>1, <2>3
  <1> QED
    BY StepKinds, <1>5, <1>6, <1>7, <1>8, <1>9, <1>10, <1>11, <1>12, <1>13, <1>14, <1>15 DEF Kinds

(***************************************************************************)
(* What is recorded as deleted stays so                                    *)
(***************************************************************************)
Settled ==
    /\ run.pc = "work" /\ ~overlap =>
         \A c \in Comment : c \in run.todo \cup run.good \cup run.bad => status[c] # "deleted"
    /\ run.pc = "work" => run.todo \cap (run.good \cup run.bad) = {}
    /\ test.pc = "record" /\ ~overlap => status[test.c] # "deleted"
    /\ run.pc # "idle" /\ test.pc # "idle" /\ item[run.job][test.c] # "none" => overlap

LEMMA SettledStays ==
  ASSUME Types, Open, Alone, Backing, Barring, Settled, Step, Watch
  PROVE  Settled'
  <1>1. /\ overlap => overlap'
        /\ run'.pc # "idle" /\ test'.pc # "idle" /\ item'[run'.job][test'.c] # "none" => overlap'
    BY DEF Watch
  <1> DEFINE Goal == /\ run'.pc = "work" /\ ~overlap =>
                          \A c \in Comment : c \in run'.todo \cup run'.good \cup run'.bad =>
                                               status'[c] # "deleted"
                     /\ run'.pc = "work" => run'.todo \cap (run'.good \cup run'.bad) = {}
                     /\ test'.pc = "record" /\ ~overlap => status'[test'.c] # "deleted"
  <1> USE DEF Settled
  <1>2. ASSUME Asking PROVE Goal BY <1>2 DEF Asking
  <1>3. ASSUME NEW j \in Job, Born(j) \/ Resuming(j) PROVE Goal
    BY <1>3 DEF Born, Resuming, Fresh
  <1>4. ASSUME Turned PROVE Goal BY <1>4 DEF Turned
  <1>5. ASSUME Filtering PROVE Goal
    BY <1>5 DEF Filtering, Barring, Skips, Selectable
  <1>6. ASSUME NEW c \in Comment, Sending(c) PROVE Goal
    BY <1>6 DEF Sending
  <1>7. ASSUME Storing PROVE Goal
    <2>1. ASSUME test.pc = "record", ~overlap PROVE test.c \notin run.good
      BY <2>1, <1>7 DEF Storing, Backing, Types
    <2>2. ASSUME NEW c \in Comment, status[c] # "deleted", c \notin run.good
          PROVE  status'[c] # "deleted"
      BY <2>2, <1>7 DEF Storing
    <2>3. run'.pc = "work" /\ run'.todo = run.todo /\ run'.good = {} /\ run'.bad = {}
          /\ test' = test /\ run.pc = "work" /\ run.todo \in SUBSET Comment
      BY <1>7 DEF Storing, Types, RunRecord
    <2> QED BY <2>1, <2>2, <2>3 DEF Types
  <1>8. ASSUME Verifying PROVE Goal
    <2>1. ASSUME test.pc = "record", ~overlap PROVE status'[test.c] # "deleted"
      BY <1>8, <2>1 DEF Verifying, Types, j0
    <2> QED BY <1>8, <2>1 DEF Verifying
  <1>9. ASSUME Totalling PROVE Goal BY <1>9 DEF Totalling
  <1>10. ASSUME NEW s, Over(s) PROVE Goal
    BY <1>10 DEF Over, IdleRun
  <1>11. ASSUME Crashing PROVE Goal BY <1>11 DEF Crashing, IdleRun, IdleTest
  <1>12. ASSUME Trying PROVE Goal BY <1>12 DEF Trying
  <1>13. ASSUME Tried PROVE Goal
    <2>1. ASSUME run.pc = "work", ~overlap,
                 NEW c \in Comment, c \in run.todo \cup run.good \cup run.bad
          PROVE  status'[c] # "deleted"
      <3>1. item[run.job][c] # "none" /\ test.pc = "record"
        BY <2>1, <1>13 DEF Backing, Tried
      <3>2. c # test.c
        BY <2>1, <3>1
      <3> QED BY <2>1, <3>2, <1>13 DEF Tried, Types
    <2> QED BY <1>13, <2>1 DEF Tried, IdleTest
  <1>14. ASSUME Rescored PROVE Goal BY <1>14 DEF Rescored
  <1>15. Goal
    <2> HIDE DEF Goal
    <2> QED BY StepKinds, <1>2, <1>3, <1>4, <1>5, <1>6, <1>7, <1>8, <1>9, <1>10, <1>11, <1>12,
               <1>13, <1>14 DEF Kinds
  <1> QED BY <1>1, <1>15

LEMMA DeletedStaysStep ==
  ASSUME Types, Open, Alone, Backing, Settled, Step, Watch,
         NEW c \in Comment, status[c] = "deleted", c \notin alive, ~overlap'
  PROVE  status'[c] = "deleted"
  <1>1. ~overlap
    BY DEF Watch
  <1>2. CASE UNCHANGED status BY <1>2
  <1>3. CASE Storing
    <2>1. c \notin run.bad
      BY <1>1, <1>3 DEF Storing, Settled
    <2> QED BY <2>1, <1>3 DEF Storing
  <1>4. CASE Verifying BY <1>4 DEF Verifying
  <1>5. CASE Tried BY <1>1, <1>5 DEF Tried, Settled, Types
  <1> QED
    BY StepKinds, <1>2, <1>3, <1>4, <1>5
    DEF Kinds, Asking, Born, Resuming, Turned, Filtering, Sending, Totalling, Over, Crashing,
        Trying, Rescored

(***************************************************************************)
(* What a first run leaves behind                                          *)
(***************************************************************************)
\* The first run of a job begins without results, and what it has verified is so until
\* it ends: only a trial deletion could take a comment away meanwhile.
FirstRun ==
    /\ \A j \in Job : job[j].status = "absent" => j \notin resumed
    /\ run.pc = "start" /\ run.job \notin resumed =>
         \A c \in Comment : item[run.job][c] \in {"none", "pending"}
    /\ /\ run.pc \in {"total", "finish"} /\ run.job \notin resumed /\ run.stopped = {}
       /\ ~job[run.job].dry /\ ~run.unread /\ ~overlap
       => \A c \in Comment : /\ item[run.job][c] = "succeeded" => c \notin alive
                             /\ item[run.job][c] = "failed" => c \in alive

LEMMA FirstRunStays ==
  ASSUME Types, Open, Alone, FirstRun, Step, Watch
  PROVE  FirstRun'
  <1>1. resumed' = IF run.pc = "idle" /\ run'.pc = "start" /\ job[run'.job].status = "paused"
                   THEN resumed \cup {run'.job} ELSE resumed
    BY DEF Watch, Launched
  <1>2. /\ overlap => overlap'
        /\ run'.pc # "idle" /\ test'.pc # "idle" /\ item'[run'.job][test'.c] # "none" => overlap'
    BY DEF Watch
  <1>3. CASE Asking \/ Tried \/ Rescored
    <2>1. UNCHANGED <<job, run, item, alive, resumed>>
      BY <1>1, <1>3 DEF Asking, Tried, Rescored
    <2> QED BY <1>2, <2>1 DEF FirstRun
  <1>4. CASE Trying
    <2>1. UNCHANGED <<job, run, item, resumed>> /\ alive' \subseteq alive
          /\ \A c \in alive : c # test'.c => c \in alive'
      BY <1>1, <1>4 DEF Trying
    <2>2. run.pc # "idle" /\ ~overlap' => item[run.job][test'.c] = "none"
      BY <1>2, <1>4, <2>1 DEF Trying
    <2> QED BY <1>2, <2>1, <2>2 DEF FirstRun
  <1>5. ASSUME NEW j \in Job, Born(j) PROVE FirstRun'
    <2>1. resumed' = resumed
      BY <1>1, <1>5 DEF Born, Fresh
    <2> QED BY <1>5, <2>1 DEF FirstRun, Born, Fresh, OnlyJob
  <1>6. ASSUME NEW j \in Job, Resuming(j) PROVE FirstRun'
    <2>1. resumed' = resumed \cup {j}
      BY <1>1, <1>6 DEF Resuming, Fresh
    <2>2. \A k \in Job : k # j => job'[k] = job[k]
      BY <1>6 DEF Resuming, OnlyJob
    <2>3. job'[j].status = "running" /\ run'.pc = "start" /\ run'.job = j
      BY <1>6 DEF Resuming, Fresh
    <2> QED BY <2>1, <2>2, <2>3 DEF FirstRun
  <1>7. CASE Turned
    <2>1. resumed' = resumed /\ UNCHANGED <<job, item, alive>>
      BY <1>1, <1>7 DEF Turned
    <2> QED BY <1>2, <1>7, <2>1 DEF FirstRun, Turned, j0
  <1>8. CASE Filtering
    <2>1. resumed' = resumed
      BY <1>1, <1>8 DEF Filtering
    <2>2. \A k \in Job : k # j0 => job'[k] = job[k]
      BY <1>8 DEF Filtering, OnlyJob
    <2>3. job'[j0].status = "running" /\ run.pc = "start"
          /\ run'.pc \in {"work", "total"} /\ run'.job = run.job
      BY <1>8 DEF Filtering
    <2>4. ASSUME run.job \notin resumed, NEW c \in Comment
          PROVE  item'[run.job][c] \notin {"succeeded", "failed"}
      BY <1>8, <2>3, <2>4 DEF FirstRun, Filtering, j0
    <2> QED BY <2>1, <2>2, <2>3, <2>4 DEF FirstRun, j0
  <1>9. ASSUME NEW c \in Comment, Sending(c) PROVE FirstRun'
    <2>1. resumed' = resumed /\ run'.pc = "work" /\ job' = job
      BY <1>1, <1>9 DEF Sending
    <2> QED BY <2>1 DEF FirstRun
  <1>10. CASE Storing
    <2>1. resumed' = resumed /\ run'.pc = "work"
      BY <1>1, <1>10 DEF Storing
    <2>2. \A k \in Job : job'[k].status = job[k].status
      BY <1>10 DEF Storing, OnlyJob
    <2> QED BY <2>1, <2>2 DEF FirstRun
  <1>11. CASE Verifying
    <2>1. resumed' = resumed /\ run'.pc = "total" /\ run'.job = j0 /\ job' = job /\ alive' = alive
      BY <1>1, <1>11 DEF Verifying, SameRun, j0
    <2>2. ~run'.unread => \A c \in Comment : /\ item'[j0][c] = "succeeded" => c \notin alive
                                             /\ item'[j0][c] = "failed" => c \in alive
      BY <1>11 DEF Verifying
    <2> QED BY <2>1, <2>2 DEF FirstRun
  <1>12. CASE Totalling
    <2>1. resumed' = resumed /\ UNCHANGED <<item, alive>>
      BY <1>1, <1>12 DEF Totalling, SameRun
    <2>2. \A k \in Job : job'[k].status = job[k].status
      BY <1>12 DEF Totalling, OnlyJob
    <2>3. /\ run.pc = "total" /\ run'.pc = "finish" /\ run'.job = run.job
          /\ run'.stopped = run.stopped /\ run'.unread = run.unread
          /\ job'[run.job].dry = job[run.job].dry
      BY <1>12 DEF Totalling, SameTerms, SameRun, j0
    <2> QED BY <1>2, <2>1, <2>2, <2>3 DEF FirstRun
  <1>13. ASSUME NEW s, Over(s), s # "absent" PROVE FirstRun'
    <2>1. run'.pc = "idle" /\ run.pc # "idle" /\ j0 \in Job
      BY <1>13 DEF Over, IdleRun, Types, j0
    <2>2. resumed' = resumed
      BY <1>1, <2>1
    <2>3. \A k \in Job : k # j0 => job'[k] = job[k]
      BY <1>13 DEF Over, OnlyJob
    <2>4. job'[j0].status = s
      BY <1>13, <2>1 DEF Over, Types, JobRecord
    <2> QED BY <1>13, <2>1, <2>2, <2>3, <2>4 DEF FirstRun
  <1>14. CASE Crashing
    <2>1. run'.pc = "idle"
      BY <1>14 DEF Crashing, IdleRun
    <2>2. resumed' = resumed
      BY <1>1, <2>1
    <2>3. \A k \in Job : job'[k].status = "absent" => job[k].status = "absent"
      BY <1>14 DEF Crashing, Types, JobRecord
    <2> QED BY <2>1, <2>2, <2>3 DEF FirstRun
  <1>15. FinalStatus # "absent"
    BY DEF FinalStatus
  <1>16. CASE Over(FinalStatus) \/ Over("failed")
    BY <1>13, <1>15, <1>16
  <1> QED
    BY StepKinds, <1>3, <1>4, <1>5, <1>6, <1>7, <1>8, <1>9, <1>10, <1>11, <1>12, <1>14, <1>16
    DEF Kinds

\* So a job that completes in its first run leaves its items as the blog is.
LEMMA FirstRunEndsStep ==
  ASSUME Types, Open, Alone, FirstRun, Step,
         NEW j \in Job, job'[j].status = "completed", job[j].status # "completed",
         ~job[j].dry, ~run.unread, j \notin resumed, ~overlap
  PROVE  Items(j, "succeeded") \cap alive = {} /\ Items(j, "failed") \subseteq alive
  <1>1. run.pc = "finish" /\ Over(FinalStatus) /\ j = j0 /\ FinalStatus = "completed"
    <2>1. CASE run.pc = "finish" /\ Over(FinalStatus)
      <3>1. j = j0
        BY <2>1 DEF Over, OnlyJob
      <3>2. job'[j0].status = FinalStatus
        BY <2>1, <3>1 DEF Over, Types, JobRecord
      <3> QED BY <2>1, <3>1, <3>2
    <2>2. CASE Over("failed")
      <3>1. j = j0
        BY <2>2 DEF Over, OnlyJob
      <3>2. job'[j0].status = "failed"
        BY <2>2, <3>1 DEF Over, Types, JobRecord
      <3> QED BY <3>1, <3>2
    <2>3. CASE Crashing
      BY <2>3 DEF Crashing, Types, JobRecord
    <2>4. ASSUME NEW i \in Job, Born(i) \/ Resuming(i) PROVE FALSE
      BY <2>4 DEF Born, Resuming, OnlyJob
    <2>5. CASE Filtering \/ Storing \/ Totalling
      BY <2>5 DEF Filtering, Storing, Totalling, OnlyJob
    <2>6. CASE job' = job BY <2>6
    <2> QED
      BY StepKinds, <2>1, <2>2, <2>3, <2>4, <2>5, <2>6
      DEF Kinds, Asking, Turned, Sending, Verifying, Trying, Tried, Rescored
  <1>2. run.stopped = {} /\ run.job = j
    BY <1>1 DEF FinalStatus, j0
  <1> QED BY <1>1, <1>2 DEF FirstRun, Items

(***************************************************************************)
(* The totals                                                              *)
(***************************************************************************)
Tallied(j) ==
    /\ <<job[j].succeeded, job[j].failed, job[j].skipped>> = Totals(j)
    /\ job[j].done = job[j].succeeded + job[j].failed + job[j].skipped

Telling ==
    /\ run.pc = "finish" => Tallied(run.job)
    /\ \A j \in Job :
          /\ job[j].status \in {"completed", "cancelled"} => Tallied(j)
          /\ job[j].status = "completed" => Items(j, "pending") = {}

LEMMA TalliedStays ==
  ASSUME Types, NEW j \in Job, item'[j] = item[j],
         job'[j].succeeded = job[j].succeeded, job'[j].failed = job[j].failed,
         job'[j].skipped = job[j].skipped, job'[j].done = job[j].done
  PROVE  /\ Tallied(j) => Tallied(j)'
         /\ \A s \in ItemStatus : Items(j, s)' = Items(j, s)
  <1>1. \A s \in ItemStatus : Items(j, s)' = Items(j, s)
    BY DEF Items
  <1>2. Totals(j)' = Totals(j)
    BY <1>1 DEF Totals, Counts, ItemStatus
  <1> QED BY <1>1, <1>2 DEF Tallied

LEMMA TellingStays ==
  ASSUME Types, Open, Alone, Telling, Step
  PROVE  Telling'
  <1> USE DEF Telling
  <1>1. ASSUME NEW k \in Job, job'[k] = job[k], item'[k] = item[k]
        PROVE  /\ job'[k].status \in {"completed", "cancelled"} => Tallied(k)'
               /\ job'[k].status = "completed" => Items(k, "pending")' = {}
    BY <1>1, TalliedStays DEF ItemStatus
  <1>2. CASE UNCHANGED <<job, item>> /\ run'.pc # "finish"
    BY <1>1, <1>2
  <1>3. CASE UNCHANGED <<job, item>> /\ run'.pc = run.pc /\ run'.job = run.job
    <2>1. run.pc = "finish" => Tallied(run.job)'
      BY <1>3, TalliedStays DEF Types
    <2> QED BY <1>1, <1>3, <2>1
  <1>4. ASSUME NEW j \in Job, OnlyJob(j), OnlyItems(j) \/ UNCHANGED item, run'.pc # "finish",
               job'[j].status \in {"pending", "running"}
        PROVE  Telling'
    <2>1. \A k \in Job : k # j => job'[k] = job[k] /\ item'[k] = item[k]
      BY <1>4 DEF OnlyJob, OnlyItems
    <2> QED BY <1>1, <1>4, <2>1
  <1>5. CASE Asking \/ Trying \/ Tried \/ Rescored
    BY <1>3, <1>5 DEF Asking, Trying, Tried, Rescored
  <1>6. ASSUME NEW j \in Job, Born(j) \/ Resuming(j) PROVE Telling'
    BY <1>4, <1>6 DEF Born, Resuming, Fresh
  <1>7. CASE Turned BY <1>2, <1>3, <1>7 DEF Turned
  <1>8. CASE Filtering BY <1>4, <1>8 DEF Filtering, j0, Types
  <1>9. ASSUME NEW c \in Comment, Sending(c) PROVE Telling'
    BY <1>2, <1>9 DEF Sending
  <1>10. CASE Storing BY <1>4, <1>10 DEF Storing, Open, Active, j0, Types
  <1>11. CASE Verifying
    <2>1. OnlyJob(j0) /\ j0 \in Job /\ job'[j0].status = "running"
      BY <1>11 DEF Verifying, OnlyJob, Types, Open, j0
    <2> QED BY <1>4, <1>11, <2>1 DEF Verifying
  <1>12. CASE Totalling
    <2>1. j0 \in Job /\ job[j0].status = "running" /\ job'[j0].status = "running"
      BY <1>12 DEF Totalling, Types, Open, j0
    <2>2. \A k \in Job : k # j0 => job'[k] = job[k] /\ item'[k] = item[k]
      BY <1>12 DEF Totalling, OnlyJob
    <2>3. Totals(j0)' = Totals(j0)
      BY <1>12 DEF Totalling, SameRun, Totals, Counts, Items, j0
    <2>4. run'.job = j0 /\ Tallied(run.job)'
      BY <1>12, <2>3 DEF Totalling, SameRun, Tallied, j0
    <2> QED BY <1>1, <2>1, <2>2, <2>4
  <1>13. ASSUME NEW s, Over(s),
                s \in {"completed", "cancelled"} => run.pc = "finish",
                s = "completed" => Items(j0, "pending") = {}
         PROVE  Telling'
    <2>1. run'.pc = "idle" /\ item' = item
      BY <1>13 DEF Over, IdleRun
    <2>2. PICK j \in Job : j = run.job
      BY <1>13 DEF Over, Types
    <2>3. \A k \in Job : k # j => job'[k] = job[k]
      BY <1>13, <2>2 DEF Over, OnlyJob, j0
    <2>4. /\ job'[j].status = s
          /\ job'[j].succeeded = job[j].succeeded /\ job'[j].failed = job[j].failed
          /\ job'[j].skipped = job[j].skipped /\ job'[j].done = job[j].done
      BY <1>13, <2>2 DEF Over, Types, JobRecord, j0
    <2>5. /\ Tallied(j) => Tallied(j)'
          /\ Items(j, "pending")' = Items(j, "pending")
      BY <2>1, <2>4, TalliedStays DEF ItemStatus
    <2>6. /\ s \in {"completed", "cancelled"} => Tallied(j)
          /\ s = "completed" => Items(j, "pending") = {}
      BY <1>13, <2>2 DEF j0
    <2>7. ASSUME NEW k \in Job
          PROVE  /\ job'[k].status \in {"completed", "cancelled"} => Tallied(k)'
                 /\ job'[k].status = "completed" => Items(k, "pending")' = {}
      <3>1. CASE k # j BY <1>1, <2>1, <2>3, <3>1
      <3>2. CASE k = j BY <2>4, <2>5, <2>6, <3>2
      <3> QED BY <3>1, <3>2
    <2> QED BY <2>1, <2>7
  <1>14. CASE Crashing
    <2>1. ASSUME NEW k \in Job
          PROVE  /\ job'[k].status \in {"completed", "cancelled"} => Tallied(k)'
                 /\ job'[k].status = "completed" => Items(k, "pending")' = {}
      <3>1. CASE job'[k] = job[k] BY <1>1, <1>14, <3>1 DEF Crashing
      <3>2. CASE job'[k].status = "paused" BY <3>2
      <3> QED BY <1>14, <3>1, <3>2 DEF Crashing, Types, JobRecord
    <2> QED BY <1>14, <2>1 DEF Crashing, IdleRun
  <1>15. FinalStatus = "completed" => Items(j0, "pending") = {}
    BY DEF FinalStatus
  <1>16. CASE run.pc = "finish" /\ Over(FinalStatus)
    BY <1>13, <1>15, <1>16
  <1>17. CASE Over("failed")
    BY <1>13, <1>17
  <1> QED
    BY StepKinds, <1>5, <1>6, <1>7, <1>8, <1>9, <1>10, <1>11, <1>12, <1>14, <1>16, <1>17
    DEF Kinds

(***************************************************************************)
(* The counters stay within the number of comments                         *)
(***************************************************************************)
CommentCount == Cardinality(Comment)

Room ==
    /\ \A j \in Job : job[j].done <= CommentCount
    /\ run.pc = "start" => run.succ = 0 /\ run.fail = 0
    /\ run.pc = "work" => run.succ + run.fail + Cardinality(run.todo) + Cardinality(run.good)
                            + Cardinality(run.bad) <= CommentCount

LEMMA RoomStays ==
  ASSUME Types, Open, Alone, Barring, Room, Step
  PROVE  Room'
  <1> USE DEF Room
  <1>1. /\ CommentCount \in Nat /\ CommentCount' = CommentCount /\ 0 <= CommentCount
        /\ \A S \in SUBSET Comment : /\ IsFiniteSet(S) /\ Cardinality(S) \in Nat
                                     /\ Cardinality(S) <= CommentCount
    BY CountsAreNat DEF CommentCount
  <1>2. /\ run.todo \in SUBSET Comment /\ run.good \in SUBSET Comment
        /\ run.bad \in SUBSET Comment /\ run.succ \in Nat /\ run.fail \in Nat
    BY DEF Types, RunRecord
  <1>3. CASE Asking \/ Trying \/ Tried \/ Rescored
    BY <1>1, <1>3 DEF Asking, Trying, Tried, Rescored
  <1>4. ASSUME NEW j \in Job, Born(j) \/ Resuming(j) PROVE Room'
    BY <1>1, <1>4 DEF Born, Resuming, Fresh, OnlyJob
  <1>5. CASE Turned
    <2>1. run'.good \in SUBSET run.good /\ run'.bad \in SUBSET run.bad
      BY <1>5 DEF Turned
    <2>2. \A S \in SUBSET Comment : \A T \in SUBSET S : Cardinality(T) <= Cardinality(S)
      BY <1>1, FS_Subset
    <2>3. /\ Cardinality(run'.good) <= Cardinality(run.good) /\ Cardinality(run'.good) \in Nat
          /\ Cardinality(run'.bad) <= Cardinality(run.bad) /\ Cardinality(run'.bad) \in Nat
          /\ Cardinality(run.good) \in Nat /\ Cardinality(run.bad) \in Nat
          /\ Cardinality(run.todo) \in Nat
      BY <1>1, <1>2, <2>1, <2>2
    <2> QED BY <1>1, <1>2, <1>5, <2>3 DEF Turned
  <1>6. CASE Filtering
    <2>1. \A j \in Job : job'[j].done = job[j].done
      BY <1>6 DEF Filtering, OnlyJob
    <2>2. run'.good = {} /\ run'.bad = {} /\ run'.succ = 0 /\ run'.fail = 0
          /\ run'.pc \in {"work", "total"} /\ run'.todo \in SUBSET Comment
      BY <1>6 DEF Filtering, Barring, RunRecord
    <2>3. Cardinality(run'.good) = 0 /\ Cardinality(run'.bad) = 0
      BY <2>2, FS_EmptySet
    <2> QED BY <1>1, <2>1, <2>2, <2>3
  <1>7. ASSUME NEW c \in Comment, Sending(c) PROVE Room'
    <2>1. \A S \in SUBSET Comment : Cardinality(S \cup {c}) <= Cardinality(S) + 1
      BY <1>1, FS_AddElement
    <2>2. Cardinality(run.todo \ {c}) = Cardinality(run.todo) - 1
      BY <1>1, <1>2, <1>7, FS_RemoveElement DEF Sending
    <2>3. /\ Cardinality(run'.todo) = Cardinality(run.todo) - 1
          /\ \/ /\ Cardinality(run'.good) <= Cardinality(run.good) + 1
                /\ Cardinality(run'.bad) = Cardinality(run.bad)
             \/ /\ Cardinality(run'.bad) <= Cardinality(run.bad) + 1
                /\ Cardinality(run'.good) = Cardinality(run.good)
      BY <1>2, <1>7, <2>1, <2>2 DEF Sending
    <2>4. /\ run'.todo \in SUBSET Comment /\ run'.good \in SUBSET Comment
          /\ run'.bad \in SUBSET Comment
      BY <1>7 DEF Sending, RunRecord
    <2>5. /\ Cardinality(run.todo) \in Nat /\ Cardinality(run.good) \in Nat
          /\ Cardinality(run.bad) \in Nat /\ Cardinality(run'.todo) \in Nat
          /\ Cardinality(run'.good) \in Nat /\ Cardinality(run'.bad) \in Nat
      BY <1>1, <1>2, <2>4
    <2>6. run.pc = "work" /\ run'.pc = "work" /\ job' = job /\ run'.succ = run.succ
          /\ run'.fail = run.fail
      BY <1>7 DEF Sending
    <2> QED BY <1>1, <1>2, <2>3, <2>5, <2>6
  <1>8. CASE Storing
    <2>1. /\ Cardinality(run.todo) \in Nat /\ Cardinality(run.good) \in Nat
          /\ Cardinality(run.bad) \in Nat
      BY <1>1, <1>2
    <2>2. /\ run'.succ = run.succ + Cardinality(run.good)
          /\ run'.fail = run.fail + Cardinality(run.bad)
          /\ run'.todo = run.todo /\ run'.good = {} /\ run'.bad = {}
          /\ run.pc = "work" /\ run'.pc = "work"
      BY <1>8 DEF Storing
    <2>3. Cardinality({}) = 0
      BY FS_EmptySet
    <2>4. run'.succ + run'.fail <= CommentCount
      BY <1>1, <1>2, <2>1, <2>2
    <2>5. \A k \in Job : job'[k].done <= CommentCount
      BY <1>8, <2>4 DEF Storing, OnlyJob
    <2>6. run'.succ + run'.fail + Cardinality(run.todo) + 0 + 0 <= CommentCount
      BY <1>1, <1>2, <2>1, <2>2
    <2> QED BY <1>1, <2>2, <2>3, <2>5, <2>6
  <1>9. CASE Verifying BY <1>1, <1>9 DEF Verifying
  <1>10. CASE Totalling
    <2> DEFINE S == Items(j0, "succeeded")
               F == Items(j0, "failed")
               K == Items(j0, "skipped")
    <2>1. S \in SUBSET Comment /\ F \in SUBSET Comment /\ K \in SUBSET Comment
      BY DEF Items
    <2>2. S \cap F = {} /\ (S \cup F) \cap K = {}
      BY DEF Items
    <2>3. job'[j0].done = Cardinality(S) + Cardinality(F) + Cardinality(K)
      BY <1>10 DEF Totalling, Totals, Counts
    <2> HIDE DEF S, F, K
    <2>4. S \cup F \in SUBSET Comment /\ S \cup F \cup K \in SUBSET Comment
      BY <2>1
    <2>5. Cardinality(S \cup F) = Cardinality(S) + Cardinality(F) - Cardinality(S \cap F)
      BY <1>1, <2>1, FS_Union
    <2>6. Cardinality((S \cup F) \cup K)
            = Cardinality(S \cup F) + Cardinality(K) - Cardinality((S \cup F) \cap K)
      BY <1>1, <2>1, <2>4, FS_Union
    <2>7. Cardinality({}) = 0
      BY FS_EmptySet
    <2>8. Cardinality(S) \in Nat /\ Cardinality(F) \in Nat /\ Cardinality(K) \in Nat
          /\ Cardinality(S \cup F \cup K) <= CommentCount
      BY <1>1, <2>1, <2>4
    <2>9. Cardinality(S) + Cardinality(F) + Cardinality(K) <= CommentCount
      <3>1. Cardinality(S \cap F) = 0 /\ Cardinality((S \cup F) \cap K) = 0
        BY <2>2, <2>7
      <3>2. Cardinality((S \cup F) \cup K) = Cardinality(S) + Cardinality(F) + Cardinality(K)
        BY <2>5, <2>6, <2>8, <3>1
      <3> QED BY <2>8, <3>2
    <2>10. \A k \in Job : job'[k].done <= CommentCount
      BY <1>10, <2>3, <2>9 DEF Totalling, OnlyJob
    <2> QED BY <1>1, <1>10, <2>10 DEF Totalling
  <1>11. ASSUME NEW s, Over(s) PROVE Room'
    <2>1. \A k \in Job : job'[k].done = job[k].done
      BY <1>11 DEF Over, OnlyJob, Types, JobRecord
    <2> QED BY <1>1, <1>11, <2>1 DEF Over, IdleRun
  <1>12. CASE Crashing
    <2>1. \A k \in Job : job'[k].done = job[k].done
      BY <1>12 DEF Crashing, Types, JobRecord
    <2> QED BY <1>1, <1>12, <2>1 DEF Crashing, IdleRun
  <1> QED
    BY StepKinds, <1>3, <1>4, <1>5, <1>6, <1>7, <1>8, <1>9, <1>10, <1>11, <1>12
    DEF Kinds

(***************************************************************************)
(* The theorems                                                            *)
(***************************************************************************)
JobInv ==
    /\ Types /\ Open /\ Alone
    /\ Backing /\ Barring /\ Gone /\ Settled /\ FirstRun /\ Telling /\ Room

LEMMA JobInvHoldsFirst ==
  ASSUME Init PROVE JobInv
  <1>1. run.pc = "idle" /\ test.pc = "idle" /\ barred = {} /\ resumed = {}
    BY DEF Init, IdleRun, IdleTest
  <1>2. \A j \in Job : job[j] = NewJob /\ \A c \in Comment : item[j][c] = "none"
    BY DEF Init
  <1>3. \A j \in Job : job[j].status = "absent" /\ job[j].done = 0
    BY <1>2 DEF NewJob
  <1>4. \A c \in Comment : status[c] = "active"
    BY DEF Init
  <1>5. CommentCount \in Nat
    BY CountsAreNat DEF CommentCount
  <1>6. Backing /\ Barring /\ Gone
    BY <1>1, <1>2, <1>4 DEF Backing, Barring, Gone, Init
  <1>7. Settled /\ Open /\ FirstRun
    BY <1>1, <1>3 DEF Settled, Open, FirstRun
  <1>8. Telling BY <1>1, <1>3 DEF Telling
  <1>9. Room BY <1>1, <1>3, <1>5 DEF Room
  <1>10. Alone
    <2>1. \A r \in Request : req[r].pc = "idle"
      BY DEF Init, IdleReq
    <2> QED BY <2>1 DEF Alone
  <1> QED BY <1>6, <1>7, <1>8, <1>9, <1>10, TypesHoldFirst DEF JobInv

LEMMA JobInvStays ==
  ASSUME JobInv, [Next]_vars PROVE JobInv'
  <1>1. CASE Step /\ Watch
    BY <1>1, TypesStay, BackingStays, BarringStays, GoneStays, SettledStays, OpenStays,
       AloneStays, FirstRunStays, TellingStays, RoomStays DEF JobInv
  <1>2. CASE UNCHANGED vars
    <2>1. Types' BY <1>2, TypesStutter DEF JobInv
    <2>2. Backing' BY <1>2 DEF JobInv, Backing, vars
    <2>3. Barring' BY <1>2 DEF JobInv, Barring, Forbidden, vars
    <2>4. Gone' BY <1>2 DEF JobInv, Gone, vars
    <2>5. Settled' BY <1>2 DEF JobInv, Settled, vars
    <2>6. Open' BY <1>2 DEF JobInv, Open, vars
    <2>7. FirstRun' BY <1>2 DEF JobInv, FirstRun, vars
    <2>8. Telling'
      <3>1. UNCHANGED <<job, item, run>>
        BY <1>2 DEF vars
      <3>2. \A j \in Job : /\ Tallied(j) => Tallied(j)'
                           /\ Items(j, "pending")' = Items(j, "pending")
        BY <3>1, TalliedStays DEF JobInv, ItemStatus
      <3>3. run.pc = "finish" => run.job \in Job
        BY DEF JobInv, Types
      <3> QED BY <3>1, <3>2, <3>3 DEF JobInv, Telling
    <2>9. Room' BY <1>2 DEF JobInv, Room, CommentCount, vars
    <2>10. Alone' BY <1>2 DEF JobInv, Alone, vars
    <2> QED BY <2>1, <2>2, <2>3, <2>4, <2>5, <2>6, <2>7, <2>8, <2>9, <2>10 DEF JobInv
  <1> QED BY <1>1, <1>2 DEF Next

LEMMA JobInvAlways == Spec => []JobInv
  <1>1. Init => JobInv BY JobInvHoldsFirst
  <1>2. JobInv /\ [Next]_vars => JobInv' BY JobInvStays
  <1> QED BY <1>1, <1>2, PTL DEF Spec

\* Every variable has its type, and no job reports more outcomes than there are
\* comments, however many runs it took.
THEOREM JobWellTyped == Spec => []TypeOK
  <1>1. JobInv => TypeOK
    <2> SUFFICES ASSUME JobInv PROVE TypeOK
      OBVIOUS
    <2>1. ASSUME NEW j \in Job
          PROVE  /\ job[j].status \in Active \cup {"absent", "paused", "completed", "failed",
                                                  "cancelled"}
                 /\ job[j].done \in 0..Cardinality(Comment)
                 /\ item[j] \in [Comment -> {"none", "pending", "succeeded", "failed", "skipped"}]
                 /\ backup[j] \in SUBSET Comment
      <3>1. job[j] \in JobRecord /\ job[j].done <= Cardinality(Comment)
            /\ item[j] \in [Comment -> ItemStatus] /\ backup[j] \in SUBSET Comment
        BY DEF JobInv, Types, Room, CommentCount
      <3>2. Cardinality(Comment) \in Nat
        BY CountsAreNat
      <3> QED BY <3>1, <3>2 DEF JobRecord, JobStatus, ItemStatus
    <2>2. run \in RunRecord /\ test \in TrialRecord /\ \A r \in Request : req[r] \in ReqRecord
      BY DEF JobInv, Types
    <2>3. /\ run.pc \in {"idle", "start", "work", "verify", "total", "finish"}
          /\ run.job \in Job \cup {NoJob} /\ run.todo \cup Unsaved \subseteq Comment
          /\ test.pc \in {"idle", "record"}
          /\ \A r \in Request : req[r].pc \in {"idle", "lock", "backup"}
      BY <2>2 DEF RunRecord, TrialRecord, ReqRecord, Unsaved
    <2>4. /\ class \in [Comment -> Classes]
          /\ status \in [Comment -> {"active", "deleted", "failed"}]
          /\ alive \in SUBSET Comment /\ owner \in BOOLEAN /\ lock \in Request \cup {NoRequest}
      BY DEF JobInv, Types, RowStatus
    <2> QED BY <2>1, <2>3, <2>4 DEF TypeOK
  <1> QED BY <1>1, JobInvAlways, PTL

\* A comment that has been protected, deleted or not approved ever since the
\* task of a job was launched is not asked for by it, whatever is rescored
\* meanwhile and however long the job was paused (jobs.py:880).
THEOREM BarredStayAlone == Spec => []BarredLeftAlone
  <1>1. JobInv => BarredLeftAlone
    BY DEF JobInv, Barring, BarredLeftAlone, Unsaved
  <1> QED BY <1>1, JobInvAlways, PTL

\* A real run asks only for comments that the backup of its job holds, also
\* after crashes and resumptions (jobs.py:345-356).
THEOREM AskedAreBackedUp == Spec => []AskedIsBackedUp
  <1>1. JobInv => AskedIsBackedUp
    <2> SUFFICES ASSUME JobInv, run.pc # "idle", ~job[run.job].dry,
                        NEW c \in run.todo \cup Unsaved
                 PROVE  c \in backup[run.job]
      BY DEF AskedIsBackedUp
    <2>1. run.job \in Job /\ c \in Comment /\ c \in run.todo \cup run.good \cup run.bad
      BY DEF JobInv, Types, RunRecord, Unsaved
    <2> QED BY <2>1 DEF JobInv, Backing
  <1> QED BY <1>1, JobInvAlways, PTL

\* What is recorded as deleted is gone from the blog, whatever dry runs, trial
\* deletions, retries, lost answers and crashes there were, except for what the blog has
\* accepted without removing it and what a partial verification has not seen, until a
\* verification of everything puts the job right (deleter.py:377-378, 429-445).
THEOREM DeletedAreGone == Spec => []DeletedIsGone
  <1>1. JobInv => DeletedIsGone
    BY DEF JobInv, Gone, DeletedIsGone
  <1> QED BY <1>1, JobInvAlways, PTL

\* A job that ended as completed or cancelled reports the totals of its items,
\* over all its runs; a completed one left none pending.
THEOREM TotalsAreSettled == Spec => []SettledTotals
  <1>1. JobInv => SettledTotals
    BY DEF JobInv, Telling, Tallied, SettledTotals
  <1> QED BY <1>1, JobInvAlways, PTL

\* A job that completes in its first run leaves its items as the blog is, as long as its
\* verification could read and write everything and no trial deletion met its comments
\* (jobs.py:751-757).
THEOREM FirstRunsEndTrue == Spec => FirstRunEndsTrue
  <1>1. JobInv /\ [Next]_vars =>
          [\A j \in Job :
              /\ job'[j].status = "completed" /\ job[j].status # "completed"
              /\ ~job[j].dry /\ ~run.unread /\ j \notin resumed /\ ~overlap
              => Items(j, "succeeded") \cap alive = {} /\ Items(j, "failed") \subseteq alive]_vars
    BY FirstRunEndsStep DEF JobInv, Next
  <1> QED BY <1>1, JobInvAlways, PTL DEF Spec, FirstRunEndsTrue

\* What is rightly recorded as deleted stays so, unless a trial deletion met a comment
\* that a job had in hand; the verification sets back only what is still there.
THEOREM DeletedForGood == Spec => DeletedStays
  <1>1. JobInv /\ [Next]_vars =>
          [\A c \in Comment :
              status[c] = "deleted" /\ c \notin alive /\ ~overlap' => status'[c] = "deleted"]_vars
    BY DeletedStaysStep DEF JobInv, Next
  <1> QED BY <1>1, JobInvAlways, PTL DEF Spec, DeletedStays

(***************************************************************************)
(* The jobs keep the promise of the job manager                            *)
(***************************************************************************)
\* The promise's view of the jobs, and steps that it does not see.
JobState == [j \in Job |-> job[j].status]
AtWork   == IF run.pc = "idle" THEN {} ELSE {run.job}
Unseen   == JobState' = JobState /\ AtWork' = AtWork
Promised == Promise!PromiseNext \/ Unseen

LEMMA PromiseSteps ==
  ASSUME NEW j \in Job,
         \/ Promise!Create(j) \/ Promise!Resume(j) \/ Promise!Begin(j) \/ Promise!End(j)
         \/ Promise!Fail(j)
  PROVE  Promised
  BY Zenon DEF Promised, Promise!PromiseNext

LEMMA StatusWritten ==
  ASSUME NEW j \in Job, OnlyJob(j), NEW s, job'[j].status = s
  PROVE  Promise!Becomes(j, s)
  BY DEF OnlyJob, Promise!Becomes

LEMMA CrashInterrupts ==
  ASSUME Types, Crashing PROVE Promise!Interrupt
  <1>1. \A j \in Job : job'[j].status =
                         IF job[j].status = "running" THEN "paused" ELSE job[j].status
    BY DEF Crashing, Types, JobRecord
  <1> QED BY <1>1 DEF Crashing, Promise!Interrupt, IdleRun

\* A job is made or resumed when no other is open.
LEMMA OpeningKeepsPromise ==
  ASSUME Types, Open, Alone, NEW j \in Job, (\E r \in Request : Create(r, j)) \/ Resume(j)
  PROVE  Promised
  <1>0. run.pc = "idle" /\ Fresh(j)
    BY CreationIsBirth, ResumptionResumes, Zenon DEF Born, Resuming
  <1>1. run.pc = "idle" /\ AtWork' = {j}
    BY <1>0 DEF Fresh, AtWork
  <1>2. \A k \in Job : job[k].status \notin Active
    BY DEF Create, Resume, Alone
  <1>3. ~Promise!Busy
    BY <1>2 DEF Promise!Busy, Active
  <1>4. CASE \E r \in Request : Create(r, j)
    <2>1. job[j].status = "absent" /\ Promise!Becomes(j, "pending")
      BY <1>4, CreationIsBirth, StatusWritten DEF Born
    <2>2. Promise!Create(j)
      BY <1>1, <1>3, <2>1 DEF Promise!Create, AtWork
    <2> QED BY <2>2, PromiseSteps
  <1>5. CASE Resume(j)
    <2>1. job[j].status = "paused" /\ Promise!Becomes(j, "running")
      BY <1>5, ResumptionResumes, StatusWritten DEF Resuming
    <2>2. Promise!Resume(j)
      BY <1>1, <1>3, <2>1 DEF Promise!Resume, AtWork
    <2> QED BY <2>2, PromiseSteps
  <1> QED BY <1>4, <1>5

\* The run begins and ends its own job, which is running meanwhile.
LEMMA RunKeepsPromise ==
  ASSUME Types, Open, Alone, Step, run.pc # "idle"
  PROVE  Promised
  <1>0. PICK j \in Job : j = j0
    BY DEF Types, j0
  <1>1. /\ AtWork = {j} /\ JobState[j] = job[j].status
        /\ job[j].status \in {"pending", "running"}
    BY <1>0 DEF Types, AtWork, JobState, Open, Active, j0
  <1>2. ASSUME job' = job, run'.pc # "idle", run'.job = run.job PROVE Promised
    BY <1>2 DEF Promised, Unseen, JobState, AtWork
  <1>3. ASSUME OnlyJob(j0), job'[j0].status = job[j0].status, run'.pc # "idle", run'.job = run.job
        PROVE  Promised
    <2>1. \A k \in Job : job'[k].status = job[k].status
      BY <1>3 DEF OnlyJob
    <2> QED BY <1>3, <2>1 DEF Promised, Unseen, JobState, AtWork
  <1>4. CASE Asking \/ Trying \/ Tried \/ Rescored
    BY <1>2, <1>4 DEF Asking, Trying, Tried, Rescored
  <1>5. CASE Turned
    <2>1. run'.pc # "idle" /\ run'.job = run.job /\ job' = job
      BY <1>5 DEF Turned
    <2> QED BY <1>2, <2>1
  <1>6. CASE Filtering
    <2>1. Promise!Becomes(j, "running") /\ AtWork' = AtWork
      BY <1>0, <1>1, <1>6, StatusWritten DEF Filtering, AtWork
    <2>2. Promise!Begin(j)
      BY <1>1, <2>1 DEF Promise!Begin, AtWork, JobState
    <2> QED BY <2>2, PromiseSteps
  <1>7. ASSUME NEW c \in Comment, Sending(c) PROVE Promised
    BY <1>2, <1>7 DEF Sending
  <1>8. CASE Storing \/ Totalling
    BY <1>3, <1>8 DEF Storing, Totalling, SameRun
  <1>9. CASE Verifying
    BY <1>2, <1>9 DEF Verifying, SameRun
  <1>10. ASSUME NEW s, Over(s) PROVE Promise!Becomes(j, s) /\ AtWork' = {}
    <2>1. OnlyJob(j) /\ job'[j].status = s /\ run'.pc = "idle"
      BY <1>0, <1>10 DEF Over, Types, JobRecord, IdleRun
    <2> QED BY <1>1, <2>1, StatusWritten DEF AtWork
  <1>11. CASE run.pc = "finish" /\ Over(FinalStatus)
    <2>1. FinalStatus \in {"paused", "completed", "cancelled"} /\ job[j].status = "running"
      BY <1>0, <1>11 DEF FinalStatus, Open, j0
    <2>2. Promise!End(j)
      BY <1>1, <1>10, <1>11, <2>1 DEF Promise!End, AtWork, JobState
    <2> QED BY <2>2, PromiseSteps
  <1>12. CASE Over("failed")
    <2>1. Promise!Fail(j)
      BY <1>1, <1>10, <1>12 DEF Promise!Fail, AtWork, JobState
    <2> QED BY <2>1, PromiseSteps
  <1>13. CASE Crashing
    <2>1. Promise!Interrupt
      BY <1>13, CrashInterrupts
    <2> QED BY <2>1 DEF Promised, Promise!PromiseNext
  <1> QED
    BY StepKinds, <1>4, <1>5, <1>6, <1>7, <1>8, <1>9, <1>11, <1>12, <1>13
    DEF Kinds, Born, Resuming

\* Without a run no job changes, but in a restart.
LEMMA OthersKeepPromise ==
  ASSUME Types, Open, Alone, Step, run.pc = "idle",
         ~\E j \in Job : (\E r \in Request : Create(r, j)) \/ Resume(j)
  PROVE  Promised
  <1>1. CASE Crash
    BY <1>1, CrashCrashes, CrashInterrupts DEF Promised, Promise!PromiseNext
  <1>2. CASE UNCHANGED <<job, run>>
    BY <1>2 DEF Promised, Unseen, JobState, AtWork
  <1> QED
    BY <1>1, <1>2, RequestsAsk
    DEF Step, Asking, Cancel, Filter, OpenCircuit, Abort, EndWork, Verify, Total, Finish,
        RunRaises, AskBlog, Store, TestAsk, TestRecord, Rescore, records

\* The jobs keep the promise that the job manager keeps: none is made or resumed while
\* another is open, and only the one at work ends.
THEOREM JobKeepsPromise == Spec => KeepsPromise
  <1>1. Init => Promise!PromiseInit
    BY DEF Init, Promise!PromiseInit, NewJob, IdleRun
  <1>2. JobInv /\ [Next]_vars => [Promise!PromiseNext]_(Promise!promiseVars)
    <2> SUFFICES ASSUME JobInv, [Next]_vars PROVE Promised
      BY DEF Promised, Unseen, JobState, AtWork, Promise!promiseVars
    <2>1. CASE UNCHANGED vars
      BY <2>1 DEF vars, Promised, Unseen, JobState, AtWork
    <2>2. CASE Step
      BY <2>2, OpeningKeepsPromise, RunKeepsPromise, OthersKeepPromise DEF JobInv
    <2> QED BY <2>1, <2>2 DEF Next
  <1> QED BY <1>1, <1>2, JobInvAlways, PTL DEF Spec, KeepsPromise, Promise!PromiseSpec

\* Whatever keeps JobPromise has one open deletion at most, and works for no other.
OneAtWork == Promise!OneOpen /\ Promise!OnlyOpenWork

LEMMA PromiseMeansOne == KeepsPromise => []OneAtWork
  <1>1. Promise!PromiseInit => OneAtWork
    BY DEF Promise!PromiseInit, OneAtWork, Promise!OneOpen, Promise!OnlyOpenWork
  <1>2. OneAtWork /\ [Promise!PromiseNext]_(Promise!promiseVars) => OneAtWork'
    <2> DEFINE S(k) == job[k].status
               Opens(k) == S(k) \in {"pending", "running"}
    <2> SUFFICES ASSUME OneAtWork, [Promise!PromiseNext]_(Promise!promiseVars) PROVE OneAtWork'
      OBVIOUS
    <2>1. /\ \A j, k \in Job : Opens(j) => (Opens(k) => k = j)
          /\ AtWork \subseteq {j \in Job : Opens(j)}
      <3>1. \A j, k \in Job : Opens(j) => (Opens(k) => k = j)
        <4>1. Promise!OneOpen
          BY DEF OneAtWork
        <4> QED BY <4>1 DEF Promise!OneOpen
      <3>2. AtWork \subseteq {j \in Job : Opens(j)}
        <4>1. Promise!OnlyOpenWork
          BY DEF OneAtWork
        <4> QED BY <4>1 DEF Promise!OnlyOpenWork, AtWork
      <3> QED BY <3>1, <3>2
    <2>2. ASSUME NEW j \in Job, NEW s, Promise!Becomes(j, s)
          PROVE  S(j)' = s /\ \A k \in Job : k # j => S(k)' = S(k)
      <3>1. \A k \in Job : JobState'[k] = [JobState EXCEPT ![j] = s][k]
        BY <2>2 DEF Promise!Becomes, JobState
      <3> QED BY <3>1 DEF JobState
    <2>3. ASSUME UNCHANGED JobState PROVE \A k \in Job : S(k)' = S(k)
      <3>1. \A k \in Job : JobState'[k] = JobState[k]
        BY <2>3
      <3> QED BY <3>1 DEF JobState
    <2> HIDE DEF S
    <2>4. ASSUME NEW j \in Job, Promise!Create(j) \/ Promise!Resume(j)
          PROVE  /\ \A k \in Job : ~Opens(k)
                 /\ S(j)' \in {"pending", "running"} /\ \A k \in Job : k # j => S(k)' = S(k)
                 /\ AtWork' \in {{}, {j}}
      BY <2>4, <2>2 DEF Promise!Create, Promise!Resume, Promise!Busy, AtWork, S
    <2>5. ASSUME NEW j \in Job, Promise!Launch(j)
          PROVE  Opens(j) /\ AtWork' = {j} /\ \A k \in Job : S(k)' = S(k)
      BY <2>5, <2>3 DEF Promise!Launch, AtWork, JobState, S
    <2>6. ASSUME NEW j \in Job, Promise!Begin(j)
          PROVE  /\ Opens(j) /\ AtWork = {j} /\ AtWork' = {j}
                 /\ S(j)' = "running" /\ \A k \in Job : k # j => S(k)' = S(k)
      BY <2>6, <2>2 DEF Promise!Begin, AtWork, S
    <2>7. ASSUME NEW j \in Job, Promise!End(j) \/ Promise!Fail(j)
          PROVE  /\ S(j)' \notin {"pending", "running"} /\ AtWork' \subseteq AtWork \ {j}
                 /\ \A k \in Job : k # j => S(k)' = S(k)
      BY <2>7, <2>2 DEF Promise!End, Promise!Fail, AtWork
    <2>8. ASSUME Promise!GiveUp PROVE AtWork' = {} /\ \A k \in Job : S(k)' = S(k)
      BY <2>8, <2>3 DEF Promise!GiveUp, AtWork, JobState
    <2>9. ASSUME Promise!Interrupt
           PROVE  AtWork' = {} /\ \A k \in Job : S(k)' \in {S(k), "paused"}
      <3>1. AtWork' = {} /\ \A k \in Job : JobState'[k] = IF S(k) = "running" THEN "paused" ELSE S(k)
        BY <2>9 DEF Promise!Interrupt, AtWork, JobState, S
      <3> QED BY <3>1 DEF JobState, S
    <2>10. ASSUME UNCHANGED Promise!promiseVars
           PROVE  AtWork' = AtWork /\ \A k \in Job : S(k)' = S(k)
      BY <2>10, <2>3 DEF Promise!promiseVars, AtWork, JobState
    <2>11. /\ \A j, k \in Job : Opens(j)' => (Opens(k)' => k = j)
           /\ AtWork' \subseteq {j \in Job : Opens(j)'}
      <3>1. CASE \E j \in Job : Promise!Create(j) \/ Promise!Resume(j)
        BY <2>4, <3>1
      <3>2. CASE \E j \in Job : Promise!Launch(j)
        BY <2>1, <2>5, <3>2
      <3>3. CASE \E j \in Job : Promise!Begin(j)
        BY <2>1, <2>6, <3>3
      <3>4. CASE \E j \in Job : Promise!End(j) \/ Promise!Fail(j)
        BY <2>1, <2>7, <3>4
      <3>5. CASE Promise!GiveUp \/ Promise!Interrupt \/ UNCHANGED Promise!promiseVars
        BY <2>1, <2>8, <2>9, <2>10, <3>5
      <3> QED BY <3>1, <3>2, <3>3, <3>4, <3>5 DEF Promise!PromiseNext
    <2> USE DEF S
    <2>12. Promise!OneOpen'
      BY <2>11 DEF Promise!OneOpen, JobState
    <2>13. Promise!OnlyOpenWork'
      BY <2>11 DEF Promise!OnlyOpenWork, AtWork, JobState
    <2> QED BY <2>12, <2>13 DEF OneAtWork
  <1> QED BY <1>1, <1>2, PTL DEF KeepsPromise, Promise!PromiseSpec

\* One deletion at most is pending or running at any time, and a run works for it:
\* whatever retries, resumptions and crashes come between the checks and the rows.
THEOREM OneDeletionOpen == Spec => [](Promise!OneOpen /\ Promise!OnlyOpenWork)
  BY JobKeepsPromise, PromiseMeansOne, PTL DEF OneAtWork

(***************************************************************************)
(* A working run keeps the promise of the engine                           *)
(***************************************************************************)
\* What a working run has in hand has no outcome yet, and not two.
InHand ==
    run.pc = "work" =>
       /\ run.good \cap run.bad = {}
       /\ \A c \in run.todo \cup run.good \cup run.bad : item[run.job][c] = "pending"

\* The outcomes that a batch records.
LEMMA StoreWrites ==
  ASSUME Types, Store(Unsaved)
  PROVE  item'[j0] = [c \in Comment |-> IF c \in run.good THEN "succeeded"
                                        ELSE IF c \in run.bad THEN "failed" ELSE item[j0][c]]
  <1>1. run.pc = "work" /\ j0 \in Job
    BY DEF Store, j0, Types
  <1>2. Unsaved \cap run.good = run.good /\ Unsaved \cap run.bad = run.bad
    BY DEF Unsaved
  <1> QED BY <1>1, <1>2 DEF Store, Types

LEMMA InHandStays ==
  ASSUME Types, Open, Alone, Barring, Settled, InHand, Step
  PROVE  InHand'
  <1> USE DEF InHand
  <1>1. CASE Asking \/ Trying \/ Tried \/ Rescored
    BY <1>1 DEF Asking, Trying, Tried, Rescored
  <1>2. ASSUME NEW j \in Job, Born(j) \/ Resuming(j) PROVE InHand'
    BY <1>2 DEF Born, Resuming, Fresh
  <1>3. CASE Turned
    BY <1>3 DEF Turned
  <1>4. CASE Filter
    <2>1. Filtering /\ run.pc = "start" /\ run.job \in Job /\ run.good = {} /\ run.bad = {}
      BY <1>4, FilterFilters DEF Filter, Types, Barring
    <2>2. ASSUME NEW c \in run'.todo PROVE item'[j0][c] = "pending"
      <3>1. c \in Comment /\ item[j0][c] = "pending" /\ ~Skips(j0, c)
        BY <2>1, <2>2 DEF Filtering, Items
      <3> QED BY <1>4, <2>1, <3>1 DEF Filter, Types, j0
    <2> QED BY <2>1, <2>2 DEF Filtering, j0
  <1>5. ASSUME NEW c \in Comment, Sending(c) PROVE InHand'
    BY <1>5 DEF Sending, Settled
  <1>6. CASE Store(Unsaved)
    <2>1. /\ Storing /\ run.pc = "work"
          /\ \A c \in run.todo : c \in Comment /\ c \notin run.good /\ c \notin run.bad
      BY <1>6, StoringStores DEF Storing, Settled, Types, RunRecord
    <2>2. \A c \in run.todo : item'[j0][c] = "pending"
      BY <1>6, <2>1, StoreWrites DEF j0
    <2> QED BY <2>1, <2>2 DEF Storing, j0
  <1>7. CASE Verifying \/ Totalling
    BY <1>7 DEF Verifying, Totalling
  <1>8. CASE run' = IdleRun
    BY <1>8 DEF IdleRun
  <1>9. CASE Finish \/ RunRaises \/ Crash
    BY <1>8, <1>9 DEF Finish, RunRaises, Crash
  <1> QED
    BY <1>1, <1>2, <1>3, <1>4, <1>5, <1>6, <1>7, <1>9, RequestsAsk, CreationIsBirth,
       ResumptionResumes, TurningTurns, AskingSends, VerifyVerifies, TotalTotals, TrialsTry,
       TrialsEnd, RescoringRescores
    DEF Step

WorkInv == JobInv /\ InHand

LEMMA WorkInvAlways == Spec => []WorkInv
  <1>1. ASSUME Init PROVE WorkInv
    <2>1. run.pc = "idle"
      BY <1>1 DEF Init, IdleRun
    <2> QED BY <1>1, <2>1, JobInvHoldsFirst DEF WorkInv, InHand
  <1>2. WorkInv /\ [Next]_vars => WorkInv'
    <2>1. ASSUME WorkInv, Next PROVE InHand'
      BY <2>1, InHandStays DEF WorkInv, JobInv, Next
    <2>2. ASSUME WorkInv, UNCHANGED vars PROVE InHand'
      BY <2>2 DEF WorkInv, InHand, vars
    <2> QED BY <2>1, <2>2, JobInvStays DEF WorkInv
  <1> QED BY <1>1, <1>2, PTL DEF Spec

\* The items of the job at work, as DeletePromise sees them: a comment is gone for it as
\* soon as the blog has said so.
Missing == IF job[j0].dry THEN {} ELSE (Comment \ alive) \cup doubtful
Work == INSTANCE DeletePromise
    WITH rehearsal <- job[j0].dry, gone <- Missing, record <- item[j0],
         closed <- run.pc # "work"

\* Until it ends, the run of a job does only what the engine promises: what its job
\* records as succeeded the blog has removed or said to have removed, and no item is
\* recorded twice (deleter.py:183-361).
WorkKeepsPromise ==
    [][run.pc = "work" /\ run'.pc # "idle" => [Work!PromiseNext]_(Work!promiseVars)]_vars

LEMMA WorkPromiseStep ==
  ASSUME Types, Open, Alone, Gone, InHand, Step, Watch, run.pc = "work", run'.pc # "idle"
  PROVE  [Work!PromiseNext]_(Work!promiseVars)
  <1> USE DEF j0
  <1> DEFINE Same == run'.job = run.job /\ job'[j0].dry = job[j0].dry
             Quiet == Same /\ item'[j0] = item[j0]
  <1>1. j0 \in Job /\ alive \in SUBSET Comment /\ item[j0] \in [Comment -> ItemStatus]
    BY DEF Types
  <1>2. ASSUME Quiet, alive' \in SUBSET alive, run'.pc = "work"
        PROVE  [Work!PromiseNext]_(Work!promiseVars)
    <2>1. CASE job[j0].dry
      BY <1>2, <2>1 DEF Missing, Work!promiseVars
    <2>2. CASE ~job[j0].dry
      <3>1. PutRight = {} /\ doubtful' = (doubtful \cup Told) \cap alive'
        BY DEF Watch, PutRight, Verified
      <3>2. Missing' = Missing \cup ((Comment \ alive') \cup doubtful')
        BY <1>1, <1>2, <2>2, <3>1 DEF Missing, Gone
      <3>3. (Comment \ alive') \cup doubtful' \in SUBSET Comment
        BY <1>1, <1>2, <3>1
      <3>4. \E S \in SUBSET Comment : Missing' = Missing \cup S
        BY <3>2, <3>3
      <3>5. Work!Perish
        BY <1>2, <2>2, <3>4 DEF Work!Perish
      <3> QED BY <3>5 DEF Work!PromiseNext
    <2> QED BY <2>1, <2>2
  <1>3. ASSUME Same, run'.good \subseteq run.good, alive' = alive, test' = test
        PROVE  Missing' = Missing
    <2>1. CASE job[j0].dry
      BY <1>3, <2>1 DEF Missing
    <2>2. CASE ~job[j0].dry
      <3>1. PutRight = {} /\ ~Verified
        BY DEF PutRight, Verified
      <3>2. Told \cap alive \subseteq doubtful
        BY <1>3, <3>1, <2>2 DEF Told, Gone
      <3>3. doubtful' \cap alive = doubtful \cap alive /\ doubtful' \subseteq alive
        BY <1>3, <3>1, <3>2 DEF Watch
      <3>4. doubtful \subseteq Comment
        BY <1>1 DEF Gone
      <3> QED BY <1>1, <1>3, <2>2, <3>3, <3>4 DEF Missing
    <2> QED BY <2>1, <2>2
  <1>4. CASE Asking \/ Trying \/ Tried \/ Rescored
    BY <1>2, <1>4 DEF Asking, Trying, Tried, Rescored
  <1>5. CASE Turned
    <2>1. Quiet /\ alive' = alive /\ test' = test /\ run'.good \subseteq run.good
      BY <1>5 DEF Turned
    <2>2. CASE run'.pc = "work"
      BY <1>2, <2>1, <2>2
    <2>3. CASE run'.pc # "work"
      <3>1. Missing' = Missing
        BY <1>3, <2>1
      <3>2. Work!Close
        BY <2>1, <2>3, <3>1 DEF Work!Close
      <3> QED BY <3>2 DEF Work!PromiseNext
    <2> QED BY <2>2, <2>3
  <1>6. ASSUME NEW c \in Comment, Sending(c) PROVE [Work!PromiseNext]_(Work!promiseVars)
    BY <1>2, <1>6 DEF Sending
  <1>7. CASE Store(Unsaved)
    <2>1. Storing
      BY <1>7, StoringStores
    <2>2. /\ run.good \in SUBSET {c \in Comment : item[j0][c] = "pending"}
          /\ run.bad \in SUBSET {c \in Comment : item[j0][c] = "pending"}
          /\ run.good \cap run.bad = {}
      BY DEF InHand, Types, RunRecord
    <2>3. job[j0].dry \/ run.good \subseteq Missing
      BY <2>2 DEF Gone, Missing
    <2>4. Same /\ run'.pc = "work" /\ Missing' = Missing
      <3>1. Same /\ run'.pc = "work" /\ run'.good = {} /\ alive' = alive /\ test' = test
        BY <2>1 DEF Storing, SameTerms
      <3> QED BY <1>3, <3>1
    <2>5. Work!Store
      <3>1. item[run.job]' = [c \in Comment |-> IF c \in run.good THEN "succeeded"
                                  ELSE IF c \in run.bad THEN "failed" ELSE item[run.job][c]]
        BY <1>7, <2>4, StoreWrites
      <3>2. UNCHANGED <<job[run.job].dry, Missing, run.pc # "work">>
        BY <2>4
      <3> HIDE DEF Same
      <3> QED BY <2>2, <2>3, <3>1, <3>2, Zenon DEF Work!Store
    <2> QED BY <2>5 DEF Work!PromiseNext
  <1>8. ~Filtering /\ ~Verifying /\ ~Totalling /\ ~(\E j \in Job : Born(j) \/ Resuming(j))
    BY DEF Filtering, Verifying, Totalling, Born, Resuming
  <1>9. ~Finish /\ ~RunRaises /\ ~Crash
    BY DEF Finish, RunRaises, Crash, IdleRun
  <1> HIDE DEF j0
  <1> QED
    BY <1>4, <1>5, <1>6, <1>7, <1>8, <1>9, RequestsAsk, CreationIsBirth, ResumptionResumes,
       TurningTurns, FilterFilters, AskingSends, VerifyVerifies, TotalTotals, TrialsTry,
       TrialsEnd, RescoringRescores
    DEF Step

\* Between its filter and its end the run of a job makes only steps of DeletePromise,
\* which the deletion engine implements, whatever trial deletions, rescorings and lost
\* answers come between.
THEOREM WorkIsHonest == Spec => WorkKeepsPromise
  <1>1. WorkInv /\ [Next]_vars =>
          [run.pc = "work" /\ run'.pc # "idle" => [Work!PromiseNext]_(Work!promiseVars)]_vars
    BY WorkPromiseStep DEF WorkInv, JobInv, Next
  <1> QED BY <1>1, WorkInvAlways, PTL DEF Spec, WorkKeepsPromise
=============================================================================
