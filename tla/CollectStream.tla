--------------------------- MODULE CollectStream ---------------------------
(***************************************************************************)
(* One collection of many posts and everybody who watches it: the task     *)
(* JobManager._run_collect with CollectorService.collect_many, the counter *)
(* callbacks of the posts, the ProgressHub, and its subscribers: the event *)
(* streams of the web pages and the monitor (src/app/services/{jobs,       *)
(* collector,monitor}.py, src/app/api/routes/jobs.py). The reading of one  *)
(* post is CommentPaging; it counts here as succeeded or failed.           *)
(***************************************************************************)
EXTENDS Naturals, Sequences, FiniteSets

CONSTANTS
    Post,           \* the posts of the job
    Client,         \* subscribers: event streams and the monitor
    Everything,     \* the clients of the channel of all jobs
    Concurrency,    \* posts read at once
    QueueSize,      \* _SUBSCRIBER_QUEUE_SIZE
    NoEntry,
    MaxFaults       \* bound on failing database accesses and exceptions

ASSUME StreamAssumption ==
    /\ IsFiniteSet(Post) /\ IsFiniteSet(Client) /\ Everything \subseteq Client
    /\ Concurrency \in Nat \ {0} /\ QueueSize \in Nat \ {0} /\ MaxFaults \in Nat

VARIABLES
    row,        \* the job's row: status and counters
    cancel,     \* the cancel event
    stage,      \* where the task is
    final,      \* the status it is about to store
    attempt,    \* how often a final status has been tried (1: _run_collect,
                \* 2: its except branch, 3: the finalizer)
    post,       \* where the coroutine of each post is
    count,      \* the counters that the callbacks share (nonlocal)
    args,       \* the counters a post's callback is about to write
    snap,       \* the progress a post's callback has read
    subs,       \* ProgressHub._subscribers
    queue,      \* the queue of each subscriber
    latest,     \* ProgressHub._latest of this job
    client,     \* where each subscriber is
    faults,
    reordered   \* history: an older write of the counters came after a newer

vars == <<row, cancel, stage, final, attempt, post, count, args, snap, subs, queue,
          latest, client, faults, reordered>>

taskVars == <<row, cancel, stage, final, attempt>>
postVars == <<post, count, args, snap, reordered>>
hubVars  == <<queue, latest>>
clientVars == <<subs, client>>

Terminal == {"completed", "cancelled", "failed"}        \* JobStatus.is_terminal
Zero == [done |-> 0, succeeded |-> 0, failed |-> 0]
Counters == [done : 0..Cardinality(Post), succeeded : 0..Cardinality(Post),
             failed : 0..Cardinality(Post)]
Entry == [status : Terminal \cup {"pending", "running"}, c : Counters]

Init ==
    /\ row = [status |-> "pending", c |-> Zero]
    /\ cancel = FALSE /\ stage = "mark" /\ final = "failed" /\ attempt = 0
    /\ post = [e \in Post |-> "waiting"]
    /\ count = Zero
    /\ args = [e \in Post |-> Zero] /\ snap = [e \in Post |-> NoEntry]
    /\ subs = {} /\ queue = [s \in Client |-> <<>>] /\ latest = NoEntry
    /\ client = [s \in Client |-> "off"]
    /\ faults = 0 /\ reordered = FALSE

Fault == faults < MaxFaults /\ faults' = faults + 1

(***************************************************************************)
(* ProgressHub.publish                                                     *)
(***************************************************************************)
\* Plausible bug: a full queue keeps what it has.
PutDropsNewest(q, x) == IF Len(q) = QueueSize THEN q ELSE Append(q, x)

\* A full queue drops its oldest entry.
Put(q, x) == Append(IF Len(q) = QueueSize THEN Tail(q) ELSE q, x)

Publish(x) == queue' = [s \in Client |-> IF s \in subs THEN Put(queue[s], x) ELSE queue[s]]

\* Plausible bug: _publish leaves the cache to the clean-up of the task.
KeptAlways(x) == x

\* The cache after _publish: a terminal entry is forgotten.
Kept(x) == IF x.status \in Terminal THEN NoEntry ELSE x

(***************************************************************************)
(* The task                                                                *)
(***************************************************************************)
\* The except branch of _run_collect, and after it the finalizer: each tries to
\* commit FAILED and to publish it. A task that dies of its second failure is
\* cleaned up first (_on_task_done).
Fails ==
    /\ attempt' = attempt + 1 /\ final' = "failed"
    /\ stage' = IF attempt = 3 THEN "over" ELSE "end"
    /\ latest' = IF attempt = 2 THEN NoEntry ELSE latest
    /\ UNCHANGED queue

\* _mark_running
Mark ==
    /\ stage = "mark"
    /\ \/ /\ row' = [row EXCEPT !.status = "running"] /\ stage' = "gather"
          /\ Publish(row') /\ latest' = Kept(row') /\ UNCHANGED <<attempt, faults, final>>
       \/ /\ Fault /\ attempt' = 2 /\ stage' = "end" /\ final' = "failed"
          /\ row' = row \/ row' = [row EXCEPT !.status = "running"]
          /\ UNCHANGED hubVars
    /\ UNCHANGED <<cancel, postVars, clientVars>>

\* The client cannot be built, or the titles cannot be filled in.
ClientFails ==
    /\ stage = "gather" /\ \A e \in Post : post[e] = "waiting"
    /\ Fault /\ attempt' = 2 /\ stage' = "end" /\ final' = "failed"
    /\ UNCHANGED <<row, cancel, postVars, hubVars, clientVars>>

Cancel ==
    /\ stage # "over" /\ ~cancel
    /\ cancel' = TRUE
    /\ UNCHANGED <<row, stage, final, attempt, postVars, hubVars, clientVars, faults>>

\* A post gets the semaphore; after a cancel it is not read any more.
Enter(e) ==
    /\ stage = "gather" /\ post[e] = "waiting"
    /\ Cardinality({f \in Post : post[f] = "inside"}) < Concurrency
    /\ post' = [post EXCEPT ![e] = IF cancel THEN "skipped" ELSE "inside"]
    /\ UNCHANGED <<taskVars, count, args, snap, reordered, hubVars, clientVars, faults>>

\* Plausible bug: the callback counts on from the stored row.
CollectedFromRow(e, ok) ==
    /\ post[e] = "inside" \/ (post[e] = "skipped" /\ ~ok)
    /\ count' = [done |-> row.c.done + 1,
                 succeeded |-> row.c.succeeded + (IF ok THEN 1 ELSE 0),
                 failed |-> row.c.failed + (IF ok THEN 0 ELSE 1)]
    /\ args' = [args EXCEPT ![e] = count']
    /\ post' = [post EXCEPT ![e] = "write"]
    /\ UNCHANGED <<taskVars, snap, reordered, hubVars, clientVars, faults>>

\* The reading of a post ended; its callback counts it and enters a session
\* with the counters of this moment. A cancel during the reading ends it after the
\* present page, which is no failure; a post that was not read at all is one.
Collected(e, ok) ==
    /\ post[e] = "inside" \/ (post[e] = "skipped" /\ ~ok)
    /\ count' = [done |-> count.done + 1,
                 succeeded |-> count.succeeded + (IF ok THEN 1 ELSE 0),
                 failed |-> count.failed + (IF ok THEN 0 ELSE 1)]
    /\ args' = [args EXCEPT ![e] = count']
    /\ post' = [post EXCEPT ![e] = "write"]
    /\ UNCHANGED <<taskVars, snap, reordered, hubVars, clientVars, faults>>

\* Its transaction. Transactions of two callbacks commit in any order.
Write(e) ==
    /\ post[e] = "write"
    /\ row' = [row EXCEPT !.c = args[e]]
    /\ reordered' = (reordered \/ row.c.done > args[e].done)
    /\ post' = [post EXCEPT ![e] = "read"]
    /\ UNCHANGED <<cancel, stage, final, attempt, count, args, snap, hubVars, clientVars, faults>>

\* _publish reads the row in a session of its own ...
Read(e) ==
    /\ post[e] = "read"
    /\ snap' = [snap EXCEPT ![e] = row]
    /\ post' = [post EXCEPT ![e] = "publish"]
    /\ UNCHANGED <<taskVars, count, args, reordered, hubVars, clientVars, faults>>

\* ... and hands on what it has read.
Tell(e) ==
    /\ post[e] = "publish"
    /\ Publish(snap[e]) /\ latest' = Kept(snap[e])
    /\ post' = [post EXCEPT ![e] = "done"]
    /\ snap' = [snap EXCEPT ![e] = NoEntry]
    /\ UNCHANGED <<taskVars, count, args, reordered, clientVars, faults>>

\* _notify_entry swallows what a callback raises.
CallbackFails(e) ==
    /\ post[e] \in {"write", "read"}
    /\ Fault
    /\ post' = [post EXCEPT ![e] = "done"]
    /\ UNCHANGED <<taskVars, count, args, snap, reordered, hubVars, clientVars>>

Gathered ==
    /\ stage = "gather"
    /\ \A e \in Post : post[e] = "done"
    /\ stage' = "rescore"
    /\ UNCHANGED <<row, cancel, final, attempt, postVars, hubVars, clientVars, faults>>

\* The rescoring returns or raises, and the cancel event decides on the status.
Rescored ==
    /\ stage = "rescore" /\ stage' = "end"
    /\ \/ /\ attempt' = 1 /\ final' = (IF cancel THEN "cancelled" ELSE "completed")
          /\ UNCHANGED faults
       \/ attempt' = 2 /\ final' = "failed" /\ Fault
    /\ UNCHANGED <<row, cancel, postVars, hubVars, clientVars>>

\* _finish: the commit ...
Commit ==
    /\ stage = "end"
    /\ \/ /\ row' = [row EXCEPT !.status = final] /\ stage' = "announce"
          /\ UNCHANGED <<attempt, final, faults, hubVars>>
       \/ Fault /\ Fails /\ UNCHANGED row
    /\ UNCHANGED <<cancel, postVars, clientVars>>

\* ... and the publication. A task that ends well is cleaned up; the finalizer
\* publishes after the clean-up.
Finish ==
    /\ stage = "announce"
    /\ \/ /\ Publish(row) /\ stage' = "over"
          /\ latest' = IF attempt = 3 THEN Kept(row) ELSE NoEntry
          /\ UNCHANGED <<attempt, final, faults>>
       \/ Fault /\ Fails
    /\ UNCHANGED <<row, cancel, postVars, clientVars>>

(***************************************************************************)
(* The subscribers                                                         *)
(***************************************************************************)
Leave(s) ==
    /\ subs' = subs \ {s} /\ queue' = [queue EXCEPT ![s] = <<>>]
    /\ client' = [client EXCEPT ![s] = "left"]

\* stream: first the subscription ...
Subscribe(s) ==
    /\ client[s] = "off"
    /\ subs' = subs \cup {s}
    /\ client' = [client EXCEPT ![s] = IF s \in Everything THEN "waits" ELSE "first"]
    /\ UNCHANGED <<taskVars, postVars, hubVars, faults>>

\* Plausible bug: the reader of the stream looks for the end in later entries only.
FirstUnchecked(s) ==
    /\ client[s] = "first" /\ client' = [client EXCEPT ![s] = "waits"]
    /\ UNCHANGED <<taskVars, postVars, hubVars, subs, faults>>

\* ... then the present state. A terminal one ends the response (_sse_response)
\* and the wait of the monitor; an exception ends both.
First(s) ==
    /\ client[s] = "first"
    /\ \/ /\ row.status \notin Terminal
          /\ client' = [client EXCEPT ![s] = "waits"]
          /\ UNCHANGED <<subs, queue>>
       \/ row.status \in Terminal /\ Leave(s)
    /\ UNCHANGED <<taskVars, postVars, latest, faults>>

FirstFails(s) ==
    /\ client[s] = "first" /\ Fault /\ Leave(s)
    /\ UNCHANGED <<taskVars, postVars, latest>>

\* An entry arrives; a terminal one ends the stream of a job.
Receive(s) ==
    /\ client[s] = "waits" /\ queue[s] # <<>>
    /\ \/ /\ Head(queue[s]).status \in Terminal /\ s \notin Everything
          /\ Leave(s)
       \/ /\ Head(queue[s]).status \notin Terminal \/ s \in Everything
          /\ queue' = [queue EXCEPT ![s] = Tail(@)]
          /\ UNCHANGED <<subs, client>>
    /\ UNCHANGED <<taskVars, postVars, latest, faults>>

\* The browser disconnects, or the monitor is stopped.
Disconnect(s) ==
    /\ client[s] \in {"first", "waits"} /\ Leave(s)
    /\ UNCHANGED <<taskVars, postVars, latest, faults>>

Next ==
    \/ Mark \/ ClientFails \/ Cancel \/ Gathered \/ Rescored \/ Commit \/ Finish
    \/ \E e \in Post : Enter(e) \/ Write(e) \/ Read(e) \/ Tell(e) \/ CallbackFails(e)
    \/ \E e \in Post, ok \in BOOLEAN : Collected(e, ok)
    \/ \E s \in Client : Subscribe(s) \/ First(s) \/ FirstFails(s) \/ Receive(s) \/ Disconnect(s)

Spec == Init /\ [][Next]_vars

\* The event loop runs every task that can go on, and a connected reader reads.
Fairness ==
    /\ WF_vars(Mark) /\ WF_vars(Gathered) /\ WF_vars(Rescored) /\ WF_vars(Commit)
    /\ WF_vars(Finish)
    /\ \A e \in Post : /\ WF_vars(Enter(e)) /\ WF_vars(\E ok \in BOOLEAN : Collected(e, ok))
                       /\ WF_vars(Write(e)) /\ WF_vars(Read(e)) /\ WF_vars(Tell(e))
    /\ \A s \in Client : WF_vars(First(s)) /\ WF_vars(Receive(s))

FairSpec == Spec /\ Fairness

(***************************************************************************)
(* Properties                                                              *)
(***************************************************************************)
TypeOK ==
    /\ row \in Entry /\ cancel \in BOOLEAN
    /\ final \in Terminal
    /\ stage \in {"mark", "gather", "rescore", "end", "announce", "over"}
    /\ attempt \in 0..4
    /\ post \in [Post -> {"waiting", "inside", "skipped", "write", "read", "publish", "done"}]
    /\ count \in Counters /\ args \in [Post -> Counters]
    /\ snap \in [Post -> Entry \cup {NoEntry}]
    /\ subs \in SUBSET Client /\ latest \in Entry \cup {NoEntry}
    /\ client \in [Client -> {"off", "first", "waits", "left"}]
    /\ faults \in 0..MaxFaults /\ reordered \in BOOLEAN
    /\ queue \in [Client -> Seq(Entry)] /\ \A s \in Client : Len(queue[s]) <= QueueSize

Lost == stage = "over" /\ attempt = 4   \* even the finalizer could not publish

\* Nobody sleeps past the end: once the job is over, a subscriber of its channel
\* still has the terminal entry before it, however slow it reads and whenever it
\* subscribed, and even if two publications failed (jobs.py:96-100, 203-213).
EndIsHeard ==
    stage = "over" /\ ~Lost =>
        \A s \in Client \ Everything :
            client[s] = "waits" =>
                queue[s] # <<>> /\ queue[s][Len(queue[s])].status \in Terminal

\* A completed collection has counted every post, unless a callback failed or an
\* older write of the counters landed after a newer one.
CompletedCounts ==
    row.status = "completed" /\ faults = 0 /\ ~reordered =>
        /\ row.c.done = Cardinality(Post)
        /\ row.c.succeeded + row.c.failed = row.c.done

\* The hub keeps no progress of a job that is over, also when the finalizer
\* publishes after the clean-up (jobs.py:599-602).
NoCacheLeft == stage = "over" => latest = NoEntry

\* Every subscriber of the job's channel ends by itself, with up to two failing
\* accesses; so no cycle of the monitor is its last (monitor.py:133).
SubscribersEnd ==
    \A s \in Client \ Everything : client[s] = "first" ~> client[s] = "left"

=============================================================================
