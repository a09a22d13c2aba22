----------------------------- MODULE JobPromise -----------------------------
(***************************************************************************)
(* What the deletions of a server look like from outside, without requests,*)
(* locks, tasks or finalizers: the status of each and which one is at work.*)
(* JobLifecycle implements it with abstract work, DeleteJob with abstract  *)
(* tasks, so that neither lets a deletion open, begin or end elsewhere.    *)
(***************************************************************************)
CONSTANT Job

VARIABLES
    state,      \* the status of each deletion
    at_work     \* the deletions that a task is working for

promiseVars == <<state, at_work>>

Busy == \E j \in Job : state[j] \in {"pending", "running"}

Becomes(j, s) == state' = [state EXCEPT ![j] = s]

PromiseInit ==
    /\ state = [j \in Job |-> "absent"]
    /\ at_work = {}

\* A deletion is made, or a paused one goes on, only when no other is pending or
\* running; its task starts at once or later.
Create(j) ==
    /\ ~Busy /\ state[j] = "absent"
    /\ Becomes(j, "pending") /\ at_work' \in {{}, {j}}

Resume(j) ==
    /\ ~Busy /\ state[j] = "paused"
    /\ Becomes(j, "running") /\ at_work' \in {{}, {j}}

\* No task starts while another is at work.
Launch(j) ==
    /\ at_work = {} /\ state[j] \in {"pending", "running"}
    /\ at_work' = {j} /\ UNCHANGED state

Begin(j) ==
    /\ at_work = {j} /\ state[j] \in {"pending", "running"}
    /\ Becomes(j, "running") /\ UNCHANGED at_work

End(j) ==
    /\ at_work = {j} /\ state[j] = "running"
    /\ \E s \in {"paused", "completed", "cancelled"} : Becomes(j, s)
    /\ at_work' = {}

\* The work ends without a word.
GiveUp == at_work' = {} /\ UNCHANGED state

\* A deletion fails: at work, or later, when its end cannot be told.
Fail(j) ==
    /\ state[j] # "absent"
    /\ Becomes(j, "failed") /\ at_work' = at_work \ {j}

\* The process ends or starts again: nothing is at work, what ran is paused.
Interrupt ==
    /\ state' = [j \in Job |-> IF state[j] = "running" THEN "paused" ELSE state[j]]
    /\ at_work' = {}

PromiseNext ==
    \/ \E j \in Job : Create(j) \/ Resume(j) \/ Launch(j) \/ Begin(j) \/ End(j) \/ Fail(j)
    \/ GiveUp \/ Interrupt

PromiseSpec == PromiseInit /\ [][PromiseNext]_promiseVars

\* One deletion at most is pending or running (jobs.py:554-568).
OneOpen ==
    \A j, k \in Job :
        {state[j], state[k]} \subseteq {"pending", "running"} => j = k

\* A task works only for a deletion that is pending or running (jobs.py:506-511).
OnlyOpenWork == at_work \subseteq {j \in Job : state[j] \in {"pending", "running"}}
=============================================================================
