------------------------ MODULE CollectStreamProofs ------------------------
(***************************************************************************)
(* Theorems about CollectStream, for any posts, subscribers, semaphore,    *)
(* queue size and number of faults: the counters add up, the hub forgets a *)
(* job that is over, and nobody sleeps past its end.                       *)
(***************************************************************************)
EXTENDS CollectStream, FiniteSetTheorems, SequenceTheorems, TLAPS

(***************************************************************************)
(* The inductive invariant                                                 *)
(***************************************************************************)
\* The coroutines of the posts move only while the task gathers them.
Gathering == stage # "gather" => \A e \in Post : post[e] \in {"waiting", "done"}

\* A good end, on its way or stored, is that of a collection with every post done.
GoodEnds ==
    stage = "rescore" \/ final # "failed" \/ row.status = "completed"
        => \A e \in Post : post[e] = "done"

\* How often an end has been tried; a failed task is cleaned up before its finalizer
\* tries, so that nothing is left in the cache from then on.
Attempts ==
    /\ stage \in {"mark", "gather", "rescore"} => attempt = 0
    /\ stage \in {"end", "announce"} => attempt \in 1..3
    /\ attempt = 3 => latest = NoEntry
    /\ stage = "announce" => row.status = final
    /\ stage = "over" => latest = NoEntry /\ (attempt # 4 => row.status \in Terminal)

Counted == {e \in Post : post[e] \notin {"waiting", "inside", "skipped"}}

\* A sum that adds up.
Adds(c) == c.succeeded + c.failed = c.done

\* The shared counters are about the posts that have been read, and the callback of
\* the last one carries them.
Counting ==
    /\ count.done = Cardinality(Counted) /\ Adds(count)
    /\ Adds(row.c) /\ \A e \in Post : Adds(args[e])
    /\ count.done # 0 => \E e \in Counted : args[e].done = count.done

\* In order, the row is not behind any callback that has written it.
InOrder ==
    faults = 0 /\ ~reordered =>
        \A e \in Post : post[e] \in {"read", "publish", "done"} => args[e].done <= row.c.done

Reading == \A e \in Post : post[e] = "publish" => snap[e] \in Entry

\* Who waits for entries, or is about to, is a subscriber of the hub.
Subscribed == \A s \in Client : client[s] \in {"first", "waits"} => s \in subs

\* The end is the last thing in a queue.
Hears(q) == q # <<>> /\ q[Len(q)].status \in Terminal

Heard == stage = "over" /\ attempt # 4 =>
             \A s \in Client \ Everything : client[s] = "waits" => Hears(queue[s])

StreamInv ==
    /\ TypeOK /\ Gathering /\ GoodEnds /\ Attempts /\ Counting /\ InOrder /\ Reading
    /\ Subscribed /\ Heard

(***************************************************************************)
(* What the helpers of the actions do                                      *)
(***************************************************************************)
LEMMA EntryParts ==
  ASSUME NEW x \in Entry
  PROVE  /\ x.status \in Terminal \cup {"pending", "running"} /\ x.c \in Counters
         /\ \A s \in Terminal \cup {"pending", "running"} :
                /\ [x EXCEPT !.status = s] \in Entry
                /\ [x EXCEPT !.status = s].status = s /\ [x EXCEPT !.status = s].c = x.c
         /\ \A c \in Counters :
                /\ [x EXCEPT !.c = c] \in Entry
                /\ [x EXCEPT !.c = c].status = x.status /\ [x EXCEPT !.c = c].c = c
         /\ Kept(x) \in Entry \cup {NoEntry}
  BY DEF Entry, Kept

\* A queue that is not over its limit stays so, and ends with what was put.
LEMMA PutFacts ==
  ASSUME NEW q \in Seq(Entry), Len(q) <= QueueSize, NEW x \in Entry
  PROVE  /\ Put(q, x) \in Seq(Entry) /\ Len(Put(q, x)) <= QueueSize
         /\ Put(q, x) # <<>> /\ Put(q, x)[Len(Put(q, x))] = x
<1>. DEFINE h == IF Len(q) = QueueSize THEN Tail(q) ELSE q
<1>1. h \in Seq(Entry) /\ Len(h) \in Nat /\ Len(h) + 1 <= QueueSize
  <2>1. CASE Len(q) = QueueSize
    <3>1. q # <<>>
      BY <2>1, StreamAssumption, EmptySeq
    <3>2. Tail(q) \in Seq(Entry) /\ Len(Tail(q)) = Len(q) - 1
      BY <3>1, HeadTailProperties
    <3>. QED BY <2>1, <3>2, LenProperties, StreamAssumption
  <2>2. CASE Len(q) # QueueSize
    BY <2>2, LenProperties, StreamAssumption
  <2>. QED BY <2>1, <2>2
<1>. HIDE DEF h
<1>2. /\ Append(h, x) \in Seq(Entry) /\ Len(Append(h, x)) = Len(h) + 1
      /\ Append(h, x)[Len(h) + 1] = x
  BY <1>1, AppendProperties
<1>3. Append(h, x) # <<>>
  BY <1>1, <1>2, EmptySeq
<1>4. Put(q, x) = Append(h, x)
  BY DEF Put, h
<1>. QED BY <1>1, <1>2, <1>3, <1>4

\* Reading an entry that is not the end leaves the end in the queue.
LEMMA TailHears ==
  ASSUME NEW q \in Seq(Entry), Hears(q), Head(q).status \notin Terminal
  PROVE  Hears(Tail(q))
<1>1. q # <<>> /\ Len(q) \in Nat /\ q[Len(q)].status \in Terminal
  BY LenProperties DEF Hears
<1>2. /\ Head(q) = q[1] /\ Tail(q) \in Seq(Entry) /\ Len(Tail(q)) = Len(q) - 1
      /\ \A i \in 1..Len(Tail(q)) : Tail(q)[i] = q[i + 1]
  BY <1>1, HeadTailProperties
<1>3. Len(q) # 0 /\ Len(q) # 1
  BY <1>1, <1>2, EmptySeq
<1>4. Len(Tail(q)) \in Nat \ {0} /\ Tail(q) # <<>>
  <2>1. Len(Tail(q)) \in Nat \ {0}
    BY <1>1, <1>2, <1>3
  <2>. QED BY <2>1, EmptySeq
<1>5. Tail(q)[Len(Tail(q))] = q[Len(q)]
  BY <1>1, <1>2, <1>4
<1>. QED BY <1>1, <1>4, <1>5 DEF Hears

\* A publication reaches every subscriber.
LEMMA PublishFacts ==
  ASSUME TypeOK, NEW x \in Entry, Publish(x)
  PROVE  /\ queue' \in [Client -> Seq(Entry)]
         /\ \A s \in Client : Len(queue'[s]) <= QueueSize
         /\ \A s \in subs : queue'[s] # <<>> /\ queue'[s][Len(queue'[s])] = x
<1>1. \A s \in Client : queue[s] \in Seq(Entry) /\ Len(queue[s]) <= QueueSize
  BY DEF TypeOK
<1>2. \A s \in Client : /\ Put(queue[s], x) \in Seq(Entry) /\ Len(Put(queue[s], x)) <= QueueSize
                        /\ Put(queue[s], x) # <<>>
                        /\ Put(queue[s], x)[Len(Put(queue[s], x))] = x
  BY <1>1, PutFacts
<1>3. \A s \in Client : queue'[s] = IF s \in subs THEN Put(queue[s], x) ELSE queue[s]
  BY DEF Publish
<1>4. queue' = [s \in Client |-> queue'[s]]
  BY DEF Publish
<1>5. subs \subseteq Client
  BY DEF TypeOK
<1>. QED BY <1>1, <1>2, <1>3, <1>4, <1>5

LEMMA LeaveFacts ==
  ASSUME TypeOK, NEW s \in Client, Leave(s)
  PROVE  /\ queue' \in [Client -> Seq(Entry)] /\ \A d \in Client : Len(queue'[d]) <= QueueSize
         /\ \A d \in Client : d # s => queue'[d] = queue[d] /\ client'[d] = client[d]
         /\ client'[s] = "left" /\ client' \in [Client -> {"off", "first", "waits", "left"}]
         /\ subs' = subs \ {s}
<1>1. <<>> \in Seq(Entry) /\ Len(<<>>) = 0
  BY EmptySeq
<1>2. queue \in [Client -> Seq(Entry)] /\ \A d \in Client : Len(queue[d]) <= QueueSize
  BY DEF TypeOK
<1>3. queue' = [queue EXCEPT ![s] = <<>>] /\ queue' \in [Client -> Seq(Entry)]
  BY <1>1, <1>2 DEF Leave
<1>4. \A d \in Client : Len(queue'[d]) <= QueueSize
  BY <1>1, <1>2, <1>3, StreamAssumption
<1>5. client' = [client EXCEPT ![s] = "left"] /\ client \in [Client -> {"off", "first", "waits", "left"}]
  BY DEF Leave, TypeOK
<1>. QED BY <1>2, <1>3, <1>4, <1>5 DEF Leave

\* As many posts are counted as there are at most.
LEMMA CountedBound ==
  /\ IsFiniteSet(Counted) /\ Cardinality(Counted) \in 0..Cardinality(Post)
  /\ Cardinality(Post) \in Nat
  /\ \A e \in Post : e \notin Counted =>
         /\ Cardinality(Counted \cup {e}) = Cardinality(Counted) + 1
         /\ Cardinality(Counted) + 1 \in 0..Cardinality(Post)
<1>1. IsFiniteSet(Post) /\ Cardinality(Post) \in Nat
  BY StreamAssumption, FS_CardinalityType
<1>2. \A T \in SUBSET Post : IsFiniteSet(T) /\ Cardinality(T) \in Nat /\ Cardinality(T) <= Cardinality(Post)
  BY <1>1, FS_Subset, FS_CardinalityType
<1>3. Counted \in SUBSET Post /\ \A e \in Post : Counted \cup {e} \in SUBSET Post
  BY DEF Counted
<1>4. IsFiniteSet(Counted) /\ Cardinality(Counted) \in Nat /\ Cardinality(Counted) <= Cardinality(Post)
  BY <1>2, <1>3
<1>5. ASSUME NEW e \in Post, e \notin Counted
      PROVE  /\ Cardinality(Counted \cup {e}) = Cardinality(Counted) + 1
             /\ Cardinality(Counted \cup {e}) <= Cardinality(Post)
  BY <1>2, <1>3, <1>4, <1>5, FS_AddElement
<1>. QED BY <1>1, <1>4, <1>5

\* What a callback takes with it when it counts its post.
LEMMA CollectedFacts ==
  ASSUME TypeOK, Counting, NEW e \in Post, NEW ok \in BOOLEAN, Collected(e, ok)
  PROVE  /\ post[e] \in {"inside", "skipped"} /\ post' = [post EXCEPT ![e] = "write"]
         /\ Counted' = Counted \cup {e} /\ e \notin Counted
         /\ count' \in Counters /\ Adds(count') /\ count'.done = Cardinality(Counted')
         /\ args' = [args EXCEPT ![e] = count'] /\ args'[e] = count'
<1>1. /\ count.done \in Nat /\ count.succeeded \in Nat /\ count.failed \in Nat
      /\ post \in [Post -> {"waiting", "inside", "skipped", "write", "read", "publish", "done"}]
      /\ args \in [Post -> Counters]
  BY CountedBound DEF TypeOK, Counters
<1>2. /\ post[e] \in {"inside", "skipped"} /\ post' = [post EXCEPT ![e] = "write"]
      /\ count' = [done |-> count.done + 1,
                   succeeded |-> count.succeeded + (IF ok THEN 1 ELSE 0),
                   failed |-> count.failed + (IF ok THEN 0 ELSE 1)]
      /\ args' = [args EXCEPT ![e] = count']
  BY DEF Collected
<1>3. Counted' = Counted \cup {e} /\ e \notin Counted
  BY <1>1, <1>2 DEF Counted
<1>4. count.done + 1 \in 0..Cardinality(Post) /\ count.done + 1 = Cardinality(Counted')
  BY <1>3, CountedBound DEF Counting
<1>5. /\ count'.done = count.done + 1 /\ Adds(count')
      /\ count'.succeeded \in Nat /\ count'.failed \in Nat
  <2>1. Adds(count)
    BY DEF Counting
  <2>2. CASE ok
    BY <1>1, <1>2, <2>1, <2>2 DEF Adds
  <2>3. CASE ~ok
    BY <1>1, <1>2, <2>1, <2>3 DEF Adds
  <2>. QED BY <2>2, <2>3
<1>6. count'.succeeded \in 0..Cardinality(Post) /\ count'.failed \in 0..Cardinality(Post)
  BY <1>4, <1>5, CountedBound DEF Adds
<1>7. count' \in Counters
  BY <1>2, <1>4, <1>5, <1>6 DEF Counters
<1>. QED BY <1>1, <1>2, <1>3, <1>4, <1>5, <1>7

(***************************************************************************)
(* The invariant holds initially                                           *)
(***************************************************************************)
LEMMA StreamInit == Init => StreamInv
<1>. SUFFICES ASSUME Init PROVE StreamInv
  OBVIOUS
<1>1. Cardinality(Post) \in Nat /\ MaxFaults \in Nat /\ QueueSize \in Nat
  BY CountedBound, StreamAssumption
<1>2. Zero \in Counters /\ Adds(Zero) /\ Zero.done = 0
  BY <1>1 DEF Zero, Counters, Adds
<1>3. row \in Entry /\ row.c = Zero /\ row.status = "pending"
  BY <1>2 DEF Init, Entry
<1>4. <<>> \in Seq(Entry) /\ Len(<<>>) = 0
  BY EmptySeq
<1>5. Counted = {}
  BY DEF Init, Counted
<1>6. Cardinality(Counted) = 0
  BY <1>5, FS_EmptySet
<1>7. TypeOK
  <2>1. /\ args \in [Post -> Counters] /\ snap \in [Post -> Entry \cup {NoEntry}]
        /\ post \in [Post -> {"waiting", "inside", "skipped", "write", "read", "publish", "done"}]
        /\ client \in [Client -> {"off", "first", "waits", "left"}]
    BY <1>2 DEF Init
  <2>2. queue \in [Client -> Seq(Entry)] /\ \A s \in Client : Len(queue[s]) <= QueueSize
    BY <1>1, <1>4 DEF Init
  <2>3. final \in Terminal /\ faults \in 0..MaxFaults
    BY <1>1 DEF Init, Terminal
  <2>4. /\ stage \in {"mark", "gather", "rescore", "end", "announce", "over"} /\ attempt \in 0..4
        /\ count \in Counters /\ subs \in SUBSET Client /\ latest \in Entry \cup {NoEntry}
    <3>1. stage = "mark" /\ attempt = 0 /\ count = Zero /\ subs = {} /\ latest = NoEntry
      BY DEF Init
    <3>. QED BY <1>2, <3>1
  <2>5. cancel \in BOOLEAN /\ reordered \in BOOLEAN
    BY DEF Init
  <2>. QED BY <1>3, <2>1, <2>2, <2>3, <2>4, <2>5 DEF TypeOK
<1>8. Counting
  BY <1>2, <1>3, <1>6 DEF Init, Counting
<1>9. Gathering /\ GoodEnds /\ Attempts /\ InOrder /\ Reading /\ Subscribed /\ Heard
  <2>1. Gathering /\ GoodEnds /\ Reading
    BY <1>3 DEF Init, Gathering, GoodEnds, Reading
  <2>2. Attempts /\ Subscribed /\ Heard
    BY DEF Init, Attempts, Subscribed, Heard
  <2>3. InOrder
    BY DEF Init, InOrder
  <2>. QED BY <2>1, <2>2, <2>3
<1>. QED BY <1>7, <1>8, <1>9 DEF StreamInv

(***************************************************************************)
(* Every step keeps the types                                              *)
(***************************************************************************)
LEMMA TypesTask ==
  ASSUME StreamInv,
         Mark \/ ClientFails \/ Cancel \/ Gathered \/ Rescored \/ Commit \/ Finish
  PROVE  TypeOK'
<1>. USE DEF taskVars, postVars, hubVars, clientVars
<1>1. TypeOK /\ Attempts
  BY DEF StreamInv
<1>2. row \in Entry /\ final \in Terminal /\ faults \in 0..MaxFaults /\ MaxFaults \in Nat
  BY <1>1, StreamAssumption DEF TypeOK
<1>3. Fault => faults' \in 0..MaxFaults
  BY <1>2 DEF Fault
<1>4. \A s \in Terminal \cup {"running"} : [row EXCEPT !.status = s] \in Entry
  BY <1>2, EntryParts
<1>5. \A x \in Entry : Kept(x) \in Entry \cup {NoEntry}
  BY EntryParts
<1>6. \A x \in Entry : Publish(x) =>
          queue' \in [Client -> Seq(Entry)] /\ \A s \in Client : Len(queue'[s]) <= QueueSize
  BY <1>1, PublishFacts
<1>7. CASE Mark
  <2>1. row' \in Entry
    BY <1>2, <1>4, <1>7 DEF Mark
  <2>2. CASE Publish(row') /\ latest' = Kept(row') /\ stage' = "gather"
             /\ UNCHANGED <<attempt, faults, final>>
    <3>1. UNCHANGED <<cancel, postVars, clientVars>>
      BY <1>7 DEF Mark
    <3>2. /\ queue' \in [Client -> Seq(Entry)] /\ \A s \in Client : Len(queue'[s]) <= QueueSize
          /\ latest' \in Entry \cup {NoEntry}
      BY <1>5, <1>6, <2>1, <2>2
    <3>. QED BY <1>1, <2>1, <2>2, <3>1, <3>2 DEF TypeOK
  <2>3. CASE Fault /\ attempt' = 2 /\ stage' = "end" /\ final' = "failed" /\ UNCHANGED hubVars
    <3>1. UNCHANGED <<cancel, postVars, clientVars>>
      BY <1>7 DEF Mark
    <3>. QED BY <1>1, <1>3, <2>1, <2>3, <3>1 DEF TypeOK, Terminal
  <2>. QED BY <1>7, <2>2, <2>3 DEF Mark
<1>8. CASE ClientFails
  BY <1>1, <1>3, <1>8 DEF ClientFails, TypeOK, Terminal
<1>9. CASE Cancel
  BY <1>1, <1>9 DEF Cancel, TypeOK
<1>10. CASE Gathered
  BY <1>1, <1>10 DEF Gathered, TypeOK
<1>11. CASE Rescored
  BY <1>1, <1>3, <1>11 DEF Rescored, TypeOK, Terminal
<1>12. ASSUME Fails, stage \in {"end", "announce"}
       PROVE  /\ attempt' \in 0..4 /\ final' \in Terminal /\ latest' \in Entry \cup {NoEntry}
              /\ stage' \in {"end", "over"} /\ queue' = queue
  BY <1>1, <1>12 DEF Fails, TypeOK, Attempts, Terminal
<1>13. CASE Commit
  <2>1. row' \in Entry /\ stage = "end"
    BY <1>2, <1>4, <1>13 DEF Commit
  <2>2. CASE Fault /\ Fails
    BY <1>1, <1>3, <1>12, <1>13, <2>1, <2>2 DEF Commit, TypeOK
  <2>3. CASE stage' = "announce" /\ UNCHANGED <<attempt, final, faults, hubVars>>
    BY <1>1, <1>13, <2>1, <2>3 DEF Commit, TypeOK
  <2>. QED BY <1>13, <2>2, <2>3 DEF Commit
<1>14. CASE Finish
  <2>1. stage = "announce" /\ UNCHANGED <<row, cancel, postVars, clientVars>>
    BY <1>14 DEF Finish
  <2>2. CASE Fault /\ Fails
    BY <1>1, <1>3, <1>12, <2>1, <2>2 DEF TypeOK
  <2>3. CASE /\ Publish(row) /\ stage' = "over" /\ UNCHANGED <<attempt, final, faults>>
             /\ latest' = IF attempt = 3 THEN Kept(row) ELSE NoEntry
    BY <1>1, <1>2, <1>5, <1>6, <2>1, <2>3 DEF TypeOK
  <2>. QED BY <1>14, <2>2, <2>3 DEF Finish
<1>. QED BY <1>7, <1>8, <1>9, <1>10, <1>11, <1>13, <1>14

LEMMA TypesPost ==
  ASSUME StreamInv, NEW e \in Post,
         \/ Enter(e) \/ Write(e) \/ Read(e) \/ Tell(e) \/ CallbackFails(e)
         \/ \E ok \in BOOLEAN : Collected(e, ok)
  PROVE  TypeOK'
<1>. USE DEF taskVars, postVars, hubVars, clientVars
<1>1. TypeOK /\ Counting /\ Reading
  BY DEF StreamInv
<1>2. row \in Entry /\ args[e] \in Counters /\ faults \in 0..MaxFaults /\ MaxFaults \in Nat
  BY <1>1, StreamAssumption DEF TypeOK
<1>3. CASE Enter(e)
  BY <1>1, <1>3 DEF Enter, TypeOK
<1>4. CASE Write(e)
  <2>1. row' \in Entry
    BY <1>2, <1>4, EntryParts DEF Write
  <2>. QED BY <1>1, <1>4, <2>1 DEF Write, TypeOK
<1>5. CASE Read(e)
  BY <1>1, <1>2, <1>5 DEF Read, TypeOK
<1>6. CASE Tell(e)
  <2>1. snap[e] \in Entry
    BY <1>1, <1>6 DEF Tell, Reading
  <2>2. /\ queue' \in [Client -> Seq(Entry)] /\ \A s \in Client : Len(queue'[s]) <= QueueSize
        /\ latest' \in Entry \cup {NoEntry}
    BY <1>1, <1>6, <2>1, PublishFacts, EntryParts DEF Tell
  <2>. QED BY <1>1, <1>6, <2>2 DEF Tell, TypeOK
<1>7. CASE CallbackFails(e)
  <2>1. faults' \in 0..MaxFaults
    BY <1>2, <1>7 DEF CallbackFails, Fault
  <2>. QED BY <1>1, <1>7, <2>1 DEF CallbackFails, TypeOK
<1>8. ASSUME NEW ok \in BOOLEAN, Collected(e, ok) PROVE TypeOK'
  <2>1. /\ count' \in Counters /\ post' = [post EXCEPT ![e] = "write"]
        /\ args' = [args EXCEPT ![e] = count']
    BY <1>1, <1>8, CollectedFacts
  <2>2. UNCHANGED <<taskVars, snap, reordered, hubVars, clientVars, faults>>
    BY <1>8 DEF Collected
  <2>. QED BY <1>1, <2>1, <2>2 DEF TypeOK
<1>. QED BY <1>3, <1>4, <1>5, <1>6, <1>7, <1>8

LEMMA TypesClient ==
  ASSUME StreamInv, NEW s \in Client,
         Subscribe(s) \/ First(s) \/ FirstFails(s) \/ Receive(s) \/ Disconnect(s)
  PROVE  TypeOK'
<1>. USE DEF taskVars, postVars, hubVars
<1>1. TypeOK
  BY DEF StreamInv
<1>2. /\ UNCHANGED <<taskVars, postVars, latest>> /\ faults' \in 0..MaxFaults
      /\ row' \in Entry
  <2>1. faults \in 0..MaxFaults /\ MaxFaults \in Nat /\ row \in Entry
    BY <1>1, StreamAssumption DEF TypeOK
  <2>. QED BY <2>1 DEF Subscribe, First, FirstFails, Receive, Disconnect, Fault, hubVars
<1>3. /\ subs' \in SUBSET Client /\ client' \in [Client -> {"off", "first", "waits", "left"}]
      /\ queue' \in [Client -> Seq(Entry)] /\ \A d \in Client : Len(queue'[d]) <= QueueSize
  <2>1. CASE Leave(s)
    <3>1. subs \subseteq Client
      BY <1>1 DEF TypeOK
    <3>. QED BY <1>1, <2>1, <3>1, LeaveFacts
  <2>2. CASE Subscribe(s)
    BY <1>1, <2>2 DEF Subscribe, TypeOK, hubVars
  <2>3. CASE First(s) /\ ~Leave(s)
    BY <1>1, <2>3 DEF First, TypeOK
  <2>4. CASE Receive(s) /\ ~Leave(s)
    <3>1. queue[s] \in Seq(Entry) /\ queue[s] # <<>> /\ Len(queue[s]) <= QueueSize
      BY <1>1, <2>4 DEF TypeOK, Receive
    <3>2. Tail(queue[s]) \in Seq(Entry) /\ Len(Tail(queue[s])) <= QueueSize
      <4>1. Tail(queue[s]) \in Seq(Entry) /\ Len(Tail(queue[s])) = Len(queue[s]) - 1
        BY <3>1, HeadTailProperties
      <4>. QED BY <3>1, <4>1, LenProperties, StreamAssumption
    <3>3. queue' = [queue EXCEPT ![s] = Tail(@)] /\ UNCHANGED <<subs, client>>
      BY <2>4 DEF Receive
    <3>. QED BY <1>1, <3>2, <3>3 DEF TypeOK
  <2>. QED BY <2>1, <2>2, <2>3, <2>4 DEF FirstFails, Disconnect
<1>. QED BY <1>1, <1>2, <1>3 DEF TypeOK

(***************************************************************************)
(* Every step keeps what relates the task, the posts and the cache         *)
(***************************************************************************)
LEMMA TaskStep ==
  ASSUME StreamInv, Next
  PROVE  Gathering' /\ GoodEnds' /\ Attempts'
<1>. USE DEF taskVars, postVars, hubVars, clientVars
<1>1. TypeOK /\ Gathering /\ GoodEnds /\ Attempts /\ Reading
  BY DEF StreamInv
<1>2. row \in Entry
  BY <1>1 DEF TypeOK
<1>3. \A s \in Terminal \cup {"running"} : [row EXCEPT !.status = s].status = s
  BY <1>2, EntryParts
<1>4. Kept(row) = IF row.status \in Terminal THEN NoEntry ELSE row
  BY DEF Kept
<1>5. CASE Mark
  <2>1. stage = "mark" /\ attempt = 0 /\ UNCHANGED <<cancel, postVars, clientVars>>
    BY <1>1, <1>5 DEF Mark, Attempts
  <2>2. row'.status \in {row.status, "running"}
    BY <1>3, <1>5 DEF Mark
  <2>3. \/ stage' = "gather" /\ attempt' = 0 /\ final' = final
        \/ stage' = "end" /\ attempt' = 2 /\ final' = "failed"
    BY <1>5, <2>1 DEF Mark
  <2>4. \A e \in Post : post[e] \in {"waiting", "done"}
    BY <1>1, <2>1 DEF Gathering
  <2>5. Gathering'
    BY <2>1, <2>4 DEF Gathering
  <2>6. GoodEnds'
    BY <1>1, <2>1, <2>2, <2>3 DEF GoodEnds
  <2>7. Attempts'
    BY <2>3 DEF Attempts
  <2>. QED BY <2>5, <2>6, <2>7
<1>6. CASE ClientFails
  <2>1. /\ stage = "gather" /\ \A e \in Post : post[e] = "waiting"
        /\ attempt' = 2 /\ stage' = "end" /\ final' = "failed" /\ row' = row /\ post' = post
    BY <1>6 DEF ClientFails
  <2>. QED BY <1>1, <2>1 DEF Gathering, GoodEnds, Attempts
<1>7. CASE Cancel
  BY <1>1, <1>7 DEF Cancel, Gathering, GoodEnds, Attempts
<1>8. CASE Gathered
  BY <1>1, <1>8 DEF Gathered, Gathering, GoodEnds, Attempts
<1>9. CASE Rescored
  <2>1. /\ stage = "rescore" /\ stage' = "end" /\ attempt' \in 1..2 /\ UNCHANGED <<row, post>>
    BY <1>9 DEF Rescored
  <2>. QED BY <1>1, <2>1 DEF Gathering, GoodEnds, Attempts
<1>10. ASSUME Fails, stage \in {"end", "announce"}, row' = row, post' = post
       PROVE  Gathering' /\ GoodEnds' /\ Attempts'
  <2>1. /\ attempt \in 1..3 /\ attempt' = attempt + 1 /\ final' = "failed"
        /\ stage' = IF attempt = 3 THEN "over" ELSE "end"
        /\ latest' = IF attempt = 2 THEN NoEntry ELSE latest
    BY <1>1, <1>10 DEF Fails, Attempts
  <2>2. Gathering' /\ GoodEnds'
    BY <1>1, <1>10, <2>1 DEF Gathering, GoodEnds
  <2>3. Attempts'
    BY <1>1, <1>10, <2>1 DEF Attempts
  <2>. QED BY <2>2, <2>3
<1>11. CASE Commit
  <2>1. stage = "end" /\ post' = post
    BY <1>11 DEF Commit
  <2>2. CASE Fails /\ row' = row
    BY <1>10, <2>1, <2>2
  <2>3. CASE /\ row' = [row EXCEPT !.status = final] /\ stage' = "announce"
             /\ UNCHANGED <<attempt, final, latest>>
    <3>1. row'.status = final
      BY <1>1, <1>3, <2>3 DEF TypeOK
    <3>2. Attempts'
      BY <1>1, <2>1, <2>3, <3>1 DEF Attempts
    <3>3. GoodEnds'
      BY <1>1, <2>1, <2>3, <3>1 DEF GoodEnds
    <3>4. Gathering'
      BY <1>1, <2>1 DEF Gathering
    <3>. QED BY <3>2, <3>3, <3>4
  <2>. QED BY <1>11, <2>2, <2>3 DEF Commit
<1>12. CASE Finish
  <2>1. stage = "announce" /\ UNCHANGED <<row, post>>
    BY <1>12 DEF Finish
  <2>2. CASE Fails
    BY <1>10, <2>1, <2>2
  <2>3. CASE /\ stage' = "over" /\ UNCHANGED <<attempt, final>>
             /\ latest' = IF attempt = 3 THEN Kept(row) ELSE NoEntry
    <3>1. row.status \in Terminal /\ latest' = NoEntry /\ attempt \in 1..3
      BY <1>1, <1>4, <2>1, <2>3 DEF TypeOK, Attempts
    <3>. QED BY <1>1, <2>1, <2>3, <3>1 DEF Gathering, GoodEnds, Attempts
  <2>. QED BY <1>12, <2>2, <2>3 DEF Finish
<1>13. ASSUME NEW e \in Post,
              \/ Enter(e) \/ Write(e) \/ Read(e) \/ Tell(e) \/ CallbackFails(e)
              \/ \E ok \in BOOLEAN : Collected(e, ok)
       PROVE  Gathering' /\ GoodEnds' /\ Attempts'
  <2>1. stage = "gather"
    <3>1. post[e] = "waiting" => stage = "gather"
      BY <1>13 DEF Enter, Write, Read, Tell, CallbackFails, Collected
    <3>2. post[e] # "done"
      BY <1>13 DEF Enter, Write, Read, Tell, CallbackFails, Collected
    <3>. QED BY <1>1, <3>1, <3>2 DEF Gathering
  <2>2. /\ UNCHANGED <<stage, final, attempt>> /\ post[e] # "done"
        /\ row' = row \/ row' = [row EXCEPT !.c = args[e]]
    BY <1>13 DEF Enter, Write, Read, Tell, CallbackFails, Collected
  <2>3. row'.status = row.status
    <3>1. args[e] \in Counters
      BY <1>1 DEF TypeOK
    <3>2. [row EXCEPT !.c = args[e]].status = row.status
      BY <1>2, <3>1, EntryParts
    <3>. QED BY <2>2, <3>2
  <2>. QED BY <1>1, <2>1, <2>2, <2>3 DEF Gathering, GoodEnds, Attempts
<1>14. ASSUME NEW s \in Client,
              Subscribe(s) \/ First(s) \/ FirstFails(s) \/ Receive(s) \/ Disconnect(s)
       PROVE  Gathering' /\ GoodEnds' /\ Attempts'
  <2>1. UNCHANGED <<row, stage, final, attempt, post, latest>>
    BY <1>14 DEF Subscribe, First, FirstFails, Receive, Disconnect
  <2>. QED BY <1>1, <2>1 DEF Gathering, GoodEnds, Attempts
<1>. QED BY <1>5, <1>6, <1>7, <1>8, <1>9, <1>11, <1>12, <1>13, <1>14 DEF Next

(***************************************************************************)
(* Every step keeps what relates the counters, the callbacks and the row   *)
(***************************************************************************)
\* A fault leaves nothing to be said about the order.
LEMMA FaultsCount ==
  ASSUME TypeOK
  PROVE  faults \in Nat /\ (Fault => faults' # 0)
BY StreamAssumption DEF TypeOK, Fault

LEMMA CountsElsewhere ==
  ASSUME StreamInv, UNCHANGED <<post, count, args, reordered>>,
         row'.c = row.c, faults' = 0 => faults = 0,
         snap' = snap
  PROVE  Counting' /\ InOrder' /\ Reading'
BY DEF StreamInv, Counting, InOrder, Reading, Counted, Adds

LEMMA CountsPost ==
  ASSUME StreamInv, NEW e \in Post,
         \/ Enter(e) \/ Write(e) \/ Read(e) \/ Tell(e) \/ CallbackFails(e)
         \/ \E ok \in BOOLEAN : Collected(e, ok)
  PROVE  Counting' /\ InOrder' /\ Reading'
<1>. USE DEF taskVars, postVars, hubVars, clientVars
<1>1. TypeOK /\ Counting /\ InOrder /\ Reading
  BY DEF StreamInv
<1>2. /\ row \in Entry /\ args \in [Post -> Counters] /\ row.c \in Counters
      /\ post \in [Post -> {"waiting", "inside", "skipped", "write", "read", "publish", "done"}]
      /\ snap \in [Post -> Entry \cup {NoEntry}]
  BY <1>1, EntryParts DEF TypeOK
<1>3. /\ row.c.done \in Nat /\ \A f \in Post : args[f].done \in Nat
  BY <1>2, CountedBound DEF Counters
<1>4. ASSUME NEW p \in {"inside", "skipped", "read", "publish", "done"},
             post' = [post EXCEPT ![e] = p], post[e] \notin {"inside", "skipped"},
             p \in {"inside", "skipped"} <=> post[e] = "waiting"
      PROVE  Counted' = Counted
  BY <1>2, <1>4 DEF Counted
<1>5. CASE Enter(e)
  <2>1. /\ post[e] = "waiting"
        /\ \E p \in {"inside", "skipped"} : post' = [post EXCEPT ![e] = p]
        /\ UNCHANGED <<row, count, args, snap, reordered, faults>>
    BY <1>5 DEF Enter
  <2>2. Counted' = Counted
    BY <1>4, <2>1
  <2>3. Counting'
    BY <1>1, <2>1, <2>2 DEF Counting, Adds
  <2>4. InOrder' /\ Reading'
    BY <1>1, <1>2, <2>1 DEF InOrder, Reading
  <2>. QED BY <2>3, <2>4
<1>6. CASE Write(e)
  <2>1. /\ post' = [post EXCEPT ![e] = "read"] /\ post[e] = "write"
        /\ row' = [row EXCEPT !.c = args[e]]
        /\ reordered' = (reordered \/ row.c.done > args[e].done)
        /\ UNCHANGED <<count, args, snap, faults>>
    BY <1>6 DEF Write
  <2>2. Counted' = Counted
    BY <1>4, <2>1
  <2>3. row'.c = args[e]
    BY <1>2, <2>1, EntryParts
  <2>4. Counting'
    BY <1>1, <2>1, <2>2, <2>3 DEF Counting, Adds
  <2>5. ASSUME faults' = 0, ~reordered', NEW f \in Post, post'[f] \in {"read", "publish", "done"}
        PROVE  args'[f].done <= row'.c.done
    <3>1. faults = 0 /\ ~reordered /\ ~(row.c.done > args[e].done)
      BY <2>1, <2>5
    <3>2. row.c.done <= args[e].done
      BY <1>3, <3>1
    <3>3. f # e => args[f].done <= row.c.done
      BY <1>1, <1>2, <2>1, <2>5, <3>1 DEF InOrder
    <3>4. args'[f] = args[f]
      BY <2>1
    <3>. QED BY <1>3, <2>3, <3>2, <3>3, <3>4
  <2>6. InOrder'
    BY <2>5 DEF InOrder
  <2>7. Reading'
    BY <1>1, <1>2, <2>1 DEF Reading
  <2>. QED BY <2>4, <2>6, <2>7
<1>7. CASE Read(e)
  <2>1. /\ post' = [post EXCEPT ![e] = "publish"] /\ post[e] = "read"
        /\ snap' = [snap EXCEPT ![e] = row] /\ UNCHANGED <<row, count, args, reordered, faults>>
    BY <1>7 DEF Read
  <2>2. Counted' = Counted
    BY <1>4, <2>1
  <2>3. Counting'
    BY <1>1, <2>1, <2>2 DEF Counting, Adds
  <2>4. InOrder'
    BY <1>1, <1>2, <2>1 DEF InOrder
  <2>5. Reading'
    BY <1>1, <1>2, <2>1 DEF Reading
  <2>. QED BY <2>3, <2>4, <2>5
<1>8. CASE Tell(e)
  <2>1. /\ post' = [post EXCEPT ![e] = "done"] /\ post[e] = "publish"
        /\ snap' = [snap EXCEPT ![e] = NoEntry] /\ UNCHANGED <<row, count, args, reordered, faults>>
    BY <1>8 DEF Tell
  <2>2. Counted' = Counted
    BY <1>4, <2>1
  <2>3. Counting'
    BY <1>1, <2>1, <2>2 DEF Counting, Adds
  <2>4. InOrder'
    BY <1>1, <1>2, <2>1 DEF InOrder
  <2>5. Reading'
    BY <1>1, <1>2, <2>1 DEF Reading
  <2>. QED BY <2>3, <2>4, <2>5
<1>9. CASE CallbackFails(e)
  <2>1. /\ post' = [post EXCEPT ![e] = "done"] /\ post[e] \in {"write", "read"} /\ Fault
        /\ UNCHANGED <<row, count, args, snap, reordered>>
    BY <1>9 DEF CallbackFails
  <2>2. Counted' = Counted
    BY <1>4, <2>1
  <2>3. Counting'
    BY <1>1, <2>1, <2>2 DEF Counting, Adds
  <2>4. InOrder'
    BY <1>1, <2>1, FaultsCount DEF InOrder
  <2>5. Reading'
    BY <1>1, <1>2, <2>1 DEF Reading
  <2>. QED BY <2>3, <2>4, <2>5
<1>10. ASSUME NEW ok \in BOOLEAN, Collected(e, ok)
       PROVE  Counting' /\ InOrder' /\ Reading'
  <2>1. /\ post' = [post EXCEPT ![e] = "write"]
        /\ Counted' = Counted \cup {e} /\ Adds(count') /\ count'.done = Cardinality(Counted')
        /\ args' = [args EXCEPT ![e] = count'] /\ args'[e] = count'
    BY <1>1, <1>10, CollectedFacts
  <2>2. UNCHANGED <<row, snap, reordered, faults>>
    BY <1>10 DEF Collected
  <2>3. Adds(row'.c) /\ \A f \in Post : Adds(args'[f])
    BY <1>1, <1>2, <2>1, <2>2 DEF Counting
  <2>4. Counting'
    BY <2>1, <2>3 DEF Counting, Adds
  <2>5. InOrder' /\ Reading'
    BY <1>1, <1>2, <2>1, <2>2 DEF InOrder, Reading
  <2>. QED BY <2>4, <2>5
<1>. QED BY <1>5, <1>6, <1>7, <1>8, <1>9, <1>10

LEMMA CountsStep ==
  ASSUME StreamInv, Next
  PROVE  Counting' /\ InOrder' /\ Reading'
<1>. USE DEF taskVars, postVars, hubVars, clientVars
<1>1. TypeOK /\ row \in Entry
  BY DEF StreamInv, TypeOK
<1>2. [row EXCEPT !.status = "running"].c = row.c /\ [row EXCEPT !.status = final].c = row.c
  BY <1>1 DEF Entry
<1>3. ASSUME Mark \/ ClientFails \/ Cancel \/ Gathered \/ Rescored \/ Commit \/ Finish
      PROVE  Counting' /\ InOrder' /\ Reading'
  <2>1. UNCHANGED postVars
    BY <1>3 DEF Mark, ClientFails, Cancel, Gathered, Rescored, Commit, Finish
  <2>2. faults' = faults \/ Fault
    BY <1>3 DEF Mark, ClientFails, Cancel, Gathered, Rescored, Commit, Finish
  <2>3. \/ row' = row \/ row' = [row EXCEPT !.status = "running"]
        \/ row' = [row EXCEPT !.status = final]
    BY <1>3 DEF Mark, ClientFails, Cancel, Gathered, Rescored, Commit, Finish
  <2>4. row'.c = row.c
    BY <1>2, <2>3
  <2>. QED BY <1>1, <2>1, <2>2, <2>4, FaultsCount, CountsElsewhere
<1>4. ASSUME NEW s \in Client,
             Subscribe(s) \/ First(s) \/ FirstFails(s) \/ Receive(s) \/ Disconnect(s)
      PROVE  Counting' /\ InOrder' /\ Reading'
  <2>1. UNCHANGED <<row, postVars>> /\ (faults' = faults \/ Fault)
    BY <1>4 DEF Subscribe, First, FirstFails, Receive, Disconnect
  <2>. QED BY <1>1, <2>1, FaultsCount, CountsElsewhere
<1>. QED BY <1>3, <1>4, CountsPost DEF Next

(***************************************************************************)
(* Every step keeps what relates the hub, the subscribers and the end      *)
(***************************************************************************)
LEMMA SubscribedStep ==
  ASSUME StreamInv, Next
  PROVE  Subscribed'
<1>. USE DEF clientVars
<1>1. TypeOK /\ Subscribed /\ client \in [Client -> {"off", "first", "waits", "left"}]
  BY DEF StreamInv, TypeOK
<1>2. CASE UNCHANGED clientVars
  BY <1>1, <1>2 DEF Subscribed
<1>3. ASSUME NEW s \in Client,
             Subscribe(s) \/ First(s) \/ FirstFails(s) \/ Receive(s) \/ Disconnect(s)
      PROVE  Subscribed'
  <2>1. CASE Leave(s)
    BY <1>1, <2>1, LeaveFacts DEF Subscribed
  <2>2. CASE Subscribe(s)
    BY <1>1, <2>2 DEF Subscribe, Subscribed
  <2>3. CASE First(s) /\ ~Leave(s)
    BY <1>1, <2>3 DEF First, Subscribed
  <2>4. CASE Receive(s) /\ ~Leave(s)
    BY <1>1, <1>2, <2>4 DEF Receive
  <2>. QED BY <1>3, <2>1, <2>2, <2>3, <2>4 DEF FirstFails, Disconnect
<1>4. ASSUME NEW e \in Post,
             \/ Enter(e) \/ Write(e) \/ Read(e) \/ Tell(e) \/ CallbackFails(e)
             \/ \E ok \in BOOLEAN : Collected(e, ok)
      PROVE  UNCHANGED clientVars
  BY <1>4 DEF Enter, Write, Read, Tell, CallbackFails, Collected
<1>5. ASSUME Mark \/ ClientFails \/ Cancel \/ Gathered \/ Rescored \/ Commit \/ Finish
      PROVE  UNCHANGED clientVars
  BY <1>5 DEF Mark, ClientFails, Cancel, Gathered, Rescored, Commit, Finish
<1>. QED BY <1>2, <1>3, <1>4, <1>5 DEF Next

LEMMA HeardStep ==
  ASSUME StreamInv, Next
  PROVE  Heard'
<1>. SUFFICES ASSUME stage' = "over", attempt' # 4,
                     NEW s \in Client \ Everything, client'[s] = "waits"
              PROVE  Hears(queue'[s])
  BY DEF Heard
<1>. USE DEF taskVars, postVars, hubVars, clientVars
<1>1. TypeOK /\ Gathering /\ Attempts /\ Subscribed /\ Heard
  BY DEF StreamInv
<1>2. client \in [Client -> {"off", "first", "waits", "left"}]
  BY <1>1 DEF TypeOK
<1>3. ASSUME Fails, stage \in {"end", "announce"} PROVE FALSE
  BY <1>1, <1>3 DEF Fails, Attempts
<1>4. ASSUME Mark \/ ClientFails \/ Cancel \/ Gathered \/ Rescored \/ Commit PROVE FALSE
  BY <1>3, <1>4 DEF Mark, ClientFails, Cancel, Gathered, Rescored, Commit
<1>5. CASE Finish
  <2>1. stage = "announce" /\ Publish(row) /\ client' = client
    BY <1>3, <1>5 DEF Finish
  <2>2. row \in Entry /\ row.status \in Terminal
    BY <1>1, <2>1 DEF Attempts, TypeOK
  <2>3. s \in subs
    BY <1>1, <2>1 DEF Subscribed
  <2>. QED BY <1>1, <2>1, <2>2, <2>3, PublishFacts DEF Hears
<1>6. ASSUME NEW e \in Post,
             \/ Enter(e) \/ Write(e) \/ Read(e) \/ Tell(e) \/ CallbackFails(e)
             \/ \E ok \in BOOLEAN : Collected(e, ok)
      PROVE  FALSE
  <2>1. stage = "over"
    BY <1>6 DEF Enter, Write, Read, Tell, CallbackFails, Collected
  <2>2. post[e] \in {"inside", "skipped", "write", "read", "publish"}
    BY <1>6, <2>1 DEF Enter, Write, Read, Tell, CallbackFails, Collected
  <2>. QED BY <1>1, <2>1, <2>2 DEF Gathering
<1>7. ASSUME NEW d \in Client,
             Subscribe(d) \/ First(d) \/ FirstFails(d) \/ Receive(d) \/ Disconnect(d)
      PROVE  Hears(queue'[s])
  <2>1. stage = "over" /\ attempt # 4 /\ row.status \in Terminal
    BY <1>1, <1>7 DEF Subscribe, First, FirstFails, Receive, Disconnect, Attempts
  <2>2. client[s] = "waits" => Hears(queue[s])
    BY <1>1, <2>1 DEF Heard
  <2>3. CASE Leave(d)
    BY <1>1, <2>2, <2>3, LeaveFacts
  <2>4. CASE Subscribe(d)
    BY <1>2, <2>2, <2>4 DEF Subscribe
  <2>5. CASE First(d) /\ ~Leave(d)
    BY <2>1, <2>5 DEF First
  <2>6. CASE Receive(d) /\ ~Leave(d)
    <3>1. /\ client' = client /\ queue[d] # <<>> /\ queue' = [queue EXCEPT ![d] = Tail(@)]
          /\ Head(queue[d]).status \notin Terminal \/ d \in Everything
      BY <2>6 DEF Receive
    <3>2. CASE d # s
      BY <1>1, <2>2, <3>1, <3>2 DEF TypeOK
    <3>3. CASE d = s
      <4>1. queue[s] \in Seq(Entry) /\ Hears(queue[s]) /\ Head(queue[s]).status \notin Terminal
        BY <1>1, <2>2, <3>1, <3>3 DEF TypeOK
      <4>2. queue'[s] = Tail(queue[s])
        BY <1>1, <3>1, <3>3 DEF TypeOK
      <4>. QED BY <4>1, <4>2, TailHears
    <3>. QED BY <3>2, <3>3
  <2>. QED BY <1>7, <2>3, <2>4, <2>5, <2>6 DEF FirstFails, Disconnect
<1>. QED BY <1>4, <1>5, <1>6, <1>7 DEF Next

(***************************************************************************)
(* The theorems                                                            *)
(***************************************************************************)
LEMMA StreamInductive == Spec => []StreamInv
<1>1. ASSUME StreamInv, [Next]_vars PROVE StreamInv'
  <2>1. CASE Next
    <3>1. TypeOK'
      BY <1>1, <2>1, TypesTask, TypesPost, TypesClient DEF Next
    <3>. QED BY <1>1, <2>1, <3>1, TaskStep, CountsStep, SubscribedStep, HeardStep DEF StreamInv
  <2>2. CASE UNCHANGED vars
    <3>1. TypeOK' /\ Gathering' /\ GoodEnds' /\ Attempts'
      BY <1>1, <2>2 DEF vars, StreamInv, TypeOK, Gathering, GoodEnds, Attempts
    <3>2. Counting' /\ InOrder' /\ Reading'
      BY <1>1, <2>2 DEF vars, StreamInv, Counting, Counted, Adds, InOrder, Reading
    <3>3. Subscribed' /\ Heard'
      BY <1>1, <2>2 DEF vars, StreamInv, Subscribed, Heard, Hears
    <3>. QED BY <3>1, <3>2, <3>3 DEF StreamInv
  <2>. QED BY <1>1, <2>1, <2>2
<1>. QED BY StreamInit, <1>1, PTL DEF Spec

\* The row, the counters, the queues and the cache keep their types: above all no
\* counter exceeds the number of posts, and no queue its limit (jobs.py:85-100).
THEOREM StreamWellTyped == Spec => []TypeOK
<1>1. StreamInv => TypeOK
  BY DEF StreamInv
<1>. QED BY <1>1, StreamInductive, PTL

\* A subscriber that still waits when the job is over has the terminal entry in its
\* queue, for every size of the queue and every number of faults (jobs.py:85-115).
THEOREM EndAlwaysHeard == Spec => []EndIsHeard
<1>1. StreamInv => EndIsHeard
  BY DEF StreamInv, Heard, Hears, EndIsHeard, Lost
<1>. QED BY <1>1, StreamInductive, PTL

\* Without a fault and without an overtaken write, the counters of a completed
\* collection are those of all its posts (jobs.py:500-545).
THEOREM CountsComplete == Spec => []CompletedCounts
<1>1. ASSUME StreamInv PROVE CompletedCounts
  <2>. SUFFICES ASSUME row.status = "completed", faults = 0, ~reordered
                PROVE  /\ row.c.done = Cardinality(Post)
                       /\ row.c.succeeded + row.c.failed = row.c.done
    BY DEF CompletedCounts
  <2>1. \A e \in Post : post[e] = "done"
    BY <1>1 DEF StreamInv, GoodEnds
  <2>2. Counted = Post
    BY <2>1 DEF Counted
  <2>3. row.c \in Counters /\ row.c.done \in 0..Cardinality(Post) /\ Cardinality(Post) \in Nat
    BY <1>1, EntryParts, CountedBound DEF StreamInv, TypeOK, Counters
  <2>4. count.done = Cardinality(Post)
    BY <1>1, <2>2 DEF StreamInv, Counting
  <2>5. count.done # 0 => count.done <= row.c.done
    BY <1>1, <2>1, <2>2 DEF StreamInv, Counting, InOrder
  <2>6. row.c.done = Cardinality(Post)
    BY <2>3, <2>4, <2>5
  <2>. QED BY <1>1, <2>6 DEF StreamInv, Counting, Adds
<1>. QED BY <1>1, StreamInductive, PTL

\* When a job is over the hub holds nothing about it, whichever of the three
\* attempts at its end came through (jobs.py:599-602).
THEOREM CacheForgotten == Spec => []NoCacheLeft
<1>1. StreamInv => NoCacheLeft
  BY DEF StreamInv, Attempts, NoCacheLeft
<1>. QED BY <1>1, StreamInductive, PTL

=============================================================================
