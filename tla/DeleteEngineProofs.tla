------------------------- MODULE DeleteEngineProofs -------------------------
(***************************************************************************)
(* Theorems about DeleteEngine, for any comments, workers, replies, sizes  *)
(* and numbers of faults: the invariants of its run, and that it           *)
(* implements DeletePromise.                                               *)
(***************************************************************************)
EXTENDS DeleteEngine, FiniteSetTheorems, SequenceTheorems, TLAPS

(***************************************************************************)
(* Sequences as the sets of their elements                                 *)
(***************************************************************************)
LEMMA ElementsEmpty == Elements(<<>>) = {}
  BY DEF Elements

LEMMA ElementsIn ==
  ASSUME NEW S, NEW s \in Seq(S)
  PROVE  Elements(s) \subseteq S
  BY LenProperties DEF Elements

LEMMA ElementsAppend ==
  ASSUME NEW S, NEW s \in Seq(S), NEW e \in S
  PROVE  Elements(Append(s, e)) = Elements(s) \cup {e}
<1>1. /\ Len(s) \in Nat /\ Len(Append(s, e)) = Len(s) + 1
      /\ \A i \in 1..Len(s) : Append(s, e)[i] = s[i]
      /\ Append(s, e)[Len(s) + 1] = e
  BY AppendProperties, LenProperties
<1>2. 1..(Len(s) + 1) = (1..Len(s)) \cup {Len(s) + 1}
  BY <1>1
<1>. QED BY <1>1, <1>2 DEF Elements

LEMMA ElementsHead ==
  ASSUME NEW S, NEW s \in Seq(S), s # <<>>
  PROVE  /\ Head(s) \in S /\ Tail(s) \in Seq(S)
         /\ Elements(s) = {Head(s)} \cup Elements(Tail(s))
         /\ \A i \in 1..Len(Tail(s)) : i + 1 \in 1..Len(s) /\ Tail(s)[i] = s[i + 1]
         /\ 1 \in 1..Len(s) /\ Head(s) = s[1]
<1>1. /\ Head(s) \in S /\ Tail(s) \in Seq(S) /\ Len(Tail(s)) = Len(s) - 1
      /\ \A i \in 1..Len(Tail(s)) : Tail(s)[i] = s[i + 1]
  BY HeadTailProperties
<1>2. Len(s) \in Nat /\ Len(s) # 0 /\ Head(s) = s[1]
  BY EmptySeq, LenProperties
<1>3. \A i \in 1..Len(s) : i = 1 \/ i - 1 \in 1..Len(Tail(s))
  BY <1>1, <1>2
<1>4. \A i \in 1..Len(Tail(s)) : i + 1 \in 1..Len(s)
  BY <1>1, <1>2
<1>5. Elements(s) \subseteq {Head(s)} \cup Elements(Tail(s))
  <2>. SUFFICES ASSUME NEW i \in 1..Len(s) PROVE s[i] = Head(s) \/ \E j \in 1..Len(Tail(s)) : s[i] = Tail(s)[j]
    BY DEF Elements
  <2>1. CASE i = 1
    BY <1>2, <2>1
  <2>2. CASE i - 1 \in 1..Len(Tail(s))
    <3>1. Tail(s)[i - 1] = s[(i - 1) + 1] /\ (i - 1) + 1 = i
      BY <1>1, <2>2
    <3>. QED BY <2>2, <3>1
  <2>. QED BY <1>3, <2>1, <2>2
<1>6. {Head(s)} \cup Elements(Tail(s)) \subseteq Elements(s)
  BY <1>1, <1>2, <1>4 DEF Elements
<1>. QED BY <1>1, <1>2, <1>4, <1>5, <1>6

\* No element twice.
NoDup(s) == \A i, j \in 1..Len(s) : s[i] = s[j] => i = j

LEMMA NoDupTail ==
  ASSUME NEW S, NEW s \in Seq(S), s # <<>>, NoDup(s)
  PROVE  NoDup(Tail(s)) /\ Head(s) \notin Elements(Tail(s))
<1>1. /\ Tail(s) \in Seq(S) /\ 1 \in 1..Len(s) /\ Head(s) = s[1]
      /\ \A i \in 1..Len(Tail(s)) : i + 1 \in 1..Len(s) /\ Tail(s)[i] = s[i + 1]
  BY ElementsHead
<1>2. Len(Tail(s)) \in Nat
  BY <1>1, LenProperties
<1>3. NoDup(Tail(s))
  <2>. SUFFICES ASSUME NEW i \in 1..Len(Tail(s)), NEW j \in 1..Len(Tail(s)), Tail(s)[i] = Tail(s)[j]
                PROVE  i = j
    BY DEF NoDup
  <2>1. i + 1 = j + 1
    BY <1>1 DEF NoDup
  <2>. QED BY <1>2, <2>1
<1>4. Head(s) \notin Elements(Tail(s))
  <2>. SUFFICES ASSUME NEW i \in 1..Len(Tail(s)), Tail(s)[i] = Head(s) PROVE FALSE
    BY DEF Elements
  <2>1. i + 1 = 1
    BY <1>1 DEF NoDup
  <2>. QED BY <1>2, <2>1
<1>. QED BY <1>3, <1>4

-----------------------------------------------------------------------------
(***************************************************************************)
(* Types                                                                   *)
(***************************************************************************)
WorkerRecord == [pc : WorkerState, comment : Comment \cup {NoComment},
                 attempt : 0..MaxRetries, answer : Answer]
BreakerRecord == [failures : Nat, open : BOOLEAN]
SummaryRecord == [succeeded : Nat, failed : Nat, circuitOpen : BOOLEAN,
                  aborted : BOOLEAN, cancelled : BOOLEAN]
WriterRecord == [pc : WriterState, buffer : Seq(Outcome), attempt : 1..FlushRetries,
                 final : BOOLEAN]
HistRecord == [answered : SUBSET Comment, refusals : Nat, sentAfterOpen : Nat,
               afterAbort : [Worker -> Nat], writerKilled : BOOLEAN]
Message == Outcome \cup {Sentinel}

\* The engine's state is typed, the observations with it.
Types == TypeOK /\ hist \in HistRecord

LEMMA TypeParts ==
  Types <=> /\ mode \in {"live", "dry", "nocookie"} /\ workQueue \in Seq(Comment)
            /\ resultQueue \in Seq(Message) /\ worker \in [Worker -> WorkerRecord]
            /\ breaker \in BreakerRecord /\ summary \in SummaryRecord
            /\ writer \in WriterRecord /\ run \in RunState /\ cancelEvent \in BOOLEAN
            /\ item \in [Comment -> {"pending", "succeeded", "failed"}]
            /\ status \in [Comment -> {"active", "deleted", "failed"}]
            /\ jobDone \in Nat /\ standing \in SUBSET Comment /\ faults \in 0..MaxFaults
            /\ hist \in HistRecord
  BY DEF Types, TypeOK, WorkerRecord, BreakerRecord, SummaryRecord, WriterRecord, Message

LEMMA SentinelIsNoOutcome == Sentinel \notin Outcome
<1>. SUFFICES ASSUME Sentinel \in Outcome PROVE FALSE
  OBVIOUS
<1>1. DOMAIN Sentinel = {"sentinel"}
  BY DEF Sentinel
<1>2. DOMAIN Sentinel = {"comment", "success"}
  BY DEF Outcome
<1>. QED BY <1>1, <1>2

LEMMA OutcomeParts ==
  ASSUME NEW c \in Comment, NEW b \in BOOLEAN
  PROVE  /\ [comment |-> c, success |-> b] \in Outcome
         /\ [comment |-> c, success |-> b] \in Message
  BY DEF Outcome, Message

(***************************************************************************)
(* What the steps do to the records                                        *)
(***************************************************************************)
\* One worker is replaced, the others stay.
LEMMA WorkerBecomes ==
  ASSUME Types, NEW w \in Worker, NEW u \in WorkerRecord, worker' = [worker EXCEPT ![w] = u]
  PROVE  /\ worker' \in [Worker -> WorkerRecord] /\ worker'[w] = u
         /\ \A v \in Worker : v # w => worker'[v] = worker[v]
<1>1. worker \in [Worker -> WorkerRecord]
  BY TypeParts
<1>. QED BY <1>1

LEMMA IdleRecords ==
  ASSUME NEW pc \in {"take", "done"}
  PROVE  /\ [IdleWorker EXCEPT !.pc = pc] \in WorkerRecord
         /\ [IdleWorker EXCEPT !.pc = pc].pc = pc
         /\ [IdleWorker EXCEPT !.pc = pc].comment = NoComment
  BY EngineAssumption DEF IdleWorker, WorkerRecord, WorkerState, Answer

LEMMA ExitBecomes ==
  ASSUME Types, NEW w \in Worker, WorkerExit(w)
  PROVE  /\ worker' \in [Worker -> WorkerRecord]
         /\ worker'[w].pc = "done" /\ worker'[w].comment = NoComment
         /\ \A v \in Worker : v # w => worker'[v] = worker[v]
  BY WorkerBecomes, IdleRecords DEF WorkerExit

LEMMA GrabBecomes ==
  ASSUME Types, NEW w \in Worker, NEW c \in Comment,
         worker' = [worker EXCEPT ![w] = [pc |-> "token", comment |-> c,
                                          attempt |-> 0, answer |-> "none"]]
  PROVE  /\ worker' \in [Worker -> WorkerRecord]
         /\ worker'[w].pc = "token" /\ worker'[w].comment = c
         /\ \A v \in Worker : v # w => worker'[v] = worker[v]
<1>. DEFINE u == [pc |-> "token", comment |-> c, attempt |-> 0, answer |-> "none"]
<1>1. u \in WorkerRecord /\ u.pc = "token" /\ u.comment = c
  BY EngineAssumption DEF WorkerRecord, WorkerState, Answer
<1>2. worker' = [worker EXCEPT ![w] = u]
  OBVIOUS
<1>. HIDE DEF u
<1>. QED BY <1>1, <1>2, WorkerBecomes

\* What Deliver does to everything it touches.
LEMMA DeliverBecomes ==
  ASSUME Types, NEW w \in Worker, NEW c \in Comment, NEW success \in BOOLEAN,
         Deliver(w, c, success)
  PROVE  /\ resultQueue' = Append(resultQueue, [comment |-> c, success |-> success])
         /\ resultQueue' \in Seq(Message)
         /\ worker' \in [Worker -> WorkerRecord]
         /\ worker'[w].pc \in {"take", "done"} /\ worker'[w].comment = NoComment
         /\ worker'[w].pc = "done" => summary'.circuitOpen
         /\ \A v \in Worker : v # w => worker'[v] = worker[v]
         /\ breaker' = BreakerAfter(success) /\ breaker' \in BreakerRecord
         /\ summary' \in SummaryRecord
         /\ summary'.succeeded = summary.succeeded /\ summary'.failed = summary.failed
         /\ summary'.aborted = summary.aborted /\ summary'.cancelled = summary.cancelled
         /\ summary'.circuitOpen = (summary.circuitOpen \/ (~success /\ breaker'.open))
         /\ ~success /\ breaker'.open => worker'[w].pc = "done"
         /\ hist' \in HistRecord
         /\ hist'.answered = hist.answered \cup {c}
         /\ hist'.refusals = hist.refusals + (IF success THEN 0 ELSE 1)
         /\ hist'.sentAfterOpen = hist.sentAfterOpen /\ hist'.writerKilled = hist.writerKilled
         /\ hist'.afterAbort[w] = hist.afterAbort[w] + (IF summary.aborted THEN 1 ELSE 0)
         /\ \A v \in Worker : v # w => hist'.afterAbort[v] = hist.afterAbort[v]
<1>. DEFINE stop == ~success /\ breaker'.open
            u == [IdleWorker EXCEPT !.pc = IF stop THEN "done" ELSE "take"]
<1>1. /\ resultQueue \in Seq(Message) /\ breaker \in BreakerRecord /\ summary \in SummaryRecord
      /\ hist \in HistRecord
  BY TypeParts
<1>2. /\ resultQueue' = Append(resultQueue, [comment |-> c, success |-> success])
      /\ resultQueue' \in Seq(Message)
  BY <1>1, OutcomeParts, AppendProperties DEF Deliver
<1>3. breaker' = BreakerAfter(success) /\ breaker' \in BreakerRecord
  <2>1. breaker' = BreakerAfter(success)
    BY DEF Deliver
  <2>2. CASE success
    <3>1. BreakerAfter(success) = [breaker EXCEPT !.failures = 0]
      BY <2>2 DEF BreakerAfter
    <3>. QED BY <1>1, <2>1, <3>1 DEF BreakerRecord
  <2>3. CASE ~success
    <3>. DEFINE n == breaker.failures + 1
                o == breaker.open \/ n >= Threshold
    <3>1. n \in Nat /\ o \in BOOLEAN
      BY <1>1, EngineAssumption DEF BreakerRecord
    <3>2. BreakerAfter(success) = [failures |-> n, open |-> o]
      BY <2>3 DEF BreakerAfter
    <3>. HIDE DEF n, o
    <3>. QED BY <2>1, <3>1, <3>2 DEF BreakerRecord
  <2>. QED BY <2>2, <2>3
<1>4. stop \in BOOLEAN
  BY <1>3 DEF BreakerRecord
<1>5. summary' = [summary EXCEPT !.circuitOpen = @ \/ stop] /\ worker' = [worker EXCEPT ![w] = u]
  BY DEF Deliver
<1>6. /\ summary' \in SummaryRecord
      /\ summary'.succeeded = summary.succeeded /\ summary'.failed = summary.failed
      /\ summary'.aborted = summary.aborted /\ summary'.cancelled = summary.cancelled
      /\ summary'.circuitOpen = (summary.circuitOpen \/ stop)
  BY <1>1, <1>4, <1>5 DEF SummaryRecord
<1>7. /\ u \in WorkerRecord /\ u.comment = NoComment
      /\ u.pc \in {"take", "done"} /\ (u.pc = "done" <=> stop)
  BY <1>4, IdleRecords
<1>. HIDE DEF stop, u
<1>8. /\ worker' \in [Worker -> WorkerRecord] /\ worker'[w] = u
      /\ \A v \in Worker : v # w => worker'[v] = worker[v]
  BY <1>5, <1>7, WorkerBecomes
<1>9. hist' = [hist EXCEPT
                  !.answered = @ \cup {c},
                  !.refusals = IF success THEN @ ELSE @ + 1,
                  !.afterAbort[w] = IF summary.aborted THEN @ + 1 ELSE @]
  BY DEF Deliver
<1>10. /\ hist' \in HistRecord
       /\ hist'.answered = hist.answered \cup {c}
       /\ hist'.refusals = hist.refusals + (IF success THEN 0 ELSE 1)
       /\ hist'.sentAfterOpen = hist.sentAfterOpen /\ hist'.writerKilled = hist.writerKilled
       /\ hist'.afterAbort[w] = hist.afterAbort[w] + (IF summary.aborted THEN 1 ELSE 0)
       /\ \A v \in Worker : v # w => hist'.afterAbort[v] = hist.afterAbort[v]
  <2>. DEFINE more == hist.refusals + (IF success THEN 0 ELSE 1)
              again == [hist.afterAbort EXCEPT ![w] =
                            hist.afterAbort[w] + (IF summary.aborted THEN 1 ELSE 0)]
  <2>1. hist.refusals \in Nat /\ hist.afterAbort \in [Worker -> Nat]
    BY <1>1 DEF HistRecord
  <2>2. /\ more \in Nat /\ more = IF success THEN hist.refusals ELSE hist.refusals + 1
    BY <2>1
  <2>3. /\ again \in [Worker -> Nat]
        /\ again[w] = hist.afterAbort[w] + (IF summary.aborted THEN 1 ELSE 0)
        /\ \A v \in Worker : v # w => again[v] = hist.afterAbort[v]
    BY <2>1
  <2>4. again = [hist.afterAbort EXCEPT ![w] = IF summary.aborted THEN hist.afterAbort[w] + 1
                                               ELSE hist.afterAbort[w]]
    BY <2>1
  <2>5. hist' = [hist EXCEPT !.answered = @ \cup {c},
                     !.refusals = IF success THEN hist.refusals ELSE hist.refusals + 1,
                     !.afterAbort = [hist.afterAbort EXCEPT ![w] =
                         IF summary.aborted THEN hist.afterAbort[w] + 1 ELSE hist.afterAbort[w]]]
    BY <1>1, <1>9 DEF HistRecord
  <2>6. hist' = [hist EXCEPT !.answered = hist.answered \cup {c}, !.refusals = more,
                             !.afterAbort = again]
    BY <2>2, <2>4, <2>5
  <2>. HIDE DEF more, again
  <2>7. /\ hist' \in HistRecord /\ hist'.answered = hist.answered \cup {c}
        /\ hist'.refusals = more /\ hist'.afterAbort = again
        /\ hist'.sentAfterOpen = hist.sentAfterOpen /\ hist'.writerKilled = hist.writerKilled
    BY <1>1, <2>2, <2>3, <2>6 DEF HistRecord
  <2>. QED BY <2>3, <2>7 DEF more
<1>11. /\ worker'[w].pc \in {"take", "done"} /\ worker'[w].comment = NoComment
       /\ worker'[w].pc = "done" <=> stop
  BY <1>7, <1>8
<1>12. /\ worker'[w].pc = "done" => summary'.circuitOpen
       /\ stop => worker'[w].pc = "done"
  BY <1>6, <1>11
<1>. QED BY <1>2, <1>3, <1>6, <1>8, <1>10, <1>11, <1>12 DEF stop

(***************************************************************************)
(* The kinds of steps a worker takes                                       *)
(***************************************************************************)
Idle   == {"take", "done"}
Active == {"token", "wire", "answered", "backoff"}

\* A worker holds a comment between taking it and its outcome, only in a live run,
\* and waits for a further attempt only if there is one left.
Hands ==
    \A w \in Worker : /\ worker[w].pc \in Idle <=> worker[w].comment = NoComment
                      /\ worker[w].pc \in Active => mode = "live"
                      /\ worker[w].pc = "backoff" => worker[w].attempt < MaxRetries

\* The writer waits for a further attempt only if there is one left.
Delayed == writer.pc = "delay" => writer.attempt < FlushRetries

Base == Types /\ Hands /\ Delayed

OnlyMoves(w) ==
    /\ worker' \in [Worker -> WorkerRecord]
    /\ \A v \in Worker : v # w => worker'[v] = worker[v]

\* The worker ends, and drops what it held or takes.
Left(w) ==
    /\ OnlyMoves(w) /\ worker'[w].pc = "done" /\ worker'[w].comment = NoComment
    /\ summary' \in SummaryRecord
    /\ summary'.succeeded = summary.succeeded /\ summary'.failed = summary.failed
    /\ summary'.aborted = summary.aborted /\ summary'.cancelled = summary.cancelled
    /\ UNCHANGED <<mode, resultQueue, breaker, standing, hist, storeVars>>
    /\ \/ /\ worker[w].pc = "take" /\ workQueue = <<>>
          /\ UNCHANGED <<workQueue, summary>>
       \/ /\ worker[w].pc = "take" /\ workQueue # <<>> /\ workQueue' = Tail(workQueue)
          /\ cancelEvent \/ ShouldStop
          /\ UNCHANGED summary
       \/ /\ worker[w].pc = "backoff" /\ breaker.open
          /\ summary'.circuitOpen
          /\ UNCHANGED workQueue

\* The worker hands an outcome to the writer.
Handed(w, c, success) ==
    /\ OnlyMoves(w)
    /\ resultQueue' = Append(resultQueue, [comment |-> c, success |-> success])
    /\ resultQueue' \in Seq(Message)
    /\ worker'[w].pc \in Idle /\ worker'[w].comment = NoComment
    /\ worker'[w].pc = "done" => summary'.circuitOpen
    /\ breaker' = BreakerAfter(success) /\ breaker' \in BreakerRecord
    /\ summary' \in SummaryRecord
    /\ summary'.succeeded = summary.succeeded /\ summary'.failed = summary.failed
    /\ summary'.aborted = summary.aborted /\ summary'.cancelled = summary.cancelled
    /\ summary'.circuitOpen = (summary.circuitOpen \/ (~success /\ breaker'.open))
    /\ ~success /\ breaker'.open => worker'[w].pc = "done"
    /\ hist' \in HistRecord
    /\ hist'.answered = hist.answered \cup {c}
    /\ hist'.refusals = hist.refusals + (IF success THEN 0 ELSE 1)
    /\ hist'.sentAfterOpen = hist.sentAfterOpen /\ hist'.writerKilled = hist.writerKilled
    /\ hist'.afterAbort[w] = hist.afterAbort[w] + (IF summary.aborted THEN 1 ELSE 0)
    /\ \A v \in Worker : v # w => hist'.afterAbort[v] = hist.afterAbort[v]
    /\ UNCHANGED <<mode, standing, storeVars>>

\* ... for the comment that it takes, in a run without requests,
HandedTaken(w, c, success) ==
    /\ Handed(w, c, success)
    /\ worker[w].pc = "take" /\ workQueue # <<>> /\ ~cancelEvent /\ ~ShouldStop
    /\ mode # "live" /\ success = (mode = "dry")
    /\ c = Head(workQueue) /\ workQueue' = Tail(workQueue)

\* ... or for the comment it holds.
HandedHeld(w, c, success) ==
    /\ Handed(w, c, success)
    /\ worker[w].pc \in {"answered", "backoff"} /\ c = worker[w].comment
    /\ success => worker[w].pc = "answered" /\ worker[w].answer \in {"ok", "gone"}
    /\ UNCHANGED workQueue

\* The worker takes a comment and goes for a token.
Grabbed(w) ==
    /\ OnlyMoves(w)
    /\ worker[w].pc = "take" /\ workQueue # <<>> /\ ~cancelEvent /\ ~ShouldStop
    /\ mode = "live" /\ workQueue' = Tail(workQueue)
    /\ worker'[w].pc = "token" /\ worker'[w].comment = Head(workQueue)
    /\ UNCHANGED <<mode, resultQueue, breaker, summary, standing, hist, storeVars>>

\* The worker goes on with the comment it holds.
Moved(w) ==
    /\ OnlyMoves(w)
    /\ worker[w].pc \in Active /\ worker'[w].pc \in Active
    /\ worker'[w].comment = worker[w].comment
    /\ standing' \in SUBSET standing
    /\ worker'[w].pc = "answered" /\ worker'[w].answer \in {"ok", "gone"}
           => worker'[w].comment \notin standing'
    /\ worker'[w].pc = "backoff" => worker'[w].attempt < MaxRetries
    /\ \/ /\ worker[w].pc = "token" /\ worker'[w].pc = "wire"
          /\ hist' = [hist EXCEPT !.sentAfterOpen = IF breaker.open THEN @ + 1 ELSE @]
       \/ /\ worker[w].pc # "token" /\ hist' = hist
          /\ worker'[w].pc = "token" => ~breaker.open
    /\ UNCHANGED <<mode, workQueue, resultQueue, breaker, summary, storeVars>>

LEMMA HandsOver ==
  ASSUME Types, NEW w \in Worker, NEW c \in Comment, NEW success \in BOOLEAN,
         Deliver(w, c, success), UNCHANGED <<mode, standing, storeVars>>
  PROVE  Handed(w, c, success)
  BY DeliverBecomes DEF Handed, OnlyMoves, Idle

LEMMA HeldComment ==
  ASSUME Base, NEW w \in Worker, worker[w].pc \in Active
  PROVE  worker[w].comment \in Comment /\ worker[w] \in WorkerRecord
  BY TypeParts DEF Base, Hands, Idle, Active, WorkerRecord

\* A worker that keeps its comment.
LEMMA KeepBecomes ==
  ASSUME Base, NEW w \in Worker, NEW u \in WorkerRecord,
         worker' = [worker EXCEPT ![w] = u], u.comment = worker[w].comment
  PROVE  OnlyMoves(w) /\ worker'[w] = u /\ worker'[w].comment = worker[w].comment
  BY WorkerBecomes DEF Base, OnlyMoves

LEMMA SendMoves ==
  ASSUME Base, NEW w \in Worker, Send(w)
  PROVE  Moved(w)
<1>. DEFINE u == [worker[w] EXCEPT !.pc = "wire"]
<1>1. worker[w].pc = "token" /\ worker' = [worker EXCEPT ![w] = u]
  BY DEF Send
<1>2. worker[w] \in WorkerRecord
  BY <1>1, HeldComment DEF Active
<1>3. u \in WorkerRecord /\ u.comment = worker[w].comment /\ u.pc = "wire"
  BY <1>2 DEF WorkerRecord, WorkerState
<1>. HIDE DEF u
<1>4. OnlyMoves(w) /\ worker'[w].pc = "wire" /\ worker'[w].comment = worker[w].comment
  BY <1>1, <1>3, KeepBecomes
<1>. QED BY <1>1, <1>4 DEF Send, Moved, Active

LEMMA BlogMoves ==
  ASSUME Base, NEW w \in Worker, Blog(w)
  PROVE  Moved(w)
<1>. DEFINE c == worker[w].comment
<1>1. worker[w].pc = "wire"
  BY DEF Blog
<1>2. c \in Comment /\ worker[w] \in WorkerRecord
  BY <1>1, HeldComment DEF Active
<1>3. PICK a \in Answer \ {"none"} :
          /\ a = "ok"   => c \in standing
          /\ a = "gone" => c \notin standing
          /\ worker' = [worker EXCEPT ![w].pc = "answered", ![w].answer = a]
          /\ \/ a \in {"ok", "retryable"} /\ standing' = Without({c})
             \/ a # "ok" /\ UNCHANGED standing
  BY DEF Blog
<1>. DEFINE u == [worker[w] EXCEPT !.pc = "answered", !.answer = a]
<1>4. u \in WorkerRecord /\ u.comment = c /\ u.pc = "answered" /\ u.answer = a
  BY <1>2 DEF WorkerRecord, WorkerState
<1>5. worker' = [worker EXCEPT ![w] = u]
  BY <1>3, TypeParts DEF Base
<1>. HIDE DEF u
<1>6. /\ OnlyMoves(w) /\ worker'[w].pc = "answered" /\ worker'[w].comment = c
      /\ worker'[w].answer = a
  BY <1>4, <1>5, KeepBecomes
<1>7. standing' \in SUBSET standing /\ (a \in {"ok", "gone"} => c \notin standing')
  BY <1>3 DEF Without
<1>. QED BY <1>1, <1>6, <1>7 DEF Blog, Moved, Active

LEMMA InterpretKinds ==
  ASSUME Base, NEW w \in Worker, Interpret(w)
  PROVE  Moved(w) \/ \E c \in Comment, success \in BOOLEAN : HandedHeld(w, c, success)
<1>0. worker[w].pc = "answered" /\ UNCHANGED <<mode, workQueue, standing, storeVars>> /\ Types
  BY DEF Interpret, Base
<1>1. worker[w].comment \in Comment /\ worker[w] \in WorkerRecord
  BY <1>0, HeldComment DEF Active
<1>2. ASSUME NEW success \in BOOLEAN, Deliver(w, worker[w].comment, success),
             success => worker[w].answer \in {"ok", "gone"}
      PROVE  HandedHeld(w, worker[w].comment, success)
  BY <1>0, <1>1, <1>2, HandsOver DEF HandedHeld
<1>3. CASE worker' = [worker EXCEPT ![w].pc = "backoff", ![w].answer = "none"]
           /\ UNCHANGED <<resultQueue, breaker, summary, hist>>
           /\ worker[w].attempt < MaxRetries
  <2>. DEFINE u == [worker[w] EXCEPT !.pc = "backoff", !.answer = "none"]
  <2>1. /\ u \in WorkerRecord /\ u.comment = worker[w].comment /\ u.pc = "backoff"
        /\ u.attempt < MaxRetries
    BY <1>1, <1>3 DEF WorkerRecord, WorkerState, Answer
  <2>2. worker' = [worker EXCEPT ![w] = u]
    BY <1>3, TypeParts DEF Base
  <2>. HIDE DEF u
  <2>3. /\ OnlyMoves(w) /\ worker'[w].pc = "backoff" /\ worker'[w].comment = worker[w].comment
        /\ worker'[w].attempt < MaxRetries
    BY <2>1, <2>2, KeepBecomes
  <2>. QED BY <1>0, <1>3, <2>3 DEF Moved, Active
<1>. DEFINE good == worker[w].answer \in {"ok", "gone"}
<1>4. CASE Deliver(w, worker[w].comment, good)
  <2>1. good \in BOOLEAN
    OBVIOUS
  <2>. QED BY <1>1, <1>2, <1>4, <2>1
<1>5. CASE Deliver(w, worker[w].comment, FALSE)
  BY <1>1, <1>2, <1>5
<1>6. \/ Deliver(w, worker[w].comment, good) \/ Deliver(w, worker[w].comment, FALSE)
      \/ /\ worker' = [worker EXCEPT ![w].pc = "backoff", ![w].answer = "none"]
         /\ UNCHANGED <<resultQueue, breaker, summary, hist>> /\ worker[w].attempt < MaxRetries
  BY DEF Interpret
<1>. QED BY <1>3, <1>4, <1>5, <1>6

LEMMA BackoffKinds ==
  ASSUME Base, NEW w \in Worker, Backoff(w)
  PROVE  Moved(w) \/ Left(w) \/ \E c \in Comment, success \in BOOLEAN : HandedHeld(w, c, success)
<1>0. worker[w].pc = "backoff" /\ UNCHANGED <<mode, workQueue, standing, storeVars>> /\ Types
  BY DEF Backoff, Base
<1>1. worker[w].comment \in Comment /\ worker[w] \in WorkerRecord
  BY <1>0, HeldComment DEF Active
<1>2. CASE Deliver(w, worker[w].comment, FALSE)
  BY <1>0, <1>1, <1>2, HandsOver DEF HandedHeld
<1>3. CASE CircuitOpen(w) /\ breaker.open /\ UNCHANGED <<resultQueue, breaker, hist>>
  <2>1. summary' = [summary EXCEPT !.circuitOpen = TRUE] /\ summary \in SummaryRecord
    BY <1>0, <1>3, TypeParts DEF CircuitOpen
  <2>2. /\ summary' \in SummaryRecord /\ summary'.circuitOpen
        /\ summary'.succeeded = summary.succeeded /\ summary'.failed = summary.failed
        /\ summary'.aborted = summary.aborted /\ summary'.cancelled = summary.cancelled
    BY <2>1 DEF SummaryRecord
  <2>3. OnlyMoves(w) /\ worker'[w].pc = "done" /\ worker'[w].comment = NoComment
    BY <1>0, <1>3, ExitBecomes DEF CircuitOpen, OnlyMoves
  <2>. QED BY <1>0, <1>3, <2>2, <2>3 DEF Left
<1>4. CASE /\ worker' = [worker EXCEPT ![w].pc = "token", ![w].attempt = @ + 1]
           /\ ~breaker.open /\ UNCHANGED <<resultQueue, breaker, summary, hist>>
           /\ worker[w].attempt + 1 \in 0..MaxRetries
  <2>. DEFINE u == [worker[w] EXCEPT !.pc = "token", !.attempt = @ + 1]
  <2>1. u \in WorkerRecord /\ u.comment = worker[w].comment /\ u.pc = "token"
    BY <1>1, <1>4 DEF WorkerRecord, WorkerState
  <2>2. worker' = [worker EXCEPT ![w] = u]
    BY <1>4, TypeParts DEF Base
  <2>. HIDE DEF u
  <2>3. OnlyMoves(w) /\ worker'[w].pc = "token" /\ worker'[w].comment = worker[w].comment
    BY <2>1, <2>2, KeepBecomes
  <2>. QED BY <1>0, <1>4, <2>3 DEF Moved, Active
<1>5. MaxRetries \in Nat /\ worker[w].attempt \in 0..MaxRetries /\ worker[w].attempt < MaxRetries
  BY <1>0, <1>1, EngineAssumption DEF Base, Hands, WorkerRecord
<1>6. worker[w].attempt + 1 \in 0..MaxRetries
  BY <1>5
<1>. QED BY <1>2, <1>3, <1>4, <1>6 DEF Backoff

LEMMA TakeKinds ==
  ASSUME Base, NEW w \in Worker, QueueEmpty(w) \/ TakeStopped(w) \/ Take(w)
  PROVE  \/ Left(w) \/ Grabbed(w)
         \/ \E c \in Comment, success \in BOOLEAN : HandedTaken(w, c, success)
<1>0. Types /\ summary \in SummaryRecord /\ workQueue \in Seq(Comment)
  BY TypeParts DEF Base
<1>1. CASE QueueEmpty(w) \/ TakeStopped(w)
  <2>1. /\ WorkerExit(w) /\ worker[w].pc = "take"
        /\ UNCHANGED <<mode, resultQueue, breaker, summary, standing, hist, storeVars>>
        /\ \/ workQueue = <<>> /\ UNCHANGED workQueue
           \/ workQueue # <<>> /\ workQueue' = Tail(workQueue) /\ (cancelEvent \/ ShouldStop)
    BY <1>1 DEF QueueEmpty, TakeStopped
  <2>2. OnlyMoves(w) /\ worker'[w].pc = "done" /\ worker'[w].comment = NoComment
    BY <1>0, <2>1, ExitBecomes DEF OnlyMoves
  <2>. QED BY <1>0, <2>1, <2>2 DEF Left
<1>2. CASE Take(w)
  <2>1. /\ worker[w].pc = "take" /\ workQueue # <<>> /\ ~cancelEvent /\ ~ShouldStop
        /\ workQueue' = Tail(workQueue) /\ UNCHANGED <<mode, standing, storeVars>>
    BY <1>2 DEF Take
  <2>2. Head(workQueue) \in Comment
    BY <1>0, <2>1, ElementsHead
  <2>3. CASE mode # "live" /\ Deliver(w, Head(workQueue), mode = "dry")
    <3>1. (mode = "dry") \in BOOLEAN
      OBVIOUS
    <3>2. Handed(w, Head(workQueue), mode = "dry")
      BY <1>0, <2>1, <2>2, <2>3, <3>1, HandsOver
    <3>3. HandedTaken(w, Head(workQueue), mode = "dry")
      BY <2>1, <2>3, <3>2 DEF HandedTaken
    <3>. QED BY <2>2, <3>1, <3>3
  <2>4. CASE /\ mode = "live" /\ UNCHANGED <<resultQueue, breaker, summary, hist>>
             /\ worker' = [worker EXCEPT ![w] = [pc |-> "token", comment |-> Head(workQueue),
                                                 attempt |-> 0, answer |-> "none"]]
    <3>1. OnlyMoves(w) /\ worker'[w].pc = "token" /\ worker'[w].comment = Head(workQueue)
      BY <1>0, <2>2, <2>4, GrabBecomes DEF OnlyMoves
    <3>. QED BY <2>1, <2>4, <3>1 DEF Grabbed
  <2>. QED BY <1>2, <2>3, <2>4 DEF Take
<1>. QED BY <1>1, <1>2

\* Every step of a worker is of one of these kinds.
LEMMA WorkerKinds ==
  ASSUME Base, NEW w \in Worker, WorkerStep(w)
  PROVE  \/ Left(w) \/ Grabbed(w) \/ Moved(w)
         \/ \E c \in Comment, success \in BOOLEAN : HandedTaken(w, c, success)
         \/ \E c \in Comment, success \in BOOLEAN : HandedHeld(w, c, success)
  BY TakeKinds, SendMoves, BlogMoves, InterpretKinds, BackoffKinds DEF WorkerStep

(***************************************************************************)
(* The kinds of steps the writer takes                                     *)
(***************************************************************************)
\* What no step of the writer touches, and the typing of what it does.
WriterOnly ==
    /\ writer' \in WriterRecord /\ summary' \in SummaryRecord
    /\ summary'.circuitOpen = summary.circuitOpen /\ summary'.cancelled = summary.cancelled
    /\ UNCHANGED workVars

\* An outcome is taken into the buffer.
GotOutcome ==
    /\ WriterOnly /\ writer.pc = "get" /\ resultQueue # <<>> /\ Head(resultQueue) \in Outcome
    /\ resultQueue' = Tail(resultQueue)
    /\ writer'.buffer = Append(writer.buffer, Head(resultQueue))
    /\ writer'.pc \in {"get", "flush"} /\ writer'.final = writer.final
    /\ UNCHANGED <<dbVars, summary, faults>>

\* The sentinel is taken.
GotSentinel ==
    /\ WriterOnly /\ writer.pc = "get" /\ resultQueue # <<>> /\ Head(resultQueue) = Sentinel
    /\ resultQueue' = Tail(resultQueue)
    /\ writer'.buffer = writer.buffer /\ writer'.final
    /\ writer'.pc = IF writer.buffer = <<>> THEN "exit" ELSE "flush"
    /\ UNCHANGED <<dbVars, summary, faults>>

\* A batch is due, for the first time or again.
Due ==
    /\ WriterOnly /\ writer.pc \in {"get", "delay"} /\ writer'.pc = "flush"
    /\ writer'.buffer = writer.buffer /\ writer'.final = writer.final
    /\ UNCHANGED <<dbVars, resultQueue, summary, faults>>

\* Storing fails, and the workers are told; the counters may be raised already.
Failing ==
    /\ WriterOnly /\ writer.pc \in {"flush", "progress"} /\ writer'.pc \in {"exit", "delay"}
    /\ writer'.buffer = writer.buffer /\ writer'.final = writer.final
    /\ writer'.pc = "delay" => writer'.attempt < FlushRetries
    /\ summary'.aborted
    /\ summary'.succeeded + summary'.failed >= summary.succeeded + summary.failed
    /\ faults' \in 0..MaxFaults
    /\ UNCHANGED <<dbVars, resultQueue>>

\* The batch is stored.
Stored ==
    /\ WriterOnly /\ FlushCommit /\ writer.pc = "flush" /\ writer'.pc = "progress"
    /\ writer'.buffer = writer.buffer /\ writer'.final = writer.final
    /\ summary'.aborted = summary.aborted
    /\ summary'.succeeded = summary.succeeded + Cardinality(Succeeded(writer.buffer))
    /\ summary'.failed = summary.failed + Cardinality(Failed(writer.buffer))
    /\ jobDone' = summary'.succeeded + summary'.failed

\* The stored batch is done with.
Emptied ==
    /\ WriterOnly /\ writer.pc = "progress"
    /\ writer'.pc = IF writer.final THEN "exit" ELSE "get"
    /\ writer'.buffer = <<>> /\ writer'.final = writer.final
    /\ UNCHANGED <<dbVars, resultQueue, summary, faults>>

LEMMA BufferParts ==
  ASSUME Types
  PROVE  /\ writer.buffer \in Seq(Outcome)
         /\ Succeeded(writer.buffer) \in SUBSET Comment /\ Failed(writer.buffer) \in SUBSET Comment
         /\ Succeeded(writer.buffer) \cup Failed(writer.buffer) = Buffered
         /\ IsFiniteSet(Succeeded(writer.buffer)) /\ IsFiniteSet(Failed(writer.buffer))
         /\ Cardinality(Succeeded(writer.buffer)) \in Nat /\ Cardinality(Failed(writer.buffer)) \in Nat
<1>1. writer.buffer \in Seq(Outcome)
  BY TypeParts DEF WriterRecord
<1>2. Elements(writer.buffer) \subseteq Outcome
  BY <1>1, ElementsIn
<1>3. /\ Succeeded(writer.buffer) \in SUBSET Comment /\ Failed(writer.buffer) \in SUBSET Comment
      /\ Succeeded(writer.buffer) \cup Failed(writer.buffer) = Buffered
  BY <1>2 DEF Succeeded, Failed, Buffered, Outcome
<1>4. IsFiniteSet(Succeeded(writer.buffer)) /\ IsFiniteSet(Failed(writer.buffer))
  BY <1>3, FS_Subset, EngineAssumption
<1>. QED BY <1>1, <1>3, <1>4, FS_CardinalityType

LEMMA CountedParts ==
  ASSUME Types
  PROVE  /\ Counted \in SummaryRecord
         /\ Counted.succeeded = summary.succeeded + Cardinality(Succeeded(writer.buffer))
         /\ Counted.failed = summary.failed + Cardinality(Failed(writer.buffer))
         /\ Counted.circuitOpen = summary.circuitOpen /\ Counted.aborted = summary.aborted
         /\ Counted.cancelled = summary.cancelled
<1>. DEFINE m == Cardinality(Succeeded(writer.buffer))
            n == Cardinality(Failed(writer.buffer))
<1>1. summary \in SummaryRecord /\ m \in Nat /\ n \in Nat
  BY TypeParts, BufferParts
<1>2. Counted = [summary EXCEPT !.succeeded = summary.succeeded + m, !.failed = summary.failed + n]
  BY <1>1 DEF Counted, SummaryRecord
<1>. HIDE DEF m, n
<1>3. summary.succeeded + m \in Nat /\ summary.failed + n \in Nat
  BY <1>1 DEF SummaryRecord
<1>4. /\ Counted \in SummaryRecord
      /\ Counted.succeeded = summary.succeeded + m /\ Counted.failed = summary.failed + n
      /\ Counted.circuitOpen = summary.circuitOpen /\ Counted.aborted = summary.aborted
      /\ Counted.cancelled = summary.cancelled
  BY <1>1, <1>2, <1>3 DEF SummaryRecord
<1>. QED BY <1>4 DEF m, n

LEMMA GetKinds ==
  ASSUME Types, WriterGet
  PROVE  GotOutcome \/ GotSentinel
<1>. DEFINE head == Head(resultQueue)
<1>0. /\ writer.pc = "get" /\ resultQueue # <<>> /\ resultQueue' = Tail(resultQueue)
      /\ UNCHANGED <<workVars, dbVars, summary, faults>>
      /\ writer \in WriterRecord /\ summary \in SummaryRecord
  BY TypeParts DEF WriterGet
<1>1. head \in Message
  BY <1>0, TypeParts, ElementsHead
<1>2. CASE head = Sentinel
  <2>. DEFINE u == [writer EXCEPT !.final = TRUE,
                       !.pc = IF writer.buffer = <<>> THEN "exit" ELSE "flush"]
  <2>1. writer' = u
    BY <1>2 DEF WriterGet
  <2>2. /\ u \in WriterRecord /\ u.buffer = writer.buffer /\ u.final
        /\ u.pc = IF writer.buffer = <<>> THEN "exit" ELSE "flush"
    BY <1>0 DEF WriterRecord, WriterState
  <2>. HIDE DEF u
  <2>. QED BY <1>0, <1>2, <2>1, <2>2 DEF GotSentinel, WriterOnly
<1>3. CASE head # Sentinel
  <2>. DEFINE grown == Append(writer.buffer, head)
              u == [writer EXCEPT !.buffer = grown,
                       !.pc = IF Len(grown) >= BatchSize THEN "flush" ELSE "get"]
  <2>1. writer' = u
    BY <1>3 DEF WriterGet
  <2>2. head \in Outcome /\ writer.buffer \in Seq(Outcome)
    BY <1>0, <1>1, <1>3 DEF Message, WriterRecord
  <2>3. grown \in Seq(Outcome)
    BY <2>2, AppendProperties
  <2>. HIDE DEF grown
  <2>4. /\ u \in WriterRecord /\ u.buffer = grown /\ u.final = writer.final
        /\ u.pc \in {"get", "flush"}
    BY <1>0, <2>3 DEF WriterRecord, WriterState
  <2>. HIDE DEF u
  <2>. QED BY <1>0, <2>1, <2>2, <2>4 DEF GotOutcome, WriterOnly, grown
<1>. QED BY <1>2, <1>3

LEMMA DueKind ==
  ASSUME Types, WriterTimeout \/ (RetryFlush /\ writer.attempt < FlushRetries)
  PROVE  Due
<1>0. writer \in WriterRecord /\ summary \in SummaryRecord
  BY TypeParts
<1>1. CASE WriterTimeout
  <2>1. writer' = [writer EXCEPT !.pc = "flush"] /\ writer.pc = "get"
    BY <1>1 DEF WriterTimeout
  <2>2. /\ writer' \in WriterRecord /\ writer'.pc = "flush"
        /\ writer'.buffer = writer.buffer /\ writer'.final = writer.final
    BY <1>0, <2>1 DEF WriterRecord, WriterState
  <2>. QED BY <1>0, <1>1, <2>1, <2>2 DEF WriterTimeout, Due, WriterOnly
<1>2. CASE RetryFlush /\ writer.attempt < FlushRetries
  <2>1. writer' = [writer EXCEPT !.pc = "flush", !.attempt = @ + 1] /\ writer.pc = "delay"
    BY <1>2 DEF RetryFlush
  <2>2. writer.attempt + 1 \in 1..FlushRetries
    BY <1>0, <1>2, EngineAssumption DEF WriterRecord
  <2>3. /\ writer' \in WriterRecord /\ writer'.pc = "flush"
        /\ writer'.buffer = writer.buffer /\ writer'.final = writer.final
    BY <1>0, <2>1, <2>2 DEF WriterRecord, WriterState
  <2>. QED BY <1>0, <1>2, <2>1, <2>3 DEF RetryFlush, Due, WriterOnly
<1>. QED BY <1>1, <1>2

LEMMA FailureBecomes ==
  ASSUME Types, NEW counters \in SummaryRecord, AfterFailure(counters)
  PROVE  /\ writer' \in WriterRecord /\ writer'.pc \in {"exit", "delay"}
         /\ writer'.buffer = writer.buffer /\ writer'.final = writer.final
         /\ writer'.pc = "delay" => writer'.attempt < FlushRetries
         /\ summary' \in SummaryRecord /\ summary'.aborted
         /\ summary'.succeeded = counters.succeeded /\ summary'.failed = counters.failed
         /\ summary'.circuitOpen = counters.circuitOpen /\ summary'.cancelled = counters.cancelled
         /\ faults' \in 0..MaxFaults
<1>0. writer \in WriterRecord /\ faults \in 0..MaxFaults
  BY TypeParts
<1>1. faults' \in 0..MaxFaults
  BY <1>0, EngineAssumption DEF AfterFailure
<1>2. summary' = [counters EXCEPT !.aborted = TRUE]
  BY DEF AfterFailure
<1>3. /\ summary' \in SummaryRecord /\ summary'.aborted
      /\ summary'.succeeded = counters.succeeded /\ summary'.failed = counters.failed
      /\ summary'.circuitOpen = counters.circuitOpen /\ summary'.cancelled = counters.cancelled
  BY <1>2 DEF SummaryRecord
<1>4. writer' = [writer EXCEPT !.pc = IF writer.attempt >= FlushRetries THEN "exit" ELSE "delay"]
  BY DEF AfterFailure
<1>5. writer.attempt \in Nat /\ FlushRetries \in Nat
  BY <1>0, EngineAssumption DEF WriterRecord
<1>6. /\ writer' \in WriterRecord /\ writer'.pc \in {"exit", "delay"}
      /\ writer'.buffer = writer.buffer /\ writer'.final = writer.final
      /\ writer'.attempt = writer.attempt
      /\ writer'.pc = "delay" => ~(writer.attempt >= FlushRetries)
  BY <1>0, <1>4 DEF WriterRecord, WriterState
<1>. QED BY <1>1, <1>3, <1>5, <1>6

LEMMA FailingKind ==
  ASSUME Types, FlushFail \/ ProgressFail
  PROVE  Failing
<1>0. summary \in SummaryRecord /\ UNCHANGED <<workVars, dbVars, resultQueue>>
      /\ writer.pc \in {"flush", "progress"}
  BY TypeParts DEF FlushFail, ProgressFail
<1>1. PICK counters \in {summary, Counted} : AfterFailure(counters)
  BY DEF FlushFail, ProgressFail
<1>2. /\ counters \in SummaryRecord
      /\ counters.circuitOpen = summary.circuitOpen /\ counters.cancelled = summary.cancelled
  BY <1>0, <1>1, CountedParts
<1>3. counters.succeeded + counters.failed >= summary.succeeded + summary.failed
  <2>. DEFINE m == Cardinality(Succeeded(writer.buffer))
              n == Cardinality(Failed(writer.buffer))
  <2>1. m \in Nat /\ n \in Nat /\ summary.succeeded \in Nat /\ summary.failed \in Nat
    BY <1>0, BufferParts DEF SummaryRecord
  <2>2. \/ counters.succeeded = summary.succeeded /\ counters.failed = summary.failed
        \/ counters.succeeded = summary.succeeded + m /\ counters.failed = summary.failed + n
    BY <1>1, CountedParts
  <2>. HIDE DEF m, n
  <2>. QED BY <2>1, <2>2
<1>4. /\ writer' \in WriterRecord /\ writer'.pc \in {"exit", "delay"}
      /\ writer'.buffer = writer.buffer /\ writer'.final = writer.final
      /\ writer'.pc = "delay" => writer'.attempt < FlushRetries
  BY <1>1, <1>2, FailureBecomes
<1>5. /\ summary' \in SummaryRecord /\ summary'.aborted
      /\ summary'.succeeded = counters.succeeded /\ summary'.failed = counters.failed
      /\ summary'.circuitOpen = counters.circuitOpen /\ summary'.cancelled = counters.cancelled
      /\ faults' \in 0..MaxFaults
  BY <1>1, <1>2, FailureBecomes
<1>. QED BY <1>0, <1>2, <1>3, <1>4, <1>5 DEF Failing, WriterOnly

LEMMA StoredKind ==
  ASSUME Types, FlushCommit
  PROVE  Stored
<1>0. writer \in WriterRecord /\ writer.pc = "flush" /\ UNCHANGED <<workVars, resultQueue, faults>>
      /\ summary' = Counted /\ jobDone' = Counted.succeeded + Counted.failed
      /\ writer' = [writer EXCEPT !.pc = "progress"]
  BY TypeParts DEF FlushCommit
<1>1. /\ writer' \in WriterRecord /\ writer'.pc = "progress"
      /\ writer'.buffer = writer.buffer /\ writer'.final = writer.final
  BY <1>0 DEF WriterRecord, WriterState
<1>. QED BY <1>0, <1>1, CountedParts DEF Stored, WriterOnly

LEMMA EmptiedKind ==
  ASSUME Types, ProgressOk
  PROVE  Emptied
<1>0. /\ writer \in WriterRecord /\ summary \in SummaryRecord
      /\ writer.pc = "progress" /\ writer' = FlushDone
      /\ UNCHANGED <<workVars, dbVars, resultQueue, summary, faults>>
  BY TypeParts DEF ProgressOk
<1>1. 1 \in 1..FlushRetries /\ <<>> \in Seq(Outcome)
  BY EngineAssumption
<1>2. /\ writer' \in WriterRecord /\ writer'.pc = IF writer.final THEN "exit" ELSE "get"
      /\ writer'.buffer = <<>> /\ writer'.final = writer.final
  BY <1>0, <1>1 DEF FlushDone, WriterRecord, WriterState
<1>. QED BY <1>0, <1>2 DEF Emptied, WriterOnly

LEMMA WriterKinds ==
  ASSUME Base, WriterStep
  PROVE  GotOutcome \/ GotSentinel \/ Due \/ Failing \/ Stored \/ Emptied
<1>1. Types
  BY DEF Base
<1>2. RetryFlush => writer.attempt < FlushRetries
  BY DEF Base, Delayed, RetryFlush
<1>. QED BY <1>1, <1>2, GetKinds, DueKind, FailingKind, StoredKind, EmptiedKind DEF WriterStep

(***************************************************************************)
(* The kinds of steps of run and of the shutdown                           *)
(***************************************************************************)
\* The run ends with a summary, or with the cancellation of its task.
Returned ==
    /\ run \in {"drain", "drainKilled"} /\ run' \in {"done", "killed"} /\ writer.pc = "exit"
    /\ run' = "done" <=> run = "drain"
    /\ summary' \in SummaryRecord
    /\ summary'.succeeded = summary.succeeded /\ summary'.failed = summary.failed
    /\ summary'.aborted = summary.aborted /\ summary'.circuitOpen = summary.circuitOpen
    /\ run' = "done" => summary'.cancelled = cancelEvent
    /\ UNCHANGED <<mode, workQueue, resultQueue, worker, breaker, writer, cancelEvent,
                   dbVars, standing, faults, hist>>

\* The workers are taken away where they wait; some requests may have arrived.
WorkersKilled ==
    /\ run = "gather" /\ run' = "drainKilled" /\ cancelEvent
    /\ standing' \in SUBSET standing
    /\ standing' # standing => \E w \in Worker : worker[w].pc = "wire"
    /\ worker' \in [Worker -> WorkerRecord]
    /\ \A w \in Worker : worker'[w].pc = "done" /\ worker'[w].comment = NoComment
    /\ resultQueue' = Append(resultQueue, Sentinel) /\ resultQueue' \in Seq(Message)
    /\ UNCHANGED <<mode, workQueue, breaker, summary, writer, cancelEvent,
                   dbVars, faults, hist>>

\* The writer is taken away.
WriterKilled ==
    /\ run = "drain" /\ run' = "killed" /\ cancelEvent
    /\ writer' \in WriterRecord /\ writer'.pc = "exit"
    /\ writer'.buffer = writer.buffer /\ writer'.final = writer.final
    /\ hist' \in HistRecord /\ hist'.writerKilled
    /\ hist'.answered = hist.answered /\ hist'.refusals = hist.refusals
    /\ hist'.sentAfterOpen = hist.sentAfterOpen /\ hist'.afterAbort = hist.afterAbort
    /\ UNCHANGED <<mode, workQueue, resultQueue, worker, breaker, summary, cancelEvent,
                   dbVars, standing, faults>>

LEMMA SentinelAppends ==
  Types => Append(resultQueue, Sentinel) \in Seq(Message)
<1>1. Types => resultQueue \in Seq(Message)
  BY TypeParts
<1>2. Sentinel \in Message
  BY DEF Message
<1>. QED BY <1>1, <1>2, AppendProperties

LEMMA ReturnedKind ==
  ASSUME Types, RunReturn \/ KilledReturn
  PROVE  Returned
<1>0. summary \in SummaryRecord /\ cancelEvent \in BOOLEAN
  BY TypeParts
<1>1. CASE RunReturn
  <2>1. summary' = [summary EXCEPT !.cancelled = cancelEvent]
    BY <1>1 DEF RunReturn
  <2>2. /\ summary' \in SummaryRecord /\ summary'.cancelled = cancelEvent
        /\ summary'.succeeded = summary.succeeded /\ summary'.failed = summary.failed
        /\ summary'.aborted = summary.aborted /\ summary'.circuitOpen = summary.circuitOpen
    BY <1>0, <2>1 DEF SummaryRecord
  <2>. QED BY <1>1, <2>2 DEF RunReturn, Returned
<1>2. CASE KilledReturn
  BY <1>0, <1>2 DEF KilledReturn, Returned
<1>. QED BY <1>1, <1>2

LEMMA WorkersKilledKind ==
  ASSUME Types, KillWorkers
  PROVE  WorkersKilled
<1>1. PICK S \in SUBSET {worker[w].comment : w \in {v \in Worker : worker[v].pc = "wire"}} :
          standing' = Without(S)
  BY DEF KillWorkers
<1>2. standing' \in SUBSET standing
  BY <1>1 DEF Without
<1>3. standing' # standing => \E w \in Worker : worker[w].pc = "wire"
  <2>. SUFFICES ASSUME \A w \in Worker : worker[w].pc # "wire" PROVE standing' = standing
    OBVIOUS
  <2>1. S = {}
    BY <1>1
  <2>. QED BY <1>1, <2>1 DEF Without
<1>4. /\ worker' \in [Worker -> WorkerRecord]
      /\ \A w \in Worker : worker'[w].pc = "done" /\ worker'[w].comment = NoComment
  BY IdleRecords DEF KillWorkers
<1>. QED BY <1>2, <1>3, <1>4, SentinelAppends DEF KillWorkers, WorkersKilled

LEMMA WriterKilledKind ==
  ASSUME Types, KillWriter
  PROVE  WriterKilled
<1>0. writer \in WriterRecord /\ hist \in HistRecord
  BY TypeParts
<1>1. writer' = [writer EXCEPT !.pc = "exit"] /\ hist' = [hist EXCEPT !.writerKilled = TRUE]
  BY DEF KillWriter
<1>2. /\ writer' \in WriterRecord /\ writer'.pc = "exit"
      /\ writer'.buffer = writer.buffer /\ writer'.final = writer.final
  BY <1>0, <1>1 DEF WriterRecord, WriterState
<1>3. /\ hist' \in HistRecord /\ hist'.writerKilled
      /\ hist'.answered = hist.answered /\ hist'.refusals = hist.refusals
      /\ hist'.sentAfterOpen = hist.sentAfterOpen /\ hist'.afterAbort = hist.afterAbort
  BY <1>0, <1>1 DEF HistRecord
<1>. QED BY <1>2, <1>3 DEF KillWriter, WriterKilled

\* Every step is of one of these kinds.
LEMMA StepKinds ==
  ASSUME Base, [Next]_engineVars
  PROVE  \/ \E w \in Worker :
               \/ Left(w) \/ Grabbed(w) \/ Moved(w)
               \/ \E c \in Comment, success \in BOOLEAN : HandedTaken(w, c, success)
               \/ \E c \in Comment, success \in BOOLEAN : HandedHeld(w, c, success)
         \/ GotOutcome \/ GotSentinel \/ Due \/ Failing \/ Stored \/ Emptied
         \/ PutSentinel \/ Returned \/ Cancel \/ WorkersKilled \/ WriterKilled
         \/ UNCHANGED engineVars
<1>1. Types
  BY DEF Base
<1>. QED BY <1>1, WorkerKinds, WriterKinds, ReturnedKind, WorkersKilledKind, WriterKilledKind
     DEF Next, RunStep

-----------------------------------------------------------------------------
(***************************************************************************)
(* Types, hands and retries are inductive                                  *)
(***************************************************************************)
LEMMA InitialRecords ==
  ASSUME Init
  PROVE  /\ worker \in [Worker -> WorkerRecord]
         /\ \A w \in Worker : worker[w].pc = "take" /\ worker[w].comment = NoComment
         /\ breaker \in BreakerRecord /\ summary \in SummaryRecord /\ writer \in WriterRecord
         /\ writer.buffer = <<>> /\ hist \in HistRecord
<1>1. /\ worker \in [Worker -> WorkerRecord]
      /\ \A w \in Worker : worker[w].pc = "take" /\ worker[w].comment = NoComment
  <2>1. IdleWorker \in WorkerRecord /\ IdleWorker.pc = "take" /\ IdleWorker.comment = NoComment
    BY EngineAssumption DEF IdleWorker, WorkerRecord, WorkerState, Answer
  <2>2. worker = [w \in Worker |-> IdleWorker]
    BY DEF Init
  <2>. QED BY <2>1, <2>2
<1>2. breaker \in BreakerRecord /\ summary \in SummaryRecord
  BY DEF Init, BreakerRecord, SummaryRecord
<1>3. 1 \in 1..FlushRetries /\ <<>> \in Seq(Outcome)
  BY EngineAssumption
<1>4. writer \in WriterRecord /\ writer.buffer = <<>>
  BY <1>3 DEF Init, WriterRecord, WriterState
<1>5. hist \in HistRecord
  BY DEF Init, HistRecord
<1>. QED BY <1>1, <1>2, <1>4, <1>5

\* The queue starts as an enumeration of the comments, each of them once.
LEMMA InitialQueue ==
  ASSUME Init
  PROVE  workQueue \in Seq(Comment) /\ Elements(workQueue) = Comment /\ NoDup(workQueue)
<1>. DEFINE n == Cardinality(Comment)
<1>1. n \in Nat
  BY EngineAssumption, FS_CardinalityType
<1>2. workQueue \in [1..n -> Comment] /\ Elements(workQueue) = Comment
  BY DEF Init, Orders
<1>. HIDE DEF n
<1>3. workQueue \in Seq(Comment) /\ Len(workQueue) = n
  BY <1>1, <1>2
<1>4. IsFiniteSet(1..n) /\ Cardinality(1..n) = n
  BY <1>1, FS_Interval
<1>5. workQueue \in Surjection(1..n, Comment)
  BY <1>2, <1>3 DEF Surjection, Elements
<1>6. workQueue \in Injection(1..n, Comment)
  <2>1. Cardinality(1..n) = Cardinality(Comment)
    BY <1>4 DEF n
  <2>. QED BY <1>4, <1>5, <2>1, FS_SurjSameCardinalityImpliesInj
<1>7. NoDup(workQueue)
  BY <1>3, <1>6 DEF Injection, IsInjective, NoDup
<1>. QED BY <1>2, <1>3, <1>7

LEMMA BaseInitial == Init => Base
<1>. SUFFICES ASSUME Init PROVE Base
  OBVIOUS
<1>1. Types
  <2>1. resultQueue \in Seq(Message)
    BY DEF Init
  <2>2. faults = 0 /\ jobDone = 0 /\ run \in RunState /\ cancelEvent \in BOOLEAN
    BY DEF Init, RunState
  <2>4. 0 \in 0..MaxFaults
    BY EngineAssumption
  <2>3. /\ item \in [Comment -> {"pending", "succeeded", "failed"}]
        /\ status \in [Comment -> {"active", "deleted", "failed"}]
        /\ standing \in SUBSET Comment /\ mode \in {"live", "dry", "nocookie"}
    BY DEF Init
  <2>. QED BY <2>1, <2>2, <2>3, <2>4, InitialRecords, InitialQueue, TypeParts
<1>2. Hands
  BY InitialRecords DEF Hands, Idle, Active
<1>3. Delayed
  BY DEF Init, Delayed
<1>. QED BY <1>1, <1>2, <1>3 DEF Base

LEMMA TypesStep ==
  ASSUME Base, [Next]_engineVars
  PROVE  Types'
<1>0. /\ mode \in {"live", "dry", "nocookie"} /\ workQueue \in Seq(Comment)
      /\ resultQueue \in Seq(Message) /\ worker \in [Worker -> WorkerRecord]
      /\ breaker \in BreakerRecord /\ summary \in SummaryRecord
      /\ writer \in WriterRecord /\ run \in RunState /\ cancelEvent \in BOOLEAN
      /\ item \in [Comment -> {"pending", "succeeded", "failed"}]
      /\ status \in [Comment -> {"active", "deleted", "failed"}]
      /\ jobDone \in Nat /\ standing \in SUBSET Comment /\ faults \in 0..MaxFaults
      /\ hist \in HistRecord /\ Types
  BY TypeParts DEF Base
<1>. DEFINE Goal == /\ mode' \in {"live", "dry", "nocookie"} /\ workQueue' \in Seq(Comment)
                    /\ resultQueue' \in Seq(Message) /\ worker' \in [Worker -> WorkerRecord]
                    /\ breaker' \in BreakerRecord /\ summary' \in SummaryRecord
                    /\ writer' \in WriterRecord /\ run' \in RunState /\ cancelEvent' \in BOOLEAN
                    /\ item' \in [Comment -> {"pending", "succeeded", "failed"}]
                    /\ status' \in [Comment -> {"active", "deleted", "failed"}]
                    /\ jobDone' \in Nat /\ standing' \in SUBSET Comment /\ faults' \in 0..MaxFaults
                    /\ hist' \in HistRecord
<1>1. workQueue # <<>> => Tail(workQueue) \in Seq(Comment)
  BY <1>0, ElementsHead
<1>2. resultQueue # <<>> => Tail(resultQueue) \in Seq(Message)
  BY <1>0, ElementsHead
<1>3. ASSUME NEW w \in Worker, Left(w) PROVE Goal
  BY <1>0, <1>1, <1>3 DEF Left, OnlyMoves, storeVars
<1>4. ASSUME NEW w \in Worker, Grabbed(w) PROVE Goal
  BY <1>0, <1>1, <1>4 DEF Grabbed, OnlyMoves, storeVars
<1>5. ASSUME NEW w \in Worker, Moved(w) PROVE Goal
  <2>1. hist' \in HistRecord
    <3>1. CASE hist' = hist
      BY <1>0, <3>1
    <3>2. CASE hist' = [hist EXCEPT !.sentAfterOpen = IF breaker.open THEN @ + 1 ELSE @]
      <4>. DEFINE n == IF breaker.open THEN hist.sentAfterOpen + 1 ELSE hist.sentAfterOpen
      <4>1. n \in Nat
        BY <1>0 DEF HistRecord
      <4>2. hist' = [hist EXCEPT !.sentAfterOpen = n]
        BY <3>2
      <4>. HIDE DEF n
      <4>. QED BY <1>0, <4>1, <4>2 DEF HistRecord
    <3>. QED BY <1>5, <3>1, <3>2 DEF Moved
  <2>2. standing' \in SUBSET Comment
    BY <1>0, <1>5 DEF Moved
  <2>. QED BY <1>0, <1>5, <2>1, <2>2 DEF Moved, OnlyMoves, storeVars
<1>6. ASSUME NEW w \in Worker, NEW c \in Comment, NEW success \in BOOLEAN,
             Handed(w, c, success), workQueue' \in Seq(Comment)
      PROVE  Goal
  BY <1>0, <1>6 DEF Handed, OnlyMoves, storeVars
<1>7. ASSUME NEW w \in Worker, NEW c \in Comment, NEW success \in BOOLEAN,
             HandedTaken(w, c, success) \/ HandedHeld(w, c, success)
      PROVE  Goal
  BY <1>0, <1>1, <1>6, <1>7 DEF HandedTaken, HandedHeld
<1>8. ASSUME GotOutcome \/ GotSentinel \/ Due \/ Failing \/ Emptied PROVE Goal
  BY <1>0, <1>2, <1>8
  DEF GotOutcome, GotSentinel, Due, Failing, Emptied, WriterOnly, workVars, dbVars
<1>9. ASSUME Stored PROVE Goal
  <2>1. summary' \in SummaryRecord /\ writer' \in WriterRecord
        /\ UNCHANGED <<mode, workQueue, worker, breaker, run, cancelEvent, standing, hist,
                       resultQueue, faults>>
    BY <1>9 DEF Stored, WriterOnly, workVars, FlushCommit
  <2>2. /\ item' \in [Comment -> {"pending", "succeeded", "failed"}]
        /\ status' \in [Comment -> {"active", "deleted", "failed"}]
    BY <1>0, <1>9 DEF Stored, FlushCommit
  <2>3. jobDone' \in Nat
    BY <1>9, <2>1 DEF Stored, SummaryRecord
  <2>. QED BY <1>0, <2>1, <2>2, <2>3
<1>10. ASSUME PutSentinel PROVE Goal
  BY <1>0, <1>10, SentinelAppends DEF PutSentinel, dbVars, RunState
<1>11. ASSUME Returned PROVE Goal
  BY <1>0, <1>11 DEF Returned, dbVars, RunState
<1>12. ASSUME Cancel PROVE Goal
  BY <1>0, <1>12 DEF Cancel, dbVars
<1>13. ASSUME WorkersKilled PROVE Goal
  <2>1. standing' \in SUBSET Comment
    BY <1>0, <1>13 DEF WorkersKilled
  <2>. QED BY <1>0, <1>13, <2>1 DEF WorkersKilled, dbVars, RunState
<1>14. ASSUME WriterKilled PROVE Goal
  BY <1>0, <1>14 DEF WriterKilled, dbVars, RunState
<1>15. ASSUME UNCHANGED engineVars PROVE Goal
  BY <1>0, <1>15 DEF engineVars
<1>. HIDE DEF Goal
<1>16. Goal
  BY <1>3, <1>4, <1>5, <1>7, <1>8, <1>9, <1>10, <1>11, <1>12, <1>13, <1>14, <1>15, StepKinds
<1>17. Goal => Types'
  BY DEF Goal, Types, TypeOK, WorkerRecord, BreakerRecord, SummaryRecord, WriterRecord, Message
<1>. QED BY <1>16, <1>17

LEMMA BaseStep == Base /\ [Next]_engineVars => Base'
<1>. SUFFICES ASSUME Base, [Next]_engineVars PROVE Base'
  OBVIOUS
<1>0. Types /\ Hands /\ Delayed
  BY DEF Base
<1>1. Hands'
  <2>1. ASSUME NEW w \in Worker, OnlyMoves(w), mode' = mode,
               worker'[w].pc \in Idle /\ worker'[w].comment = NoComment
        PROVE  Hands'
    BY <1>0, <2>1 DEF Hands, OnlyMoves, Idle, Active
  <2>2. ASSUME NEW w \in Worker, Left(w) PROVE Hands'
    BY <2>1, <2>2 DEF Left, Idle
  <2>3. ASSUME NEW w \in Worker, NEW c, NEW success, HandedTaken(w, c, success) \/ HandedHeld(w, c, success)
        PROVE  Hands'
    BY <2>1, <2>3 DEF HandedTaken, HandedHeld, Handed
  <2>4. ASSUME NEW w \in Worker, Grabbed(w) PROVE Hands'
    <3>1. Head(workQueue) \in Comment /\ NoComment \notin Comment
      BY <2>4, ElementsHead, TypeParts, EngineAssumption DEF Grabbed, Base
    <3>. QED BY <1>0, <2>4, <3>1 DEF Grabbed, OnlyMoves, Hands, Idle, Active
  <2>5. ASSUME NEW w \in Worker, Moved(w) PROVE Hands'
    BY <1>0, <2>5 DEF Moved, OnlyMoves, Hands, Idle, Active
  <2>6. CASE WorkersKilled
    BY <1>0, <2>6 DEF WorkersKilled, Hands, Idle, Active
  <2>7. CASE UNCHANGED <<worker, mode>>
    BY <1>0, <2>7 DEF Hands
  <2>8. GotOutcome \/ GotSentinel \/ Due \/ Failing \/ Stored \/ Emptied
        \/ PutSentinel \/ Returned \/ Cancel \/ WriterKilled \/ UNCHANGED engineVars
        => UNCHANGED <<worker, mode>>
    BY DEF GotOutcome, GotSentinel, Due, Failing, Stored, Emptied, WriterOnly, workVars,
           PutSentinel, Returned, Cancel, WriterKilled, engineVars
  <2>. QED BY <2>2, <2>3, <2>4, <2>5, <2>6, <2>7, <2>8, StepKinds
<1>2. Delayed'
  <2>1. CASE GotOutcome \/ GotSentinel \/ Due \/ Failing \/ Stored \/ Emptied \/ WriterKilled
    BY <2>1 DEF GotOutcome, GotSentinel, Due, Failing, Stored, Emptied, WriterKilled, Delayed
  <2>2. CASE UNCHANGED writer
    BY <1>0, <2>2 DEF Delayed
  <2>3. ASSUME NEW w \in Worker,
               \/ Left(w) \/ Grabbed(w) \/ Moved(w)
               \/ \E c \in Comment, success \in BOOLEAN : HandedTaken(w, c, success)
               \/ \E c \in Comment, success \in BOOLEAN : HandedHeld(w, c, success)
        PROVE  UNCHANGED writer
    BY <2>3 DEF Left, Grabbed, Moved, HandedTaken, HandedHeld, Handed, storeVars
  <2>4. PutSentinel \/ Returned \/ Cancel \/ WorkersKilled \/ UNCHANGED engineVars
        => UNCHANGED writer
    BY DEF PutSentinel, Returned, Cancel, WorkersKilled, engineVars
  <2>. QED BY <2>1, <2>2, <2>3, <2>4, StepKinds
<1>. QED BY <1>1, <1>2, TypesStep DEF Base

LEMMA BaseInvariant == Spec => []Base
<1>. QED BY BaseInitial, BaseStep, PTL DEF Spec

-----------------------------------------------------------------------------
(***************************************************************************)
(* One place per comment                                                   *)
(***************************************************************************)
Queued  == Elements(workQueue)
Waiting == {o.comment : o \in Results}

\* Of each comment a sequence of messages has one outcome at most.
OncePer(s) ==
    \A i, j \in 1..Len(s) :
        s[i] # Sentinel /\ s[j] # Sentinel /\ s[i].comment = s[j].comment => i = j

OnceBuffered == \A o, p \in Elements(writer.buffer) : o.comment = p.comment => o = p

Places ==
    /\ NoDup(workQueue) /\ OncePer(resultQueue) /\ OnceBuffered
    /\ OnePlace

LEMMA OnePlaceParts ==
  OnePlace <=> /\ Queued \cap (InHand \cup Waiting \cup Buffered \cup Recorded) = {}
               /\ InHand \cap (Waiting \cup Buffered \cup Recorded) = {}
               /\ Waiting \cap (Buffered \cup Recorded) = {}
               /\ \A v, w \in Worker : v # w /\ worker[v].comment # NoComment
                                         => worker[v].comment # worker[w].comment
  BY DEF OnePlace, Queued, Waiting

\* The comments of the outcomes in a sequence.
LEMMA OutcomesAppend ==
  ASSUME NEW s \in Seq(Message), NEW o \in Outcome
  PROVE  /\ {x.comment : x \in Elements(Append(s, o)) \ {Sentinel}}
                = {x.comment : x \in Elements(s) \ {Sentinel}} \cup {o.comment}
         /\ OncePer(s) /\ o.comment \notin {x.comment : x \in Elements(s) \ {Sentinel}}
                => OncePer(Append(s, o))
<1>1. o \in Message /\ o # Sentinel
  BY SentinelIsNoOutcome DEF Message
<1>2. Elements(Append(s, o)) = Elements(s) \cup {o}
  BY <1>1, ElementsAppend
<1>3. ASSUME OncePer(s), o.comment \notin {x.comment : x \in Elements(s) \ {Sentinel}}
      PROVE  OncePer(Append(s, o))
  <2>. DEFINE n == Len(s) + 1
  <2>1. /\ Len(s) \in Nat /\ Len(Append(s, o)) = n /\ Append(s, o)[n] = o
        /\ \A i \in 1..Len(s) : Append(s, o)[i] = s[i]
    BY <1>1, AppendProperties, LenProperties
  <2>2. \A i \in 1..n : i \in 1..Len(s) \/ i = n
    BY <2>1
  <2>3. \A i \in 1..Len(s) : s[i] # Sentinel => s[i].comment # o.comment
    BY <1>3 DEF Elements
  <2>. SUFFICES ASSUME NEW i \in 1..n, NEW j \in 1..n,
                       Append(s, o)[i] # Sentinel, Append(s, o)[j] # Sentinel,
                       Append(s, o)[i].comment = Append(s, o)[j].comment
                PROVE  i = j
    BY <2>1 DEF OncePer
  <2>4. CASE i \in 1..Len(s) /\ j \in 1..Len(s)
    BY <1>3, <2>1, <2>4 DEF OncePer
  <2>5. CASE i \in 1..Len(s) /\ j = n
    BY <2>1, <2>3, <2>5
  <2>6. CASE i = n /\ j \in 1..Len(s)
    BY <2>1, <2>3, <2>6
  <2>. QED BY <2>2, <2>4, <2>5, <2>6
<1>. QED BY <1>1, <1>2, <1>3

LEMMA OutcomesSentinel ==
  ASSUME NEW s \in Seq(Message)
  PROVE  /\ {x.comment : x \in Elements(Append(s, Sentinel)) \ {Sentinel}}
                = {x.comment : x \in Elements(s) \ {Sentinel}}
         /\ OncePer(s) => OncePer(Append(s, Sentinel))
<1>1. Sentinel \in Message
  BY DEF Message
<1>2. Elements(Append(s, Sentinel)) = Elements(s) \cup {Sentinel}
  BY <1>1, ElementsAppend
<1>3. ASSUME OncePer(s) PROVE OncePer(Append(s, Sentinel))
  <2>. DEFINE n == Len(s) + 1
  <2>1. /\ Len(s) \in Nat /\ Len(Append(s, Sentinel)) = n /\ Append(s, Sentinel)[n] = Sentinel
        /\ \A i \in 1..Len(s) : Append(s, Sentinel)[i] = s[i]
    BY <1>1, AppendProperties, LenProperties
  <2>2. \A i \in 1..n : i \in 1..Len(s) \/ i = n
    BY <2>1
  <2>. QED BY <1>3, <2>1, <2>2 DEF OncePer
<1>. QED BY <1>2, <1>3

LEMMA OutcomesTail ==
  ASSUME NEW s \in Seq(Message), s # <<>>, OncePer(s)
  PROVE  /\ OncePer(Tail(s))
         /\ Head(s) = Sentinel => {x.comment : x \in Elements(Tail(s)) \ {Sentinel}}
                                    = {x.comment : x \in Elements(s) \ {Sentinel}}
         /\ Head(s) # Sentinel => {x.comment : x \in Elements(Tail(s)) \ {Sentinel}}
                                    = {x.comment : x \in Elements(s) \ {Sentinel}} \ {Head(s).comment}
<1>1. /\ Tail(s) \in Seq(Message) /\ Elements(s) = {Head(s)} \cup Elements(Tail(s))
      /\ \A i \in 1..Len(Tail(s)) : i + 1 \in 1..Len(s) /\ Tail(s)[i] = s[i + 1]
      /\ 1 \in 1..Len(s) /\ Head(s) = s[1]
  BY ElementsHead
<1>2. Len(Tail(s)) \in Nat
  BY <1>1, LenProperties
<1>3. OncePer(Tail(s))
  <2>. SUFFICES ASSUME NEW i \in 1..Len(Tail(s)), NEW j \in 1..Len(Tail(s)),
                       Tail(s)[i] # Sentinel, Tail(s)[j] # Sentinel,
                       Tail(s)[i].comment = Tail(s)[j].comment
                PROVE  i = j
    BY DEF OncePer
  <2>1. i + 1 = j + 1
    BY <1>1 DEF OncePer
  <2>. QED BY <1>2, <2>1
<1>4. ASSUME Head(s) # Sentinel, NEW x \in Elements(Tail(s)), x # Sentinel
      PROVE  x.comment # Head(s).comment
  <2>1. PICK i \in 1..Len(Tail(s)) : x = Tail(s)[i]
    BY DEF Elements
  <2>2. x.comment = Head(s).comment => i + 1 = 1
    BY <1>1, <1>4, <2>1 DEF OncePer
  <2>. QED BY <1>2, <2>1, <2>2
<1>. QED BY <1>1, <1>3, <1>4

\* No comment is in two hands.
OneHolder ==
    \A v, w \in Worker : v # w /\ worker[v].comment # NoComment
                           => worker[v].comment # worker[w].comment

LEMMA HandEmptied ==
  ASSUME OneHolder, NEW w \in Worker, OnlyMoves(w), worker'[w].comment = NoComment
  PROVE  InHand' = InHand \ {worker[w].comment} /\ OneHolder'
<1>1. /\ worker'[w].comment = NoComment
      /\ \A v \in Worker : v # w => worker'[v].comment = worker[v].comment
  BY DEF OnlyMoves
<1>2. OneHolder'
  BY <1>1 DEF OneHolder
<1>3. InHand' = InHand \ {worker[w].comment}
  <2>1. ASSUME NEW c, c # NoComment
        PROVE  (\E v \in Worker : worker'[v].comment = c)
               <=> (\E v \in Worker : worker[v].comment = c) /\ c # worker[w].comment
    BY <1>1, <2>1 DEF OneHolder
  <2>. QED BY <2>1 DEF InHand
<1>. QED BY <1>2, <1>3

LEMMA HandKept ==
  ASSUME OneHolder, NEW w \in Worker, OnlyMoves(w), worker'[w].comment = worker[w].comment
  PROVE  InHand' = InHand /\ OneHolder'
<1>1. \A v \in Worker : worker'[v].comment = worker[v].comment
  BY DEF OnlyMoves
<1>. QED BY <1>1 DEF InHand, OneHolder

LEMMA HandFilled ==
  ASSUME OneHolder, NEW w \in Worker, OnlyMoves(w), worker[w].comment = NoComment,
         NEW c \in Comment \ InHand, worker'[w].comment = c
  PROVE  InHand' = InHand \cup {c} /\ OneHolder'
<1>1. /\ c # NoComment /\ worker'[w].comment = c
      /\ \A v \in Worker : v # w => worker'[v].comment = worker[v].comment
      /\ \A v \in Worker : worker[v].comment # c
  BY EngineAssumption DEF OnlyMoves, InHand
<1>2. OneHolder'
  BY <1>1 DEF OneHolder
<1>3. InHand' = InHand \cup {c}
  <2>1. ASSUME NEW d, d # NoComment
        PROVE  (\E v \in Worker : worker'[v].comment = d)
               <=> (\E v \in Worker : worker[v].comment = d) \/ d = c
    BY <1>1, <2>1
  <2>. QED BY <1>1, <2>1 DEF InHand
<1>. QED BY <1>2, <1>3

LEMMA PlacesInitial == Init => Places
<1>. SUFFICES ASSUME Init PROVE Places
  OBVIOUS
<1>1. resultQueue = <<>> /\ writer.buffer = <<>> /\ NoDup(workQueue)
  BY InitialRecords, InitialQueue DEF Init
<1>2. Elements(resultQueue) = {} /\ Elements(writer.buffer) = {}
  BY <1>1, ElementsEmpty
<1>3. OncePer(resultQueue)
  BY <1>1 DEF OncePer
<1>4. OnceBuffered /\ Waiting = {} /\ Buffered = {}
  BY <1>2 DEF OnceBuffered, Waiting, Results, Buffered
<1>5. Recorded = {} /\ InHand = {}
  BY InitialRecords DEF Init, Recorded, InHand
<1>6. OnePlace
  BY <1>4, <1>5, InitialRecords, OnePlaceParts
<1>. QED BY <1>1, <1>3, <1>4, <1>6 DEF Places

\* What the places say of one another.
Apart ==
    /\ Queued \cap (InHand \cup Waiting \cup Buffered \cup Recorded) = {}
    /\ InHand \cap (Waiting \cup Buffered \cup Recorded) = {}
    /\ Waiting \cap (Buffered \cup Recorded) = {}

LEMMA OnePlaceIs == OnePlace <=> Apart /\ OneHolder
  BY OnePlaceParts DEF Apart, OneHolder

\* A worker hands over an outcome.
LEMMA HandedPlaces ==
  ASSUME Base, Places, NEW w \in Worker, NEW c \in Comment, NEW success \in BOOLEAN,
         HandedTaken(w, c, success) \/ HandedHeld(w, c, success)
  PROVE  /\ Places' /\ Waiting' = Waiting \cup {c} /\ Buffered' = Buffered /\ Recorded' = Recorded
         /\ Queued' \cup InHand' = (Queued \cup InHand) \ {c}
         /\ c \in Queued \cup InHand
<1>. DEFINE o == [comment |-> c, success |-> success]
<1>0. /\ NoDup(workQueue) /\ OncePer(resultQueue) /\ OnceBuffered /\ Apart /\ OneHolder
      /\ resultQueue \in Seq(Message) /\ workQueue \in Seq(Comment)
  BY TypeParts, OnePlaceIs DEF Places, Base
<1>1. Handed(w, c, success) /\ OnlyMoves(w) /\ worker'[w].comment = NoComment
  BY DEF HandedTaken, HandedHeld, Handed
<1>2. /\ resultQueue' = Append(resultQueue, o)
      /\ UNCHANGED <<writer, item>>
  BY <1>1 DEF Handed, storeVars
<1>3. o \in Outcome /\ o.comment = c
  BY OutcomeParts
<1>. HIDE DEF o
<1>4. Waiting' = Waiting \cup {c}
  BY <1>0, <1>2, <1>3, OutcomesAppend DEF Waiting, Results
<1>5. Buffered' = Buffered /\ Recorded' = Recorded /\ OnceBuffered'
  BY <1>0, <1>2 DEF Buffered, Recorded, OnceBuffered
<1>6. InHand' = InHand \ {worker[w].comment} /\ OneHolder'
  BY <1>0, <1>1, HandEmptied
<1>7. CASE HandedTaken(w, c, success)
  <2>1. /\ worker[w].comment = NoComment /\ workQueue # <<>>
        /\ c = Head(workQueue) /\ workQueue' = Tail(workQueue)
    BY <1>7 DEF HandedTaken, Base, Hands, Idle
  <2>2. NoDup(workQueue') /\ Queued' = Queued \ {c} /\ c \in Queued
    BY <1>0, <2>1, NoDupTail, ElementsHead DEF Queued
  <2>3. InHand' = InHand /\ c \notin InHand
    BY <1>0, <1>6, <2>1, <2>2 DEF InHand, Apart
  <2>4. OncePer(resultQueue')
    BY <1>0, <1>2, <1>3, <2>2, OutcomesAppend DEF Apart, Waiting, Results
  <2>5. Apart'
    BY <1>0, <1>4, <1>5, <2>2, <2>3 DEF Apart
  <2>6. NoDup(workQueue)'
    BY <2>2 DEF NoDup
  <2>7. OncePer(resultQueue)'
    BY <2>4 DEF OncePer
  <2>8. OnePlace'
    BY <1>6, <2>5, OnePlaceIs DEF OnePlace, Apart, OneHolder, Queued, Waiting
  <2>. QED BY <1>4, <1>5, <2>2, <2>3, <2>6, <2>7, <2>8 DEF Places
<1>8. CASE HandedHeld(w, c, success)
  <2>1. c = worker[w].comment /\ workQueue' = workQueue
    BY <1>8 DEF HandedHeld
  <2>2. c \in InHand /\ Queued' = Queued
    BY <2>1, EngineAssumption DEF InHand, Queued
  <2>4. OncePer(resultQueue')
    BY <1>0, <1>2, <1>3, <2>2, OutcomesAppend DEF Apart, Waiting, Results
  <2>5. Apart'
    BY <1>0, <1>4, <1>5, <1>6, <2>1, <2>2 DEF Apart
  <2>6. NoDup(workQueue)'
    BY <1>0, <2>1 DEF NoDup
  <2>7. OncePer(resultQueue)'
    BY <2>4 DEF OncePer
  <2>8. OnePlace'
    BY <1>6, <2>5, OnePlaceIs DEF OnePlace, Apart, OneHolder, Queued, Waiting
  <2>9. c \notin Queued
    BY <1>0, <2>2 DEF Apart
  <2>. QED BY <1>4, <1>5, <1>6, <2>1, <2>2, <2>6, <2>7, <2>8, <2>9 DEF Places
<1>. QED BY <1>7, <1>8

\* The places after a step, from those that it changes.
LEMMA PlacesFrom ==
  ASSUME Places, workQueue' = workQueue \/ (workQueue # <<>> /\ workQueue' = Tail(workQueue)),
         workQueue \in Seq(Comment),
         OncePer(resultQueue)', OnceBuffered', Apart', OneHolder'
  PROVE  Places'
<1>1. NoDup(workQueue)'
  <2>1. CASE workQueue' = workQueue
    BY <2>1 DEF Places, NoDup
  <2>2. CASE workQueue # <<>> /\ workQueue' = Tail(workQueue)
    <3>1. NoDup(Tail(workQueue))
      BY <2>2, NoDupTail DEF Places
    <3>. QED BY <2>2, <3>1 DEF NoDup
  <2>. QED BY <2>1, <2>2
<1>2. OnePlace'
  BY DEF OnePlace, Apart, OneHolder, Queued, Waiting
<1>. QED BY <1>1, <1>2 DEF Places

\* A batch is stored: what was in the buffer is recorded.
LEMMA StoredRecords ==
  ASSUME Types, Stored
  PROVE  /\ Recorded' = Recorded \cup Buffered
         /\ \A c \in Comment : c \notin Buffered => item'[c] = item[c] /\ status'[c] = status[c]
         /\ \A c \in Succeeded(writer.buffer) :
                /\ item'[c] = "succeeded" /\ status'[c] = IF mode # "dry" THEN "deleted"
                                                          ELSE status'[c]
         /\ \A c \in Failed(writer.buffer) : c \notin Succeeded(writer.buffer) =>
                item'[c] = "failed" /\ status'[c] = "failed"
<1>. DEFINE good == Succeeded(writer.buffer)
            bad == Failed(writer.buffer)
<1>1. /\ item' = [c \in Comment |-> IF c \in good THEN "succeeded"
                                    ELSE IF c \in bad THEN "failed" ELSE item[c]]
      /\ status' = [c \in Comment |-> IF c \in good /\ mode # "dry" THEN "deleted"
                                      ELSE IF c \in bad THEN "failed" ELSE status[c]]
  BY DEF Stored, FlushCommit
<1>2. good \cup bad = Buffered /\ good \in SUBSET Comment /\ bad \in SUBSET Comment
  BY BufferParts
<1>. HIDE DEF good, bad
<1>3. Recorded' = Recorded \cup Buffered
  BY <1>1, <1>2 DEF Recorded
<1>4. \A c \in Comment : c \notin Buffered => item'[c] = item[c] /\ status'[c] = status[c]
  BY <1>1, <1>2
<1>5. \A c \in good : item'[c] = "succeeded" /\ (mode # "dry" => status'[c] = "deleted")
  BY <1>1, <1>2
<1>6. \A c \in bad : c \notin good => item'[c] = "failed" /\ status'[c] = "failed"
  BY <1>1, <1>2
<1>. QED BY <1>3, <1>4, <1>5, <1>6 DEF good, bad

LEMMA PlacesStep == Base /\ Places /\ [Next]_engineVars => Places'
<1>. SUFFICES ASSUME Base, Places, [Next]_engineVars PROVE Places'
  OBVIOUS
<1>0. /\ Types /\ resultQueue \in Seq(Message) /\ workQueue \in Seq(Comment)
      /\ OncePer(resultQueue) /\ OnceBuffered /\ Apart /\ OneHolder
  BY TypeParts, OnePlaceIs DEF Places, Base
<1>1. ASSUME NEW w \in Worker, NEW c \in Comment, NEW success \in BOOLEAN,
             HandedTaken(w, c, success) \/ HandedHeld(w, c, success)
      PROVE  Places'
  BY <1>1, HandedPlaces
<1>2. ASSUME NEW w \in Worker, Left(w) PROVE Places'
  <2>1. /\ OnlyMoves(w) /\ worker'[w].comment = NoComment
        /\ UNCHANGED <<resultQueue, writer, item>>
        /\ workQueue' = workQueue \/ (workQueue # <<>> /\ workQueue' = Tail(workQueue))
    BY <1>2 DEF Left, storeVars
  <2>2. InHand' \subseteq InHand /\ OneHolder'
    BY <1>0, <2>1, HandEmptied
  <2>3. Queued' \subseteq Queued
    BY <1>0, <2>1, ElementsHead DEF Queued
  <2>4. Waiting' = Waiting /\ Buffered' = Buffered /\ Recorded' = Recorded
    BY <2>1 DEF Waiting, Results, Buffered, Recorded
  <2>5. Apart'
    BY <1>0, <2>2, <2>3, <2>4 DEF Apart
  <2>6. OncePer(resultQueue)' /\ OnceBuffered'
    BY <1>0, <2>1 DEF OncePer, OnceBuffered
  <2>. QED BY <1>0, <2>1, <2>2, <2>5, <2>6, PlacesFrom
<1>3. ASSUME NEW w \in Worker, Grabbed(w) PROVE Places'
  <2>. DEFINE c == Head(workQueue)
  <2>1. /\ OnlyMoves(w) /\ worker'[w].comment = c /\ worker[w].comment = NoComment
        /\ UNCHANGED <<resultQueue, writer, item>>
        /\ workQueue # <<>> /\ workQueue' = Tail(workQueue)
    BY <1>3 DEF Grabbed, storeVars, Base, Hands, Idle
  <2>2. c \in Comment /\ c \in Queued /\ Queued' = Queued \ {c}
    BY <1>0, <2>1, ElementsHead, NoDupTail DEF Queued, Places
  <2>3. c \notin InHand
    BY <1>0, <2>2 DEF Apart
  <2>4. InHand' = InHand \cup {c} /\ OneHolder'
    BY <1>0, <2>1, <2>2, <2>3, HandFilled
  <2>5. Waiting' = Waiting /\ Buffered' = Buffered /\ Recorded' = Recorded
    BY <2>1 DEF Waiting, Results, Buffered, Recorded
  <2>6. Apart'
    BY <1>0, <2>2, <2>4, <2>5 DEF Apart
  <2>7. OncePer(resultQueue)' /\ OnceBuffered'
    BY <1>0, <2>1 DEF OncePer, OnceBuffered
  <2>. QED BY <1>0, <2>1, <2>4, <2>6, <2>7, PlacesFrom
<1>4. ASSUME NEW w \in Worker, Moved(w) PROVE Places'
  <2>1. /\ OnlyMoves(w) /\ worker'[w].comment = worker[w].comment
        /\ UNCHANGED <<resultQueue, writer, item, workQueue>>
    BY <1>4 DEF Moved, storeVars
  <2>2. InHand' = InHand /\ OneHolder'
    BY <1>0, <2>1, HandKept
  <2>3. /\ Queued' = Queued /\ Waiting' = Waiting /\ Buffered' = Buffered /\ Recorded' = Recorded
    BY <2>1 DEF Queued, Waiting, Results, Buffered, Recorded
  <2>4. Apart'
    BY <1>0, <2>2, <2>3 DEF Apart
  <2>5. OncePer(resultQueue)' /\ OnceBuffered'
    BY <1>0, <2>1 DEF OncePer, OnceBuffered
  <2>. QED BY <1>0, <2>1, <2>2, <2>4, <2>5, PlacesFrom
<1>5. ASSUME UNCHANGED <<workQueue, worker>>, OncePer(resultQueue)', OnceBuffered',
             Waiting' \subseteq Waiting, Buffered' \cup Recorded' \subseteq Buffered \cup Recorded \cup (Waiting \ Waiting')
      PROVE  Places'
  <2>1. InHand' = InHand /\ OneHolder' /\ Queued' = Queued
    BY <1>0, <1>5 DEF InHand, OneHolder, Queued
  <2>2. Apart'
    BY <1>0, <1>5, <2>1 DEF Apart
  <2>. QED BY <1>0, <1>5, <2>1, <2>2, PlacesFrom
<1>6. CASE GotOutcome
  <2>. DEFINE o == Head(resultQueue)
  <2>1. /\ resultQueue # <<>> /\ o \in Outcome /\ resultQueue' = Tail(resultQueue)
        /\ writer'.buffer = Append(writer.buffer, o)
        /\ UNCHANGED <<workQueue, worker, item>>
    BY <1>6 DEF GotOutcome, WriterOnly, workVars, dbVars
  <2>2. o # Sentinel /\ o \in Elements(resultQueue)
    BY <1>0, <2>1, SentinelIsNoOutcome, ElementsHead
  <2>3. o.comment \in Waiting
    BY <2>2 DEF Waiting, Results
  <2>4. OncePer(Tail(resultQueue)) /\ Waiting' = Waiting \ {o.comment}
    BY <1>0, <2>1, <2>2, OutcomesTail DEF Waiting, Results
  <2>5. Elements(writer'.buffer) = Elements(writer.buffer) \cup {o}
    BY <1>0, <2>1, ElementsAppend, BufferParts
  <2>6. Buffered' = Buffered \cup {o.comment} /\ Recorded' = Recorded
    BY <2>1, <2>5 DEF Buffered, Recorded
  <2>7. o.comment \notin Buffered
    BY <1>0, <2>3 DEF Apart
  <2>8. OnceBuffered'
    BY <1>0, <2>5, <2>7 DEF OnceBuffered, Buffered
  <2>9. OncePer(resultQueue)'
    BY <2>1, <2>4 DEF OncePer
  <2>. QED BY <1>5, <2>1, <2>3, <2>4, <2>6, <2>8, <2>9
<1>7. CASE GotSentinel
  <2>1. /\ resultQueue # <<>> /\ Head(resultQueue) = Sentinel /\ resultQueue' = Tail(resultQueue)
        /\ writer'.buffer = writer.buffer /\ UNCHANGED <<workQueue, worker, item>>
    BY <1>7 DEF GotSentinel, WriterOnly, workVars, dbVars
  <2>2. OncePer(Tail(resultQueue)) /\ Waiting' = Waiting
    BY <1>0, <2>1, OutcomesTail DEF Waiting, Results
  <2>3. Buffered' = Buffered /\ Recorded' = Recorded /\ OnceBuffered'
    BY <1>0, <2>1 DEF Buffered, Recorded, OnceBuffered
  <2>4. OncePer(resultQueue)'
    BY <2>1, <2>2 DEF OncePer
  <2>. QED BY <1>5, <2>1, <2>2, <2>3, <2>4
<1>8. ASSUME UNCHANGED <<resultQueue, item, workQueue, worker>>, writer'.buffer = writer.buffer
      PROVE  Places'
  <2>1. Waiting' = Waiting /\ Buffered' = Buffered /\ Recorded' = Recorded
    BY <1>8 DEF Waiting, Results, Buffered, Recorded
  <2>2. OncePer(resultQueue)' /\ OnceBuffered'
    BY <1>0, <1>8 DEF OncePer, OnceBuffered
  <2>. QED BY <1>5, <1>8, <2>1, <2>2
<1>9. CASE Due \/ Failing \/ Returned \/ Cancel \/ WriterKilled \/ UNCHANGED engineVars
  BY <1>8, <1>9 DEF Due, Failing, WriterOnly, workVars, dbVars, Returned, Cancel,
                    WriterKilled, engineVars
<1>10. CASE Stored
  <2>1. /\ writer'.buffer = writer.buffer /\ UNCHANGED <<workQueue, worker, resultQueue>>
        /\ Recorded' = Recorded \cup Buffered
    BY <1>0, <1>10, StoredRecords DEF Stored, WriterOnly, workVars, FlushCommit
  <2>2. Waiting' = Waiting /\ Buffered' = Buffered /\ OncePer(resultQueue)' /\ OnceBuffered'
    BY <1>0, <2>1 DEF Waiting, Results, Buffered, OncePer, OnceBuffered
  <2>. QED BY <1>5, <2>1, <2>2
<1>11. CASE Emptied
  <2>1. writer'.buffer = <<>> /\ UNCHANGED <<workQueue, worker, resultQueue, item>>
    BY <1>11 DEF Emptied, WriterOnly, workVars, dbVars
  <2>2. /\ Waiting' = Waiting /\ Recorded' = Recorded /\ OncePer(resultQueue)'
    BY <1>0, <2>1 DEF Waiting, Results, Recorded, OncePer
  <2>3. Buffered' = {} /\ OnceBuffered'
    BY <2>1, ElementsEmpty DEF Buffered, OnceBuffered
  <2>. QED BY <1>5, <2>1, <2>2, <2>3
<1>12. CASE PutSentinel
  <2>1. /\ resultQueue' = Append(resultQueue, Sentinel)
        /\ UNCHANGED <<workQueue, worker, item, writer>>
    BY <1>12 DEF PutSentinel, dbVars
  <2>2. /\ OncePer(Append(resultQueue, Sentinel)) /\ Waiting' = Waiting
    BY <1>0, <2>1, OutcomesSentinel DEF Waiting, Results
  <2>3. Buffered' = Buffered /\ Recorded' = Recorded /\ OnceBuffered'
    BY <1>0, <2>1 DEF Buffered, Recorded, OnceBuffered
  <2>4. OncePer(resultQueue)'
    BY <2>1, <2>2 DEF OncePer
  <2>. QED BY <1>5, <2>1, <2>2, <2>3, <2>4
<1>13. CASE WorkersKilled
  <2>1. /\ resultQueue' = Append(resultQueue, Sentinel)
        /\ UNCHANGED <<workQueue, item, writer>>
        /\ \A w \in Worker : worker'[w].comment = NoComment
    BY <1>13 DEF WorkersKilled, dbVars
  <2>2. /\ OncePer(Append(resultQueue, Sentinel)) /\ Waiting' = Waiting
    BY <1>0, <2>1, OutcomesSentinel DEF Waiting, Results
  <2>3. Buffered' = Buffered /\ Recorded' = Recorded /\ OnceBuffered' /\ Queued' = Queued
    BY <1>0, <2>1 DEF Buffered, Recorded, OnceBuffered, Queued
  <2>4. InHand' = {} /\ OneHolder'
    BY <2>1 DEF InHand, OneHolder
  <2>5. OncePer(resultQueue)'
    BY <2>1, <2>2 DEF OncePer
  <2>6. Apart'
    BY <1>0, <2>2, <2>3, <2>4 DEF Apart
  <2>. QED BY <1>0, <2>1, <2>3, <2>4, <2>5, <2>6, PlacesFrom
<1>. QED
  BY <1>1, <1>2, <1>3, <1>4, <1>6, <1>7, <1>9, <1>10, <1>11, <1>12, <1>13, StepKinds

LEMMA PlacesInvariant == Spec => [](Base /\ Places)
<1>1. Init => Base /\ Places
  BY BaseInitial, PlacesInitial
<1>2. Base /\ Places /\ [Next]_engineVars => (Base /\ Places)'
  BY BaseStep, PlacesStep
<1>. QED BY <1>1, <1>2, PTL DEF Spec

-----------------------------------------------------------------------------
(***************************************************************************)
(* Who is still there                                                      *)
(***************************************************************************)
\* Once the workers were waited for they have ended, and once the run has ended so
\* has the writer.
Order ==
    /\ run # "gather" => AllWorkersDone
    /\ run \in {"done", "killed"} => writer.pc = "exit"

\* Which steps are possible where.
LEMMA WorkerRuns ==
  ASSUME Order, NEW w \in Worker,
         \/ Grabbed(w) \/ Moved(w)
         \/ \E c \in Comment, success \in BOOLEAN : HandedTaken(w, c, success)
         \/ \E c \in Comment, success \in BOOLEAN : HandedHeld(w, c, success)
  PROVE  run = "gather"
  BY DEF Order, AllWorkersDone, Grabbed, Moved, HandedTaken, HandedHeld, Active

LEMMA OrderStep == Base /\ Order /\ [Next]_engineVars => Order'
<1>. SUFFICES ASSUME Base, Order, [Next]_engineVars PROVE Order'
  OBVIOUS
<1>1. ASSUME NEW w \in Worker,
             \/ Left(w) \/ Grabbed(w) \/ Moved(w)
             \/ \E c \in Comment, success \in BOOLEAN : HandedTaken(w, c, success)
             \/ \E c \in Comment, success \in BOOLEAN : HandedHeld(w, c, success)
      PROVE  Order'
  <2>1. UNCHANGED <<run, writer>>
    BY <1>1 DEF Left, Grabbed, Moved, HandedTaken, HandedHeld, Handed, storeVars
  <2>2. CASE Left(w)
    BY <2>1, <2>2 DEF Left, OnlyMoves, Order, AllWorkersDone
  <2>3. CASE ~Left(w)
    BY <1>1, <2>1, <2>3, WorkerRuns DEF Order
  <2>. QED BY <2>2, <2>3
<1>2. CASE GotOutcome \/ GotSentinel \/ Due \/ Failing \/ Stored \/ Emptied
  BY <1>2 DEF GotOutcome, GotSentinel, Due, Failing, Stored, Emptied, WriterOnly, workVars,
              Order, AllWorkersDone
<1>3. CASE PutSentinel
  BY <1>3 DEF PutSentinel, Order, AllWorkersDone
<1>4. CASE Returned
  BY <1>4 DEF Returned, Order, AllWorkersDone
<1>5. CASE WorkersKilled
  BY <1>5 DEF WorkersKilled, Order, AllWorkersDone
<1>6. CASE WriterKilled
  BY <1>6 DEF WriterKilled, Order, AllWorkersDone
<1>7. CASE Cancel \/ UNCHANGED engineVars
  BY <1>7 DEF Cancel, engineVars, Order, AllWorkersDone
<1>. QED BY <1>1, <1>2, <1>3, <1>4, <1>5, <1>6, <1>7, StepKinds

-----------------------------------------------------------------------------
(***************************************************************************)
(* What is recorded was confirmed                                          *)
(***************************************************************************)
\* An outcome that says "deleted" is about a comment whose removal was confirmed.
TrueOutcome(o) == o.success /\ mode # "dry" => o.comment \notin standing

TrueAnswers ==
    \A w \in Worker : worker[w].pc = "answered" /\ worker[w].answer \in {"ok", "gone"}
                          => worker[w].comment \notin standing

\* An outcome in the buffer is stored as what it is, or not yet.
TrueBuffer ==
    \A o \in Elements(writer.buffer) :
        item[o.comment] \in {"pending", IF o.success THEN "succeeded" ELSE "failed"}

Truth ==
    /\ \A o \in Results : TrueOutcome(o)
    /\ \A o \in Elements(writer.buffer) : TrueOutcome(o)
    /\ TrueAnswers /\ TrueBuffer /\ RecordedIsConfirmed

TruthInv == Base /\ Places /\ Order /\ Truth

LEMMA TruthInitial == Init => TruthInv
<1>. SUFFICES ASSUME Init PROVE TruthInv
  OBVIOUS
<1>1. Results = {} /\ Elements(writer.buffer) = {}
  BY InitialRecords, ElementsEmpty DEF Init, Results
<1>2. TrueAnswers
  BY InitialRecords DEF TrueAnswers
<1>3. RecordedIsConfirmed
  BY DEF Init, RecordedIsConfirmed
<1>4. Order
  BY DEF Init, Order
<1>. QED BY <1>1, <1>2, <1>3, <1>4, BaseInitial, PlacesInitial DEF TruthInv, Truth, TrueBuffer

\* What the buffer says is stored says the buffer.
LEMMA BufferSays ==
  ASSUME TruthInv
  PROVE  /\ Succeeded(writer.buffer) \cap Failed(writer.buffer) = {}
         /\ \A c \in Succeeded(writer.buffer) : item[c] \in {"pending", "succeeded"}
         /\ \A c \in Failed(writer.buffer) : item[c] \in {"pending", "failed"}
         /\ mode # "dry" => Succeeded(writer.buffer) \cap standing = {}
         /\ \A o \in Elements(writer.buffer) :
                o.comment \in (IF o.success THEN Succeeded(writer.buffer) ELSE Failed(writer.buffer))
  BY DEF TruthInv, Truth, TrueBuffer, TrueOutcome, Places, OnceBuffered, Succeeded, Failed

LEMMA TruthStep == TruthInv /\ [Next]_engineVars => TruthInv'
<1>. SUFFICES ASSUME TruthInv, [Next]_engineVars PROVE TruthInv'
  OBVIOUS
<1>0. Base /\ Types /\ Places /\ Order /\ Truth /\ resultQueue \in Seq(Message)
  BY TypeParts DEF TruthInv, Base
<1>1. ASSUME NEW w \in Worker, NEW c \in Comment, NEW success \in BOOLEAN,
             HandedTaken(w, c, success) \/ HandedHeld(w, c, success)
      PROVE  Truth'
  <2>. DEFINE o == [comment |-> c, success |-> success]
  <2>1. /\ resultQueue' = Append(resultQueue, o) /\ UNCHANGED <<mode, standing, writer, item, status>>
        /\ OnlyMoves(w) /\ worker'[w].pc \in Idle
    BY <1>1 DEF HandedTaken, HandedHeld, Handed, storeVars
  <2>2. o \in Message /\ o.comment = c /\ o.success = success
    BY OutcomeParts
  <2>3. success /\ mode # "dry" => c \notin standing
    BY <1>0, <1>1 DEF HandedTaken, HandedHeld, Truth, TrueAnswers
  <2>. HIDE DEF o
  <2>4. Results' \subseteq Results \cup {o}
    BY <1>0, <2>1, <2>2, ElementsAppend DEF Results
  <2>5. \A x \in Results' : TrueOutcome(x)'
    BY <1>0, <2>1, <2>2, <2>3, <2>4 DEF Truth, TrueOutcome
  <2>6. TrueAnswers'
    BY <1>0, <2>1 DEF Truth, TrueAnswers, OnlyMoves, Idle
  <2>. QED BY <1>0, <2>1, <2>5, <2>6 DEF Truth, TrueOutcome, TrueBuffer, RecordedIsConfirmed
<1>2. ASSUME NEW w \in Worker, Left(w) \/ Grabbed(w) PROVE Truth'
  <2>1. /\ UNCHANGED <<mode, resultQueue, standing, writer, item, status>>
        /\ OnlyMoves(w) /\ worker'[w].pc \in {"done", "token"}
    BY <1>2 DEF Left, Grabbed, storeVars
  <2>2. TrueAnswers'
    BY <1>0, <2>1 DEF Truth, TrueAnswers, OnlyMoves
  <2>. QED BY <1>0, <2>1, <2>2 DEF Truth, TrueOutcome, TrueBuffer, RecordedIsConfirmed, Results
<1>3. ASSUME NEW w \in Worker, Moved(w) PROVE Truth'
  <2>1. /\ UNCHANGED <<mode, resultQueue, writer, item, status>> /\ standing' \in SUBSET standing
        /\ OnlyMoves(w)
        /\ worker'[w].pc = "answered" /\ worker'[w].answer \in {"ok", "gone"}
               => worker'[w].comment \notin standing'
    BY <1>3 DEF Moved, storeVars
  <2>2. TrueAnswers'
    BY <1>0, <2>1 DEF Truth, TrueAnswers, OnlyMoves
  <2>. QED BY <1>0, <2>1, <2>2 DEF Truth, TrueOutcome, TrueBuffer, RecordedIsConfirmed, Results
<1>4. ASSUME UNCHANGED <<mode, item, status>>, standing' \in SUBSET standing, Results' \subseteq Results,
             \/ worker' = worker
             \/ \A w \in Worker : worker'[w].pc = "done",
             Elements(writer'.buffer) \subseteq Elements(writer.buffer)
      PROVE  Truth'
  <2>1. TrueAnswers'
    BY <1>0, <1>4 DEF Truth, TrueAnswers
  <2>. QED BY <1>0, <1>4, <2>1 DEF Truth, TrueOutcome, TrueBuffer, RecordedIsConfirmed
<1>5. ASSUME GotOutcome PROVE Truth'
  <2>. DEFINE o == Head(resultQueue)
  <2>1. /\ resultQueue # <<>> /\ o \in Outcome /\ resultQueue' = Tail(resultQueue)
        /\ writer'.buffer = Append(writer.buffer, o)
        /\ UNCHANGED <<mode, worker, item, status, standing>>
    BY <1>5 DEF GotOutcome, WriterOnly, workVars, dbVars
  <2>2. o \in Results /\ Results' \subseteq Results
    BY <1>0, <2>1, SentinelIsNoOutcome, ElementsHead DEF Results
  <2>3. Elements(writer'.buffer) = Elements(writer.buffer) \cup {o}
    BY <1>0, <2>1, ElementsAppend, BufferParts
  <2>4. item[o.comment] = "pending"
    <3>1. o.comment \in Waiting /\ o.comment \in Comment
      BY <2>1, <2>2 DEF Waiting, Outcome
    <3>. QED BY <1>0, <3>1, OnePlaceIs DEF Places, Apart, Recorded
  <2>5. TrueBuffer'
    BY <1>0, <2>1, <2>3, <2>4 DEF Truth, TrueBuffer
  <2>6. \A x \in Elements(writer'.buffer) : TrueOutcome(x)'
    BY <1>0, <2>1, <2>2, <2>3 DEF Truth, TrueOutcome
  <2>. QED BY <1>0, <2>1, <2>2, <2>5, <2>6 DEF Truth, TrueOutcome, TrueAnswers, RecordedIsConfirmed
<1>6. ASSUME GotSentinel PROVE Truth'
  <2>1. /\ resultQueue # <<>> /\ resultQueue' = Tail(resultQueue)
        /\ writer'.buffer = writer.buffer /\ UNCHANGED <<mode, worker, item, status, standing>>
    BY <1>6 DEF GotSentinel, WriterOnly, workVars, dbVars
  <2>2. Results' \subseteq Results
    BY <1>0, <2>1, ElementsHead DEF Results
  <2>. QED BY <1>4, <2>1, <2>2
<1>7. ASSUME Due \/ Failing \/ Returned \/ Cancel \/ WriterKilled \/ UNCHANGED engineVars PROVE Truth'
  <2>1. /\ writer'.buffer = writer.buffer
        /\ UNCHANGED <<mode, worker, item, status, standing, resultQueue>>
    BY <1>7 DEF Due, Failing, WriterOnly, workVars, dbVars, Returned, Cancel, WriterKilled, engineVars
  <2>. QED BY <1>4, <2>1 DEF Results
<1>8. ASSUME Emptied PROVE Truth'
  <2>1. writer'.buffer = <<>> /\ UNCHANGED <<mode, worker, item, status, standing, resultQueue>>
    BY <1>8 DEF Emptied, WriterOnly, workVars, dbVars
  <2>. QED BY <1>4, <2>1, ElementsEmpty DEF Results
<1>9. ASSUME PutSentinel \/ WorkersKilled PROVE Truth'
  <2>1. /\ resultQueue' = Append(resultQueue, Sentinel) /\ writer' = writer
        /\ UNCHANGED <<mode, item, status>> /\ standing' \in SUBSET standing
        /\ worker' = worker \/ \A w \in Worker : worker'[w].pc = "done"
    BY <1>9 DEF PutSentinel, WorkersKilled, dbVars
  <2>2. Sentinel \in Message
    BY DEF Message
  <2>3. Results' \subseteq Results
    BY <1>0, <2>1, <2>2, ElementsAppend DEF Results
  <2>. QED BY <1>4, <2>1, <2>3
<1>10. ASSUME Stored PROVE Truth'
  <2>. DEFINE good == Succeeded(writer.buffer)
              bad == Failed(writer.buffer)
  <2>1. /\ writer'.buffer = writer.buffer /\ UNCHANGED <<mode, worker, standing, resultQueue>>
        /\ item' = [c \in Comment |-> IF c \in good THEN "succeeded"
                                      ELSE IF c \in bad THEN "failed" ELSE item[c]]
        /\ status' = [c \in Comment |-> IF c \in good /\ mode # "dry" THEN "deleted"
                                        ELSE IF c \in bad THEN "failed" ELSE status[c]]
    BY <1>10 DEF Stored, WriterOnly, workVars, FlushCommit
  <2>2. /\ good \cap bad = {} /\ (mode # "dry" => good \cap standing = {})
        /\ good \in SUBSET Comment /\ bad \in SUBSET Comment
        /\ \A o \in Elements(writer.buffer) : o.comment \in (IF o.success THEN good ELSE bad)
    BY <1>0, BufferSays, BufferParts
  <2>. HIDE DEF good, bad
  <2>3. TrueBuffer'
    BY <2>1, <2>2 DEF TrueBuffer
  <2>4. RecordedIsConfirmed'
    BY <1>0, <2>1, <2>2 DEF Truth, RecordedIsConfirmed
  <2>. QED BY <1>0, <2>1, <2>3, <2>4 DEF Truth, TrueOutcome, TrueAnswers, Results
<1>11. Truth'
  BY <1>0, <1>1, <1>2, <1>3, <1>5, <1>6, <1>7, <1>8, <1>9, <1>10, StepKinds
<1>. QED BY <1>0, <1>11, BaseStep, PlacesStep, OrderStep DEF TruthInv

LEMMA TruthInvariant == Spec => []TruthInv
<1>. QED BY TruthInitial, TruthStep, PTL DEF Spec

-----------------------------------------------------------------------------
(***************************************************************************)
(* The engine implements its promise                                       *)
(***************************************************************************)
Stutters == UNCHANGED Promise!promiseVars

LEMMA PromiseKept ==
  ASSUME TruthInv, [Next]_engineVars
  PROVE  [Promise!PromiseNext]_(Promise!promiseVars)
<1>0. /\ Base /\ Types /\ Places /\ Order /\ Truth /\ standing \in SUBSET Comment
      /\ item \in [Comment -> {"pending", "succeeded", "failed"}]
  BY TypeParts DEF TruthInv, Base
<1>1. ASSUME UNCHANGED <<mode, standing, item>>, run' = run \/ (run' \notin {"done", "killed"} /\ run = "gather")
      PROVE  Stutters
  BY <1>1 DEF Stutters, Promise!promiseVars
<1>2. ASSUME NEW w \in Worker, Moved(w) PROVE Promise!Perish
  <2>1. run = "gather" /\ mode = "live" /\ UNCHANGED <<mode, run, item>> /\ standing' \in SUBSET standing
    BY <1>0, <1>2, WorkerRuns DEF Moved, storeVars, Base, Hands
  <2>. QED BY <1>0, <2>1 DEF Promise!Perish
<1>3. ASSUME WorkersKilled PROVE Promise!Perish \/ Stutters
  <2>1. /\ run = "gather" /\ run' = "drainKilled" /\ UNCHANGED <<mode, item>>
        /\ standing' \in SUBSET standing
        /\ standing' # standing => mode = "live"
    BY <1>0, <1>3 DEF WorkersKilled, dbVars, Base, Hands, Active
  <2>2. ASSUME standing' = standing PROVE Stutters
    BY <2>1, <2>2 DEF Stutters, Promise!promiseVars
  <2>3. ASSUME standing' # standing PROVE Promise!Perish
    <3>1. Comment \ standing' = (Comment \ standing) \cup (standing \ standing') /\ standing \ standing' \in SUBSET Comment
      BY <1>0, <2>1
    <3>2. \E S \in SUBSET Comment : Comment \ standing' = (Comment \ standing) \cup S
      BY <3>1
    <3>3. mode # "dry" /\ run \notin {"done", "killed"} /\ run' \notin {"done", "killed"}
      BY <2>1, <2>3
    <3>. QED BY <2>1, <3>2, <3>3 DEF Promise!Perish
  <2>. QED BY <2>2, <2>3
<1>4. ASSUME Stored PROVE Promise!Store
  <2>. DEFINE pending == {c \in Comment : item[c] = "pending"}
              good == Succeeded(writer.buffer)
              bad == Failed(writer.buffer)
  <2>1. /\ UNCHANGED <<mode, run, standing>> /\ writer.pc = "flush"
        /\ item' = [c \in Comment |-> IF c \in good THEN "succeeded"
                                      ELSE IF c \in bad THEN "failed" ELSE item[c]]
    BY <1>4 DEF Stored, WriterOnly, workVars, FlushCommit
  <2>2. run \notin {"done", "killed"}
    BY <1>0, <2>1 DEF Order
  <2>3. /\ good \cap bad = {} /\ (mode # "dry" => good \cap standing = {})
        /\ good \in SUBSET Comment /\ bad \in SUBSET Comment
        /\ \A c \in good : item[c] \in {"pending", "succeeded"}
        /\ \A c \in bad : item[c] \in {"pending", "failed"}
    BY <1>0, BufferSays, BufferParts
  <2>. HIDE DEF good, bad
  <2>4. item' = [c \in Comment |-> IF c \in good \cap pending THEN "succeeded"
                                   ELSE IF c \in bad \cap pending THEN "failed" ELSE item[c]]
    BY <1>0, <2>1, <2>3
  <2>5. /\ good \cap pending \in SUBSET pending /\ bad \cap pending \in SUBSET pending
        /\ (good \cap pending) \cap (bad \cap pending) = {}
        /\ mode = "dry" \/ good \cap pending \subseteq Comment \ standing
    BY <2>3
  <2>. QED BY <2>1, <2>2, <2>4, <2>5 DEF Promise!Store
<1>5. ASSUME Returned \/ WriterKilled PROVE Promise!Close
  BY <1>5 DEF Returned, WriterKilled, dbVars, Promise!Close
<1>6. ASSUME NEW w \in Worker,
             \/ Left(w) \/ Grabbed(w)
             \/ \E c \in Comment, success \in BOOLEAN : HandedTaken(w, c, success)
             \/ \E c \in Comment, success \in BOOLEAN : HandedHeld(w, c, success)
      PROVE  Stutters
  <2>1. UNCHANGED <<mode, standing, item, run>>
    BY <1>6 DEF Left, Grabbed, HandedTaken, HandedHeld, Handed, storeVars
  <2>. QED BY <1>1, <2>1
<1>7. ASSUME \/ GotOutcome \/ GotSentinel \/ Due \/ Failing \/ Emptied
             \/ PutSentinel \/ Cancel \/ UNCHANGED engineVars
      PROVE  Stutters
  <2>1. UNCHANGED <<mode, standing, item>> /\ (run' = run \/ PutSentinel)
    BY <1>7 DEF GotOutcome, GotSentinel, Due, Failing, Emptied, WriterOnly, workVars, dbVars,
                PutSentinel, Cancel, engineVars
  <2>2. run' = run \/ (run' \notin {"done", "killed"} /\ run = "gather")
    BY <2>1 DEF PutSentinel
  <2>. QED BY <1>1, <2>1, <2>2
<1>. QED BY <1>0, <1>2, <1>3, <1>4, <1>5, <1>6, <1>7, StepKinds DEF Stutters, Promise!PromiseNext

\* A run records results once, only as the blog told, and not after its end, and a dry run
\* deletes nothing: for any comments, workers, batches, retries and faults the
\* engine is an implementation of DeletePromise.
THEOREM EngineKeepsPromise == Spec => KeepsPromise
<1>1. Init => Promise!PromiseInit
  <2>. SUFFICES ASSUME Init PROVE Promise!PromiseInit
    OBVIOUS
  <2>1. standing = Comment /\ run = "gather" /\ item = [c \in Comment |-> "pending"]
    BY DEF Init
  <2>. QED BY <2>1 DEF Promise!PromiseInit
<1>2. TruthInv /\ [Next]_engineVars => [Promise!PromiseNext]_(Promise!promiseVars)
  BY PromiseKept
<1>. QED BY <1>1, <1>2, TruthInvariant, PTL DEF Spec, KeepsPromise, Promise!PromiseSpec

-----------------------------------------------------------------------------
(***************************************************************************)
(* What stops the workers                                                  *)
(***************************************************************************)
\* A worker that holds a comment has handed over none since storing failed.
Calm ==
    \A w \in Worker : /\ hist.afterAbort[w] <= 1
                      /\ ~summary.aborted => hist.afterAbort[w] = 0
                      /\ worker[w].pc \in Active => hist.afterAbort[w] = 0

\* The breaker has counted no more failures than there were.
Counting == breaker.failures <= hist.refusals /\ OpenNeedsFailures

\* The workers that passed the breaker and wait for a token.
Bound == {w \in Worker : worker[w].pc = "token"}

\* With the circuit open no worker joins those that are bound to send.
Closing ==
    /\ ~breaker.open => hist.sentAfterOpen = 0
    /\ breaker.open => hist.sentAfterOpen + Cardinality(Bound) < Cardinality(Worker)

Stopping == Calm /\ Counting /\ Closing

LEMMA BoundFinite ==
  /\ IsFiniteSet(Bound) /\ Cardinality(Bound) \in Nat
  /\ IsFiniteSet(Bound') /\ Cardinality(Bound') \in Nat
  /\ Cardinality(Worker) \in Nat
<1>1. Bound \subseteq Worker /\ Bound' \subseteq Worker
  BY DEF Bound
<1>. QED BY <1>1, FS_Subset, FS_CardinalityType, EngineAssumption

LEMMA StoppingInitial == Init => Stopping
<1>. SUFFICES ASSUME Init PROVE Stopping
  OBVIOUS
<1>1. Calm
  BY InitialRecords DEF Init, Calm, Active
<1>2. Counting
  BY DEF Init, Counting, OpenNeedsFailures
<1>3. Closing
  BY DEF Init, Closing
<1>. QED BY <1>1, <1>2, <1>3 DEF Stopping

\* A step that sends nothing and binds no further worker.
LEMMA ClosingKept ==
  ASSUME Types, Closing, breaker' = breaker, hist'.sentAfterOpen = hist.sentAfterOpen,
         Bound' \subseteq Bound
  PROVE  Closing'
<1>1. Cardinality(Bound') <= Cardinality(Bound)
  BY BoundFinite, FS_Subset
<1>2. hist.sentAfterOpen \in Nat
  BY TypeParts DEF HistRecord
<1>. QED BY <1>1, <1>2, BoundFinite DEF Closing

LEMMA HandedStops ==
  ASSUME Base, Stopping, NEW w \in Worker, NEW c \in Comment, NEW success \in BOOLEAN,
         HandedTaken(w, c, success) \/ HandedHeld(w, c, success)
  PROVE  Stopping'
<1>0. Types /\ hist \in HistRecord /\ breaker \in BreakerRecord /\ Threshold \in Nat
  BY TypeParts, EngineAssumption DEF Base
<1>1. Handed(w, c, success)
  BY DEF HandedTaken, HandedHeld
<1>2. summary.aborted => worker[w].pc \in Active
  BY DEF HandedTaken, HandedHeld, ShouldStop, Active
<1>3. Calm'
  <2>1. \A v \in Worker : hist.afterAbort[v] \in Nat
    BY <1>0 DEF HistRecord
  <2>2. /\ hist'.afterAbort[w] = hist.afterAbort[w] + (IF summary.aborted THEN 1 ELSE 0)
        /\ \A v \in Worker : v # w => /\ hist'.afterAbort[v] = hist.afterAbort[v]
                                      /\ worker'[v] = worker[v]
        /\ worker'[w].pc \notin Active /\ summary'.aborted = summary.aborted
    BY <1>1 DEF Handed, OnlyMoves, Idle, Active
  <2>3. Calm
    BY DEF Stopping
  <2>4. hist'.afterAbort[w] <= 1 /\ (~summary.aborted => hist'.afterAbort[w] = 0)
    BY <1>2, <2>1, <2>2, <2>3 DEF Calm
  <2>. QED BY <2>2, <2>3, <2>4 DEF Calm
<1>4. Counting'
  <2>1. breaker.failures \in Nat /\ hist.refusals \in Nat
    BY <1>0 DEF HistRecord, BreakerRecord
  <2>2. CASE success
    <3>1. breaker'.failures = 0 /\ breaker'.open = breaker.open /\ hist'.refusals = hist.refusals
      BY <1>0, <1>1, <2>1, <2>2 DEF Handed, BreakerAfter, BreakerRecord
    <3>3. breaker.open => hist.refusals >= Threshold /\ summary.circuitOpen
      BY DEF Stopping, Counting, OpenNeedsFailures
    <3>4. breaker'.open => hist'.refusals >= Threshold
      BY <3>1, <3>3
    <3>5. breaker'.open => summary'.circuitOpen
      BY <1>1, <2>2, <3>1, <3>3 DEF Handed
    <3>6. breaker'.failures <= hist'.refusals
      BY <2>1, <3>1
    <3>. QED BY <3>4, <3>5, <3>6 DEF Counting, OpenNeedsFailures
  <2>3. CASE ~success
    <3>1. /\ breaker'.failures = breaker.failures + 1
          /\ breaker'.open = (breaker.open \/ breaker.failures + 1 >= Threshold)
          /\ hist'.refusals = hist.refusals + 1
      BY <1>1, <2>3 DEF Handed, BreakerAfter
    <3>. QED BY <1>0, <1>1, <2>1, <2>3, <3>1 DEF Handed, Stopping, Counting, OpenNeedsFailures
  <2>. QED BY <2>2, <2>3
<1>5. Bound' \subseteq Bound \ {w}
  BY <1>1 DEF Handed, OnlyMoves, Bound, Idle
<1>6. Closing'
  <2>1. CASE breaker'.open = breaker.open
    <3>1. Cardinality(Bound') <= Cardinality(Bound)
      BY <1>5, BoundFinite, FS_Subset
    <3>2. hist.sentAfterOpen \in Nat /\ hist'.sentAfterOpen = hist.sentAfterOpen
      BY <1>0, <1>1 DEF HistRecord, Handed
    <3>. QED BY <2>1, <3>1, <3>2, BoundFinite DEF Stopping, Closing
  <2>2. CASE breaker'.open # breaker.open
    <3>1. ~breaker.open /\ breaker'.open
      BY <1>0, <1>1, <2>2 DEF Handed, BreakerAfter, BreakerRecord
    <3>2. hist'.sentAfterOpen = 0
      BY <1>1, <3>1 DEF Handed, Stopping, Closing
    <3>3. Bound' \subseteq Worker \ {w} /\ IsFiniteSet(Worker)
      BY <1>5, EngineAssumption DEF Bound
    <3>4. /\ IsFiniteSet(Worker \ {w})
          /\ Cardinality(Worker \ {w}) = Cardinality(Worker) - 1
      BY <3>3, FS_RemoveElement
    <3>5. Cardinality(Bound') <= Cardinality(Worker \ {w})
      BY <3>3, <3>4, FS_Subset
    <3>. QED BY <3>1, <3>2, <3>4, <3>5, BoundFinite DEF Closing
  <2>. QED BY <2>1, <2>2
<1>. QED BY <1>3, <1>4, <1>6 DEF Stopping

LEMMA StoppingStep == Base /\ Stopping /\ [Next]_engineVars => Stopping'
<1>. SUFFICES ASSUME Base, Stopping, [Next]_engineVars PROVE Stopping'
  OBVIOUS
<1>0. Types /\ hist \in HistRecord /\ Calm /\ Counting /\ Closing
  BY TypeParts DEF Base, Stopping
<1>1. ASSUME NEW w \in Worker, NEW c \in Comment, NEW success \in BOOLEAN,
             HandedTaken(w, c, success) \/ HandedHeld(w, c, success)
      PROVE  Stopping'
  BY <1>1, HandedStops
<1>2. ASSUME NEW w \in Worker, Left(w) PROVE Stopping'
  <2>1. /\ UNCHANGED <<breaker, hist>> /\ OnlyMoves(w) /\ worker'[w].pc = "done"
        /\ summary'.aborted = summary.aborted
        /\ summary'.circuitOpen = summary.circuitOpen \/ summary'.circuitOpen
    BY <1>2 DEF Left
  <2>2. Bound' \subseteq Bound
    BY <2>1 DEF Bound, OnlyMoves
  <2>3. Calm'
    BY <1>0, <2>1 DEF Calm, OnlyMoves, Active
  <2>. QED BY <1>0, <2>1, <2>2, <2>3, ClosingKept DEF Stopping, Counting, OpenNeedsFailures
<1>3. ASSUME NEW w \in Worker, Grabbed(w) PROVE Stopping'
  <2>1. /\ UNCHANGED <<breaker, hist, summary>> /\ OnlyMoves(w) /\ worker'[w].pc = "token"
        /\ ~summary.circuitOpen /\ ~summary.aborted
    BY <1>3 DEF Grabbed, ShouldStop
  <2>2. ~breaker.open
    BY <1>0, <2>1 DEF Counting, OpenNeedsFailures
  <2>3. Calm'
    BY <1>0, <2>1 DEF Calm, OnlyMoves
  <2>. QED BY <1>0, <2>1, <2>2, <2>3 DEF Stopping, Counting, OpenNeedsFailures, Closing
<1>4. ASSUME NEW w \in Worker, Moved(w) PROVE Stopping'
  <2>1. UNCHANGED <<breaker, summary>> /\ OnlyMoves(w) /\ worker[w].pc \in Active
    BY <1>4 DEF Moved
  <2>2. CASE worker[w].pc = "token" /\ worker'[w].pc = "wire"
             /\ hist' = [hist EXCEPT !.sentAfterOpen = IF breaker.open THEN @ + 1 ELSE @]
    <3>1. /\ hist'.afterAbort = hist.afterAbort /\ hist'.refusals = hist.refusals
          /\ hist'.sentAfterOpen = IF breaker.open THEN hist.sentAfterOpen + 1
                                   ELSE hist.sentAfterOpen
      BY <1>0, <2>2 DEF HistRecord
    <3>2. Calm'
      BY <1>0, <2>1, <2>2, <3>1 DEF Calm, OnlyMoves, Active
    <3>3. Bound' = Bound \ {w} /\ w \in Bound
      BY <2>1, <2>2 DEF Bound, OnlyMoves
    <3>4. Cardinality(Bound') = Cardinality(Bound) - 1
      BY <3>3, BoundFinite, FS_RemoveElement
    <3>5. hist.sentAfterOpen \in Nat
      BY <1>0 DEF HistRecord
    <3>6. Closing'
      BY <1>0, <2>1, <3>1, <3>4, <3>5, BoundFinite DEF Closing
    <3>. QED BY <1>0, <2>1, <3>1, <3>2, <3>6 DEF Stopping, Counting, OpenNeedsFailures
  <2>3. CASE hist' = hist /\ (worker'[w].pc = "token" => ~breaker.open)
    <3>1. Calm'
      BY <1>0, <2>1, <2>3 DEF Calm, OnlyMoves
    <3>2. breaker.open => Bound' \subseteq Bound
      BY <2>1, <2>3 DEF Bound, OnlyMoves
    <3>3. Closing'
      BY <1>0, <2>1, <2>3, <3>2, ClosingKept DEF Closing
    <3>. QED BY <1>0, <2>1, <2>3, <3>1, <3>3 DEF Stopping, Counting, OpenNeedsFailures
  <2>. QED BY <1>4, <2>2, <2>3 DEF Moved
<1>5. ASSUME UNCHANGED breaker, summary'.circuitOpen = summary.circuitOpen,
             summary'.aborted \/ summary'.aborted = summary.aborted,
             hist'.afterAbort = hist.afterAbort, hist'.refusals = hist.refusals,
             hist'.sentAfterOpen = hist.sentAfterOpen,
             \/ worker' = worker
             \/ \A w \in Worker : worker'[w].pc = "done"
      PROVE  Stopping'
  <2>1. Bound' \subseteq Bound
    BY <1>5 DEF Bound
  <2>2. Calm'
    BY <1>0, <1>5 DEF Calm, Active
  <2>. QED BY <1>0, <1>5, <2>1, <2>2, ClosingKept DEF Stopping, Counting, OpenNeedsFailures
<1>6. ASSUME GotOutcome \/ GotSentinel \/ Due \/ Failing \/ Stored \/ Emptied PROVE Stopping'
  <2>1. UNCHANGED <<breaker, worker, hist>> /\ summary'.circuitOpen = summary.circuitOpen
    BY <1>6 DEF GotOutcome, GotSentinel, Due, Failing, Stored, Emptied, WriterOnly, workVars
  <2>2. summary'.aborted \/ summary'.aborted = summary.aborted
    BY <1>6 DEF GotOutcome, GotSentinel, Due, Failing, Stored, Emptied
  <2>. QED BY <1>5, <2>1, <2>2
<1>7. ASSUME PutSentinel \/ Returned \/ Cancel \/ WorkersKilled \/ WriterKilled
             \/ UNCHANGED engineVars
      PROVE  Stopping'
  <2>1. /\ UNCHANGED breaker /\ summary'.circuitOpen = summary.circuitOpen
        /\ summary'.aborted = summary.aborted
        /\ hist'.afterAbort = hist.afterAbort /\ hist'.refusals = hist.refusals
        /\ hist'.sentAfterOpen = hist.sentAfterOpen
    BY <1>7 DEF PutSentinel, Returned, Cancel, WorkersKilled, WriterKilled, engineVars
  <2>2. worker' = worker \/ \A w \in Worker : worker'[w].pc = "done"
    BY <1>7 DEF PutSentinel, Returned, Cancel, WorkersKilled, WriterKilled, engineVars
  <2>. QED BY <1>5, <2>1, <2>2
<1>. QED BY <1>1, <1>2, <1>3, <1>4, <1>6, <1>7, StepKinds

LEMMA StoppingInvariant == Spec => []Stopping
<1>1. Base /\ Stopping /\ [Next]_engineVars => (Base /\ Stopping)'
  BY BaseStep, StoppingStep
<1>. QED BY <1>1, BaseInitial, StoppingInitial, PTL DEF Spec

-----------------------------------------------------------------------------
(***************************************************************************)
(* What reaches the writer is stored                                       *)
(***************************************************************************)
SentinelLast(s) == \A i \in 1..Len(s) : s[i] = Sentinel => i = Len(s)

\* The sentinel comes after every outcome, and the writer that has taken it has
\* taken all of them.
SentinelOrder ==
    /\ run = "gather" => Sentinel \notin Elements(resultQueue) /\ ~writer.final
    /\ SentinelLast(resultQueue)
    /\ writer.final => resultQueue = <<>>

\* The writer stops with an empty buffer, or for a reason; a batch is done with
\* when it is stored.
WriterOrder ==
    /\ writer.pc = "exit" => \/ hist.writerKilled \/ summary.aborted
                             \/ writer.final /\ writer.buffer = <<>>
    /\ hist.writerKilled => run = "killed"
    /\ writer.pc = "progress" => Buffered \subseteq Recorded
    /\ writer.pc = "delay" => summary.aborted

\* An outcome is stored, in the buffer or on its way to it.
NotLost ==
    summary.aborted \/ hist.writerKilled
        \/ hist.answered \subseteq Recorded \cup Waiting \cup Buffered

Draining == SentinelOrder /\ WriterOrder /\ NotLost

LEMMA DrainingInitial == Init => Draining
<1>. SUFFICES ASSUME Init PROVE Draining
  OBVIOUS
<1>1. SentinelOrder
  BY ElementsEmpty DEF Init, SentinelOrder, SentinelLast
<1>2. WriterOrder /\ NotLost
  BY DEF Init, WriterOrder, NotLost
<1>. QED BY <1>1, <1>2 DEF Draining

LEMMA SentinelLastAppend ==
  ASSUME NEW s \in Seq(Message), Sentinel \notin Elements(s), NEW m \in Message
  PROVE  SentinelLast(Append(s, m))
<1>1. /\ Len(s) \in Nat /\ Len(Append(s, m)) = Len(s) + 1
      /\ \A i \in 1..Len(s) : Append(s, m)[i] = s[i]
  BY AppendProperties, LenProperties
<1>2. \A i \in 1..Len(s) : s[i] # Sentinel
  BY DEF Elements
<1>3. \A i \in 1..(Len(s) + 1) : i \in 1..Len(s) \/ i = Len(s) + 1
  BY <1>1
<1>. QED BY <1>1, <1>2, <1>3 DEF SentinelLast

LEMMA SentinelLastTail ==
  ASSUME NEW s \in Seq(Message), s # <<>>, SentinelLast(s)
  PROVE  /\ SentinelLast(Tail(s))
         /\ Head(s) = Sentinel => Tail(s) = <<>>
<1>. DEFINE q == Tail(s)
            n == Len(s)
            m == Len(q)
<1>1. q \in Seq(Message) /\ m = n - 1 /\ n \in Nat /\ m \in Nat
  BY HeadTailProperties, LenProperties
<1>2. /\ \A i \in 1..m : i + 1 \in 1..n /\ q[i] = s[i + 1]
      /\ 1 \in 1..n /\ Head(s) = s[1]
  BY ElementsHead
<1>3. \A i \in 1..n : s[i] = Sentinel => i = n
  BY DEF SentinelLast
<1>4. m = 0 => q = <<>>
  BY <1>1, EmptySeq
<1>. HIDE DEF n
<1>5. SentinelLast(q)
  <2>1. \A i \in 1..m : q[i] = Sentinel => i = m
    <3>. HIDE DEF q, m
    <3>. SUFFICES ASSUME NEW i \in 1..m, q[i] = Sentinel PROVE i = m
      OBVIOUS
    <3>1. s[i + 1] = Sentinel /\ i + 1 \in 1..n
      BY <1>2
    <3>2. i + 1 = n
      BY <1>3, <3>1
    <3>3. i \in Int
      BY <1>1
    <3>. QED BY <1>1, <3>2, <3>3
  <2>. QED BY ONLY <2>1 DEF SentinelLast
<1>6. Head(s) = Sentinel => q = <<>>
  <2>. HIDE DEF q, m
  <2>. QED BY <1>1, <1>2, <1>3, <1>4
<1>. QED BY <1>5, <1>6

LEMMA DrainingStep == TruthInv /\ Draining /\ [Next]_engineVars => Draining'
<1>. SUFFICES ASSUME TruthInv, Draining, [Next]_engineVars PROVE Draining'
  OBVIOUS
<1>0. /\ Base /\ Types /\ Places /\ Order /\ resultQueue \in Seq(Message) /\ hist \in HistRecord
      /\ SentinelOrder /\ WriterOrder /\ NotLost /\ OncePer(resultQueue)
  BY TypeParts DEF TruthInv, Base, Draining, Places
<1>1. ASSUME NEW w \in Worker, NEW c \in Comment, NEW success \in BOOLEAN,
             HandedTaken(w, c, success) \/ HandedHeld(w, c, success)
      PROVE  Draining'
  <2>. DEFINE o == [comment |-> c, success |-> success]
  <2>1. /\ resultQueue' = Append(resultQueue, o) /\ UNCHANGED <<writer, run>>
        /\ summary'.aborted = summary.aborted
        /\ hist'.answered = hist.answered \cup {c} /\ hist'.writerKilled = hist.writerKilled
    BY <1>1 DEF HandedTaken, HandedHeld, Handed, storeVars
  <2>2. o \in Message /\ o # Sentinel
    BY OutcomeParts, SentinelIsNoOutcome
  <2>. HIDE DEF o
  <2>3. run = "gather" /\ Sentinel \notin Elements(resultQueue) /\ ~writer.final
    BY <1>0, <1>1, WorkerRuns DEF SentinelOrder
  <2>4. SentinelLast(resultQueue')
    BY <1>0, <2>1, <2>2, <2>3, SentinelLastAppend
  <2>5. Elements(resultQueue') = Elements(resultQueue) \cup {o}
    BY <1>0, <2>1, <2>2, ElementsAppend
  <2>6. SentinelOrder'
    BY <2>1, <2>2, <2>3, <2>4, <2>5 DEF SentinelOrder, Elements, SentinelLast
  <2>7. Waiting' = Waiting \cup {c} /\ Buffered' = Buffered /\ Recorded' = Recorded
    BY <1>0, <1>1, HandedPlaces
  <2>8. WriterOrder' /\ NotLost'
    BY <1>0, <2>1, <2>7 DEF WriterOrder, NotLost
  <2>. QED BY <2>6, <2>8 DEF Draining
<1>2. ASSUME UNCHANGED <<resultQueue, writer, item>>, summary'.aborted = summary.aborted,
             hist'.answered = hist.answered, hist'.writerKilled = hist.writerKilled,
             run' = run \/ (run # "killed" /\ run' # "gather")
      PROVE  Draining'
  <2>1. Waiting' = Waiting /\ Buffered' = Buffered /\ Recorded' = Recorded
    BY <1>2 DEF Waiting, Results, Buffered, Recorded
  <2>2. SentinelOrder'
    BY <1>0, <1>2 DEF SentinelOrder, Elements, SentinelLast
  <2>3. WriterOrder' /\ NotLost'
    BY <1>0, <1>2, <2>1 DEF WriterOrder, NotLost
  <2>. QED BY <2>2, <2>3 DEF Draining
<1>3. ASSUME NEW w \in Worker, Left(w) \/ Grabbed(w) PROVE Draining'
  <2>1. /\ UNCHANGED <<resultQueue, writer, item, run, hist>>
        /\ summary'.aborted = summary.aborted
    BY <1>3 DEF Left, Grabbed, storeVars
  <2>. QED BY <1>2, <2>1
<1>4. ASSUME NEW w \in Worker, Moved(w) PROVE Draining'
  <2>1. UNCHANGED <<resultQueue, writer, item, run, summary>>
    BY <1>4 DEF Moved, storeVars
  <2>2. hist'.answered = hist.answered /\ hist'.writerKilled = hist.writerKilled
    BY <1>0, <1>4 DEF Moved, HistRecord
  <2>. QED BY <1>2, <2>1, <2>2
<1>5. ASSUME Returned \/ Cancel \/ UNCHANGED engineVars PROVE Draining'
  <2>1. /\ UNCHANGED <<resultQueue, writer, item, hist>> /\ summary'.aborted = summary.aborted
        /\ run' = run \/ (run # "killed" /\ run' # "gather")
    BY <1>5 DEF Returned, Cancel, dbVars, engineVars
  <2>. QED BY <1>2, <2>1
<1>6. ASSUME GotOutcome PROVE Draining'
  <2>. DEFINE o == Head(resultQueue)
  <2>1. /\ resultQueue # <<>> /\ o \in Outcome /\ resultQueue' = Tail(resultQueue)
        /\ writer'.buffer = Append(writer.buffer, o) /\ writer'.final = writer.final
        /\ writer'.pc \in {"get", "flush"}
        /\ UNCHANGED <<run, item, hist, summary>>
    BY <1>6 DEF GotOutcome, WriterOnly, workVars, dbVars
  <2>2. o # Sentinel
    BY <2>1, SentinelIsNoOutcome
  <2>3. Elements(resultQueue) = {o} \cup Elements(Tail(resultQueue)) /\ ~writer.final
    BY <1>0, <2>1, ElementsHead DEF SentinelOrder
  <2>4. SentinelOrder'
    BY <1>0, <2>1, <2>3, SentinelLastTail DEF SentinelOrder, Elements, SentinelLast
  <2>5. Waiting' = Waiting \ {o.comment}
    BY <1>0, <2>1, <2>2, OutcomesTail DEF Waiting, Results
  <2>6. Buffered' = Buffered \cup {o.comment} /\ Recorded' = Recorded
    <3>1. Elements(Append(writer.buffer, o)) = Elements(writer.buffer) \cup {o}
      BY <1>0, <2>1, ElementsAppend, BufferParts
    <3>. QED BY <2>1, <3>1 DEF Buffered, Recorded
  <2>. HIDE DEF o
  <2>7. WriterOrder' /\ NotLost'
    BY <1>0, <2>1, <2>5, <2>6 DEF WriterOrder, NotLost
  <2>. QED BY <2>4, <2>7 DEF Draining
<1>7. ASSUME GotSentinel PROVE Draining'
  <2>1. /\ resultQueue # <<>> /\ Head(resultQueue) = Sentinel /\ resultQueue' = Tail(resultQueue)
        /\ writer'.buffer = writer.buffer /\ writer'.final
        /\ writer'.pc = IF writer.buffer = <<>> THEN "exit" ELSE "flush"
        /\ UNCHANGED <<run, item, hist, summary>>
    BY <1>7 DEF GotSentinel, WriterOnly, workVars, dbVars
  <2>2. resultQueue' = <<>> /\ SentinelLast(resultQueue')
    BY <1>0, <2>1, SentinelLastTail DEF SentinelOrder
  <2>3. run # "gather"
    <3>1. Sentinel \in Elements(resultQueue)
      BY <1>0, <2>1, ElementsHead
    <3>. QED BY <1>0, <3>1 DEF SentinelOrder
  <2>4. SentinelOrder'
    BY <2>1, <2>2, <2>3 DEF SentinelOrder, SentinelLast
  <2>5. Waiting' = Waiting /\ Buffered' = Buffered /\ Recorded' = Recorded
    BY <1>0, <2>1, OutcomesTail DEF Waiting, Results, Buffered, Recorded
  <2>6. WriterOrder' /\ NotLost'
    BY <1>0, <2>1, <2>5 DEF WriterOrder, NotLost
  <2>. QED BY <2>4, <2>6 DEF Draining
<1>8. ASSUME UNCHANGED <<run, hist, resultQueue>>, writer'.final = writer.final, WriterOrder', NotLost'
      PROVE  Draining'
  BY <1>0, <1>8 DEF Draining, SentinelOrder, Elements, SentinelLast
<1>9. ASSUME Due \/ Failing PROVE Draining'
  <2>1. /\ UNCHANGED <<run, hist, resultQueue, item>> /\ writer'.final = writer.final
        /\ writer'.buffer = writer.buffer
        /\ summary'.aborted \/ (writer'.pc = "flush" /\ summary' = summary)
        /\ writer'.pc # "progress"
    BY <1>9 DEF Due, Failing, WriterOnly, workVars, dbVars
  <2>2. Waiting' = Waiting /\ Buffered' = Buffered /\ Recorded' = Recorded
    BY <2>1 DEF Waiting, Results, Buffered, Recorded
  <2>3. WriterOrder' /\ NotLost'
    BY <1>0, <2>1, <2>2 DEF WriterOrder, NotLost
  <2>. QED BY <1>8, <2>1, <2>3
<1>10. ASSUME Stored PROVE Draining'
  <2>1. /\ UNCHANGED <<run, hist, resultQueue>> /\ writer'.final = writer.final
        /\ writer'.buffer = writer.buffer /\ writer'.pc = "progress"
        /\ summary'.aborted = summary.aborted
    BY <1>10 DEF Stored, WriterOnly, workVars, FlushCommit
  <2>2. Waiting' = Waiting /\ Buffered' = Buffered /\ Recorded' = Recorded \cup Buffered
    BY <1>0, <1>10, <2>1, StoredRecords DEF Waiting, Results, Buffered
  <2>3. WriterOrder' /\ NotLost'
    BY <1>0, <2>1, <2>2 DEF WriterOrder, NotLost
  <2>. QED BY <1>8, <2>1, <2>3
<1>11. ASSUME Emptied PROVE Draining'
  <2>1. /\ UNCHANGED <<run, hist, resultQueue, item, summary>> /\ writer'.final = writer.final
        /\ writer'.buffer = <<>> /\ writer.pc = "progress"
        /\ writer'.pc = IF writer.final THEN "exit" ELSE "get"
    BY <1>11 DEF Emptied, WriterOnly, workVars, dbVars
  <2>2. Waiting' = Waiting /\ Buffered' = {} /\ Recorded' = Recorded /\ Buffered \subseteq Recorded
    BY <1>0, <2>1, ElementsEmpty DEF Waiting, Results, Buffered, Recorded, WriterOrder
  <2>3. WriterOrder' /\ NotLost'
    BY <1>0, <2>1, <2>2 DEF WriterOrder, NotLost
  <2>. QED BY <1>8, <2>1, <2>3
<1>12. ASSUME PutSentinel \/ WorkersKilled PROVE Draining'
  <2>1. /\ run = "gather" /\ run' \in {"drain", "drainKilled"}
        /\ resultQueue' = Append(resultQueue, Sentinel) /\ UNCHANGED <<writer, item, hist, summary>>
    BY <1>12 DEF PutSentinel, WorkersKilled, dbVars
  <2>2. Sentinel \notin Elements(resultQueue) /\ ~writer.final /\ Sentinel \in Message
    BY <1>0, <2>1 DEF SentinelOrder, Message
  <2>3. SentinelLast(resultQueue')
    BY <1>0, <2>1, <2>2, SentinelLastAppend
  <2>4. SentinelOrder'
    BY <2>1, <2>2, <2>3 DEF SentinelOrder, SentinelLast
  <2>5. Waiting' = Waiting /\ Buffered' = Buffered /\ Recorded' = Recorded
    BY <1>0, <2>1, OutcomesSentinel DEF Waiting, Results, Buffered, Recorded
  <2>6. WriterOrder' /\ NotLost'
    BY <1>0, <2>1, <2>5 DEF WriterOrder, NotLost
  <2>. QED BY <2>4, <2>6 DEF Draining
<1>13. ASSUME WriterKilled PROVE Draining'
  <2>1. /\ run = "drain" /\ run' = "killed" /\ UNCHANGED <<resultQueue, item, summary>>
        /\ writer'.pc = "exit" /\ writer'.final = writer.final /\ hist'.writerKilled
    BY <1>13 DEF WriterKilled, dbVars
  <2>2. SentinelOrder'
    BY <1>0, <2>1 DEF SentinelOrder, Elements, SentinelLast
  <2>. QED BY <2>1, <2>2 DEF Draining, WriterOrder, NotLost
<1>. QED BY <1>0, <1>1, <1>3, <1>4, <1>5, <1>6, <1>7, <1>9, <1>10, <1>11, <1>12, <1>13, StepKinds

LEMMA DrainingInvariant == Spec => [](TruthInv /\ Draining)
<1>1. TruthInv /\ Draining /\ [Next]_engineVars => (TruthInv /\ Draining)'
  BY TruthStep, DrainingStep
<1>. QED BY <1>1, TruthInitial, DrainingInitial, PTL DEF Spec

\* Once the run has ended nothing is on its way to the database.
LEMMA EndIsDrained ==
  ASSUME TruthInv, Draining,
         run = "done" \/ (run = "killed" /\ ~hist.writerKilled)
  PROVE  NoOutcomeLost
<1>1. writer.pc = "exit" /\ ~hist.writerKilled
  BY DEF TruthInv, Order, Draining, WriterOrder
<1>2. CASE ~summary.aborted
  <2>1. writer.final /\ writer.buffer = <<>> /\ resultQueue = <<>>
    BY <1>1, <1>2 DEF Draining, WriterOrder, SentinelOrder
  <2>2. Waiting = {} /\ Buffered = {}
    BY <2>1, ElementsEmpty DEF Waiting, Results, Buffered
  <2>3. hist.answered \subseteq Recorded
    BY <1>1, <1>2, <2>2 DEF Draining, NotLost
  <2>. QED BY <2>3 DEF NoOutcomeLost
<1>. QED BY <1>2 DEF NoOutcomeLost

-----------------------------------------------------------------------------
(***************************************************************************)
(* What is counted is what is stored                                       *)
(***************************************************************************)
Handled == summary.succeeded + summary.failed

\* Counters and progress cover what is stored, and are exact until a batch has to
\* be stored again; until then a batch that is due is not stored yet.
Counts ==
    /\ Handled >= Cardinality(Recorded) /\ jobDone >= Cardinality(Recorded)
    /\ ~summary.aborted => /\ Handled = Cardinality(Recorded) /\ jobDone = Cardinality(Recorded)
                           /\ writer.pc \in {"get", "flush"} => Buffered \cap Recorded = {}

LEMMA RecordedFinite ==
  IsFiniteSet(Recorded) /\ Cardinality(Recorded) \in Nat
<1>1. Recorded \subseteq Comment
  BY DEF Recorded
<1>. QED BY <1>1, FS_Subset, FS_CardinalityType, EngineAssumption

LEMMA CountsInitial == Init => Counts
<1>. SUFFICES ASSUME Init PROVE Counts
  OBVIOUS
<1>1. Recorded = {} /\ Cardinality({}) = 0
  BY FS_EmptySet DEF Init, Recorded
<1>. QED BY <1>1 DEF Init, Counts, Handled

LEMMA CountsStep == TruthInv /\ Draining /\ Counts /\ [Next]_engineVars => Counts'
<1>. SUFFICES ASSUME TruthInv, Draining, Counts, [Next]_engineVars PROVE Counts'
  OBVIOUS
<1>0. /\ Base /\ Types /\ Places /\ WriterOrder /\ resultQueue \in Seq(Message)
      /\ summary \in SummaryRecord /\ OncePer(resultQueue)
  BY TypeParts DEF TruthInv, Base, Draining, Places
<1>1. ASSUME UNCHANGED <<item, jobDone>>, summary'.aborted = summary.aborted,
             summary'.succeeded = summary.succeeded, summary'.failed = summary.failed,
             \/ writer'.buffer = writer.buffer /\ (writer'.pc = writer.pc \/ writer'.pc = "exit")
             \/ ~summary.aborted => Buffered' \cap Recorded' = {}
      PROVE  Counts'
  <2>1. Recorded' = Recorded
    BY <1>1 DEF Recorded
  <2>2. writer'.buffer = writer.buffer => Buffered' = Buffered
    BY DEF Buffered
  <2>. QED BY <1>1, <2>1, <2>2 DEF Counts, Handled
<1>2. ASSUME NEW w \in Worker,
             \/ Left(w) \/ Grabbed(w) \/ Moved(w)
             \/ \E c \in Comment, success \in BOOLEAN : HandedTaken(w, c, success)
             \/ \E c \in Comment, success \in BOOLEAN : HandedHeld(w, c, success)
      PROVE  Counts'
  <2>1. /\ UNCHANGED <<item, jobDone, writer>> /\ summary'.aborted = summary.aborted
        /\ summary'.succeeded = summary.succeeded /\ summary'.failed = summary.failed
    BY <1>2 DEF Left, Grabbed, Moved, HandedTaken, HandedHeld, Handed, storeVars
  <2>. QED BY <1>1, <2>1
<1>3. ASSUME PutSentinel \/ Returned \/ Cancel \/ WorkersKilled \/ WriterKilled
             \/ UNCHANGED engineVars
      PROVE  Counts'
  <2>1. /\ UNCHANGED <<item, jobDone>> /\ summary'.aborted = summary.aborted
        /\ summary'.succeeded = summary.succeeded /\ summary'.failed = summary.failed
        /\ writer'.buffer = writer.buffer /\ (writer'.pc = writer.pc \/ writer'.pc = "exit")
    BY <1>3 DEF PutSentinel, Returned, Cancel, WorkersKilled, WriterKilled, dbVars, engineVars
  <2>. QED BY <1>1, <2>1
<1>4. ASSUME GotOutcome PROVE Counts'
  <2>. DEFINE o == Head(resultQueue)
  <2>1. /\ resultQueue # <<>> /\ o \in Outcome /\ writer.pc = "get"
        /\ writer'.buffer = Append(writer.buffer, o)
        /\ UNCHANGED <<item, jobDone, summary>>
    BY <1>4 DEF GotOutcome, WriterOnly, workVars, dbVars
  <2>2. o \in Results
    BY <1>0, <2>1, SentinelIsNoOutcome, ElementsHead DEF Results
  <2>3. o.comment \notin Recorded
    BY <1>0, <2>2, OnePlaceIs DEF Places, Apart, Waiting
  <2>4. Elements(Append(writer.buffer, o)) = Elements(writer.buffer) \cup {o}
    BY <1>0, <2>1, ElementsAppend, BufferParts
  <2>5. Buffered' = Buffered \cup {o.comment} /\ Recorded' = Recorded
    BY <2>1, <2>4 DEF Buffered, Recorded
  <2>6. ~summary.aborted => Buffered' \cap Recorded' = {}
    BY <2>1, <2>3, <2>5 DEF Counts
  <2>. QED BY <1>1, <2>1, <2>6
<1>5. ASSUME GotSentinel \/ Due PROVE Counts'
  <2>1. /\ UNCHANGED <<item, jobDone, summary>> /\ writer'.buffer = writer.buffer
        /\ writer.pc \in {"get", "delay"}
    BY <1>5 DEF GotSentinel, Due, WriterOnly, dbVars
  <2>2. Buffered' = Buffered /\ Recorded' = Recorded
    BY <2>1 DEF Buffered, Recorded
  <2>3. ~summary.aborted => Buffered' \cap Recorded' = {}
    BY <1>0, <2>1, <2>2 DEF Counts, WriterOrder
  <2>. QED BY <1>1, <2>1, <2>3
<1>6. ASSUME Failing PROVE Counts'
  <2>1. /\ UNCHANGED <<item, jobDone>> /\ summary'.aborted /\ summary' \in SummaryRecord
        /\ summary'.succeeded + summary'.failed >= summary.succeeded + summary.failed
    BY <1>6 DEF Failing, WriterOnly, dbVars
  <2>2. Recorded' = Recorded
    BY <2>1 DEF Recorded
  <2>. QED BY <1>0, <2>1, <2>2, RecordedFinite DEF Counts, Handled, SummaryRecord
<1>7. ASSUME Stored PROVE Counts'
  <2>. DEFINE good == Succeeded(writer.buffer)
              bad == Failed(writer.buffer)
  <2>1. /\ writer.pc = "flush" /\ writer'.pc = "progress" /\ summary'.aborted = summary.aborted
        /\ summary'.succeeded = summary.succeeded + Cardinality(good)
        /\ summary'.failed = summary.failed + Cardinality(bad)
        /\ jobDone' = summary'.succeeded + summary'.failed
    BY <1>7 DEF Stored
  <2>2. /\ good \cap bad = {} /\ good \cup bad = Buffered
        /\ IsFiniteSet(good) /\ IsFiniteSet(bad)
        /\ Cardinality(good) \in Nat /\ Cardinality(bad) \in Nat
    BY <1>0, BufferSays, BufferParts
  <2>3. Recorded' = Recorded \cup Buffered
    BY <1>0, <1>7, StoredRecords
  <2>. HIDE DEF good, bad
  <2>4. /\ IsFiniteSet(Buffered)
        /\ Cardinality(Buffered) = Cardinality(good) + Cardinality(bad)
    <3>1. /\ IsFiniteSet(good \cup bad)
          /\ Cardinality(good \cup bad) = Cardinality(good) + Cardinality(bad) - Cardinality(good \cap bad)
      BY <2>2, FS_Union
    <3>2. Cardinality(good \cap bad) = 0
      BY <2>2, FS_EmptySet
    <3>3. IsFiniteSet(Buffered) /\ Cardinality(Buffered) = Cardinality(good \cup bad)
      BY <2>2, <3>1
    <3>. QED BY <2>2, <3>1, <3>2, <3>3
  <2>5. /\ Cardinality(Recorded') = Cardinality(Recorded) + Cardinality(Buffered)
                                      - Cardinality(Recorded \cap Buffered)
        /\ IsFiniteSet(Recorded \cap Buffered)
    BY <2>3, <2>4, RecordedFinite, FS_Union, FS_Intersection
  <2>6. Cardinality(Recorded \cap Buffered) \in Nat
    BY <2>5, FS_CardinalityType
  <2>7. ~summary.aborted => Cardinality(Recorded \cap Buffered) = 0
    BY <2>1, FS_EmptySet DEF Counts
  <2>8. summary.succeeded \in Nat /\ summary.failed \in Nat
    BY <1>0 DEF SummaryRecord
  <2>. QED BY <2>1, <2>2, <2>4, <2>5, <2>6, <2>7, <2>8, RecordedFinite DEF Counts, Handled
<1>8. ASSUME Emptied PROVE Counts'
  <2>1. UNCHANGED <<item, jobDone, summary>> /\ writer'.buffer = <<>>
    BY <1>8 DEF Emptied, WriterOnly, dbVars
  <2>2. Buffered' = {}
    BY <2>1, ElementsEmpty DEF Buffered
  <2>. QED BY <1>1, <2>1, <2>2
<1>. QED BY <1>0, <1>2, <1>3, <1>4, <1>5, <1>6, <1>7, <1>8, StepKinds

-----------------------------------------------------------------------------
(***************************************************************************)
(* Nothing is left behind                                                  *)
(***************************************************************************)
Stopped == cancelEvent \/ ShouldStop

\* Until the run is told to stop every comment is queued, in a hand or answered,
\* and no worker ends before the queue is empty.
Covering ==
    /\ Stopped \/ Comment \subseteq Queued \cup InHand \cup hist.answered
    /\ (\E w \in Worker : worker[w].pc = "done") => Stopped \/ workQueue = <<>>
    /\ run = "done" => (summary.cancelled <=> cancelEvent)

LEMMA CoveringInitial == Init => Covering
<1>. SUFFICES ASSUME Init PROVE Covering
  OBVIOUS
<1>. QED BY InitialQueue, InitialRecords DEF Init, Covering, Queued

LEMMA CoveringStep == TruthInv /\ Covering /\ [Next]_engineVars => Covering'
<1>. SUFFICES ASSUME TruthInv, Covering, [Next]_engineVars PROVE Covering'
  OBVIOUS
<1>0. /\ Base /\ Types /\ Hands /\ Places /\ Order /\ workQueue \in Seq(Comment)
      /\ hist \in HistRecord /\ OneHolder
  BY TypeParts, OnePlaceIs DEF TruthInv, Base, Places
<1>1. ASSUME NEW w \in Worker, NEW c \in Comment, NEW success \in BOOLEAN,
             HandedTaken(w, c, success) \/ HandedHeld(w, c, success)
      PROVE  Covering'
  <2>1. /\ UNCHANGED <<cancelEvent, run>> /\ OnlyMoves(w)
        /\ hist'.answered = hist.answered \cup {c}
        /\ summary'.aborted = summary.aborted
        /\ summary.circuitOpen => summary'.circuitOpen
        /\ worker'[w].pc = "done" => summary'.circuitOpen
    BY <1>1 DEF HandedTaken, HandedHeld, Handed, storeVars
  <2>2. run # "done"
    BY <1>0, <1>1, WorkerRuns
  <2>3. Stopped => Stopped'
    BY <2>1 DEF Stopped, ShouldStop
  <2>4. Queued' \cup InHand' = (Queued \cup InHand) \ {c}
    BY <1>0, <1>1, HandedPlaces
  <2>5. workQueue' = workQueue \/ (~Stopped /\ workQueue # <<>>)
    BY <1>1 DEF HandedTaken, HandedHeld, Stopped
  <2>6. ASSUME NEW v \in Worker, worker'[v].pc = "done" PROVE Stopped' \/ workQueue' = <<>>
    <3>1. CASE v = w
      BY <2>1, <2>6, <3>1 DEF Stopped, ShouldStop
    <3>2. CASE v # w
      BY <2>1, <2>3, <2>5, <2>6, <3>2 DEF OnlyMoves, Covering
    <3>. QED BY <3>1, <3>2
  <2>7. Stopped' \/ Comment \subseteq Queued' \cup InHand' \cup hist'.answered
    BY <2>1, <2>3, <2>4 DEF Covering
  <2>. QED BY <2>1, <2>2, <2>6, <2>7 DEF Covering
<1>2. ASSUME NEW w \in Worker, Left(w) PROVE Covering'
  <2>1. /\ UNCHANGED <<cancelEvent, run, hist>> /\ OnlyMoves(w)
        /\ worker'[w].pc = "done" /\ worker'[w].comment = NoComment
        /\ summary'.aborted = summary.aborted /\ summary'.cancelled = summary.cancelled
    BY <1>2 DEF Left, storeVars
  <2>2. \/ /\ worker[w].pc = "take" /\ UNCHANGED <<workQueue, summary>> /\ workQueue = <<>>
        \/ worker[w].pc = "take" /\ Stopped /\ UNCHANGED summary
        \/ summary'.circuitOpen
    BY <1>2 DEF Left, Stopped
  <2>3. Stopped => Stopped'
    BY <2>1, <2>2 DEF Stopped, ShouldStop
  <2>4. CASE Stopped'
    BY <2>1, <2>4 DEF Covering
  <2>5. CASE ~Stopped'
    <3>1. /\ worker[w].pc = "take" /\ workQueue' = workQueue /\ workQueue = <<>> /\ ~Stopped
      BY <2>1, <2>2, <2>3, <2>5 DEF Stopped, ShouldStop
    <3>2. worker[w].comment = NoComment
      BY <1>0, <3>1 DEF Hands, Idle
    <3>3. InHand' = InHand
      BY <1>0, <2>1, <3>2, HandEmptied DEF InHand
    <3>. QED BY <2>1, <3>1, <3>3 DEF Covering, Queued
  <2>. QED BY <2>4, <2>5
<1>3. ASSUME NEW w \in Worker, Grabbed(w) PROVE Covering'
  <2>1. /\ UNCHANGED <<cancelEvent, run, hist, summary>> /\ OnlyMoves(w) /\ ~Stopped
        /\ workQueue # <<>> /\ workQueue' = Tail(workQueue) /\ worker[w].pc = "take"
        /\ worker'[w].pc = "token" /\ worker'[w].comment = Head(workQueue)
    BY <1>3 DEF Grabbed, storeVars, Stopped
  <2>2. Head(workQueue) \in Comment /\ Elements(workQueue) = {Head(workQueue)} \cup Elements(Tail(workQueue))
    BY <1>0, <2>1, ElementsHead
  <2>3. worker[w].comment = NoComment /\ NoComment \notin Comment
    BY <1>0, <2>1, EngineAssumption DEF Hands, Idle
  <2>4. InHand \cup {Head(workQueue)} \subseteq InHand'
    BY <2>1, <2>2, <2>3 DEF InHand, OnlyMoves
  <2>5. Queued \cup InHand \subseteq Queued' \cup InHand'
    BY <2>1, <2>2, <2>4 DEF Queued
  <2>6. \A v \in Worker : worker'[v].pc # "done"
    BY <2>1 DEF Covering, OnlyMoves
  <2>. QED BY <2>1, <2>5, <2>6 DEF Covering
<1>4. ASSUME NEW w \in Worker, Moved(w) PROVE Covering'
  <2>1. /\ UNCHANGED <<cancelEvent, run, summary, workQueue>> /\ OnlyMoves(w)
        /\ worker'[w].pc # "done" /\ worker'[w].comment = worker[w].comment
    BY <1>4 DEF Moved, storeVars, Active
  <2>2. hist'.answered = hist.answered
    BY <1>0, <1>4 DEF Moved, HistRecord
  <2>3. InHand' = InHand
    BY <2>1 DEF InHand, OnlyMoves
  <2>4. Stopped' = Stopped
    BY <2>1 DEF Stopped, ShouldStop
  <2>5. \A v \in Worker : worker'[v].pc = "done" => worker[v].pc = "done"
    BY <2>1 DEF OnlyMoves
  <2>. QED BY <2>1, <2>2, <2>3, <2>4, <2>5 DEF Covering, Queued
<1>5. ASSUME UNCHANGED <<worker, workQueue>>, hist'.answered = hist.answered,
             summary'.circuitOpen = summary.circuitOpen,
             summary.aborted => summary'.aborted, cancelEvent => cancelEvent',
             run' = "done" => (summary'.cancelled <=> cancelEvent')
      PROVE  Covering'
  <2>1. Stopped => Stopped'
    BY <1>5 DEF Stopped, ShouldStop
  <2>. QED BY <1>5, <2>1 DEF Covering, Queued, InHand
<1>6. ASSUME GotOutcome \/ GotSentinel \/ Due \/ Failing \/ Stored \/ Emptied PROVE Covering'
  <2>1. /\ UNCHANGED <<worker, workQueue, hist, cancelEvent, run>>
        /\ summary'.circuitOpen = summary.circuitOpen /\ summary'.cancelled = summary.cancelled
    BY <1>6 DEF GotOutcome, GotSentinel, Due, Failing, Stored, Emptied, WriterOnly, workVars
  <2>2. summary.aborted => summary'.aborted
    BY <1>6 DEF GotOutcome, GotSentinel, Due, Failing, Stored, Emptied
  <2>3. run' = "done" => (summary'.cancelled <=> cancelEvent')
    BY <2>1 DEF Covering
  <2>. QED BY <1>5, <2>1, <2>2, <2>3
<1>7. ASSUME PutSentinel \/ Returned \/ Cancel \/ WriterKilled \/ UNCHANGED engineVars
      PROVE  Covering'
  <2>1. /\ UNCHANGED <<worker, workQueue>> /\ hist'.answered = hist.answered
        /\ summary'.circuitOpen = summary.circuitOpen /\ summary'.aborted = summary.aborted
        /\ cancelEvent => cancelEvent'
    BY <1>7 DEF PutSentinel, Returned, Cancel, WriterKilled, engineVars
  <2>2. run' = "done" => (summary'.cancelled <=> cancelEvent')
    BY <1>7 DEF PutSentinel, Returned, Cancel, WriterKilled, engineVars, Covering
  <2>. QED BY <1>5, <2>1, <2>2
<1>8. ASSUME WorkersKilled PROVE Covering'
  BY <1>8 DEF WorkersKilled, Covering, Stopped, ShouldStop
<1>. QED BY <1>0, <1>1, <1>2, <1>3, <1>4, <1>6, <1>7, <1>8, StepKinds

-----------------------------------------------------------------------------
(***************************************************************************)
(* Theorems                                                                *)
(***************************************************************************)
EngineInv == TruthInv /\ Draining /\ Counts /\ Covering

LEMMA EngineInvariant == Spec => []EngineInv
<1>1. Init => EngineInv
  BY TruthInitial, DrainingInitial, CountsInitial, CoveringInitial DEF EngineInv
<1>2. EngineInv /\ [Next]_engineVars => EngineInv'
  BY TruthStep, DrainingStep, CountsStep, CoveringStep DEF EngineInv
<1>. QED BY <1>1, <1>2, PTL DEF Spec

\* The state of a run keeps its types: no attempt beyond the allowed ones, no
\* record without its fields.
THEOREM EngineWellTyped == Spec => []TypeOK
<1>1. Base => TypeOK
  BY DEF Base, Types
<1>. QED BY <1>1, BaseInvariant, PTL

\* However many workers run, each comment is in one place.
THEOREM OnePlaceAlways == Spec => []OnePlace
<1>1. Base /\ Places => OnePlace
  BY DEF Places
<1>. QED BY <1>1, PlacesInvariant, PTL

\* Whatever fails on the way, what is recorded as deleted the blog has removed or
\* confirmed to have removed.
THEOREM RecordedConfirmed == Spec => []RecordedIsConfirmed
<1>1. TruthInv => RecordedIsConfirmed
  BY DEF TruthInv, Truth
<1>. QED BY <1>1, TruthInvariant, PTL

\* After a failed storing each worker hands over at most one outcome more.
THEOREM AbortStops == Spec => []AbortStopsWorkers
<1>1. Stopping => AbortStopsWorkers
  BY DEF Stopping, Calm, AbortStopsWorkers
<1>. QED BY <1>1, StoppingInvariant, PTL

\* The circuit opens for as many failed comments as it was told to wait for.
THEOREM OpenIsEarned == Spec => []OpenNeedsFailures
<1>1. Stopping => OpenNeedsFailures
  BY DEF Stopping, Counting
<1>. QED BY <1>1, StoppingInvariant, PTL

\* After the circuit has opened fewer requests go out than there are workers.
THEOREM OpenStops == Spec => []OpenStopsRequests
<1>1. Base /\ Stopping => OpenStopsRequests
  <2>. SUFFICES ASSUME Base, Stopping PROVE OpenStopsRequests
    OBVIOUS
  <2>1. hist.sentAfterOpen \in Nat /\ breaker.open \in BOOLEAN
    BY TypeParts DEF Base, HistRecord, BreakerRecord
  <2>2. Cardinality(Worker) # 0
    BY FS_EmptySet, EngineAssumption
  <2>. QED BY <2>1, <2>2, BoundFinite DEF Stopping, Closing, OpenStopsRequests
<1>. QED BY <1>1, BaseInvariant, StoppingInvariant, PTL

\* The end of a run finds every outcome stored, unless storing failed or the
\* writer was taken away.
THEOREM NothingIsLost == Spec => []NoOutcomeLost
<1>1. TruthInv /\ Draining => NoOutcomeLost
  BY EndIsDrained DEF NoOutcomeLost
<1>. QED BY <1>1, DrainingInvariant, PTL

\* A run that nothing stopped has handled every comment.
THEOREM NothingIsLeft == Spec => []NothingLeftBehind
<1>1. EngineInv => NothingLeftBehind
  <2>. SUFFICES ASSUME EngineInv, run = "done", ~summary.cancelled, ~ShouldStop
                PROVE  Recorded = Comment
    BY DEF NothingLeftBehind
  <2>1. ~Stopped
    BY DEF EngineInv, Covering, Stopped
  <2>2. AllWorkersDone /\ Hands
    BY DEF EngineInv, TruthInv, Base, Order
  <2>3. workQueue = <<>>
    BY <2>1, <2>2, EngineAssumption DEF EngineInv, Covering, AllWorkersDone
  <2>4. InHand = {}
    BY <2>2 DEF AllWorkersDone, Hands, Idle, InHand
  <2>5. hist.answered \subseteq Recorded
    BY EndIsDrained DEF EngineInv, NoOutcomeLost, ShouldStop
  <2>6. Comment \subseteq hist.answered
    BY <2>1, <2>3, <2>4, ElementsEmpty DEF EngineInv, Covering, Queued
  <2>. QED BY <2>5, <2>6 DEF Recorded
<1>. QED BY <1>1, EngineInvariant, PTL

\* The stored progress covers the stored outcomes, exactly as long as no batch is
\* stored again.
THEOREM ProgressCovers == Spec => []ProgressExact
<1>1. EngineInv => ProgressExact
  BY DEF EngineInv, Counts, ProgressExact
<1>. QED BY <1>1, EngineInvariant, PTL
=============================================================================
