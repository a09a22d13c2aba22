------------------------- MODULE DeleteVerifyProofs -------------------------
(***************************************************************************)
(* Theorems about DeleteVerify, for any posts and comments: the records    *)
(* after a verification are right as far as the posts could be read.       *)
(***************************************************************************)
EXTENDS DeleteVerify, TLAPS

(***************************************************************************)
(* The inductive invariant                                                 *)
(***************************************************************************)
\* Posts that have been read to their end.
ReadWhole(e) == e \notin todo \cup unverified \cup cut

\* What has been read so far: the reading of a post ends in one of three ways, a
\* comment that is still there was there when its post was read, and only comments
\* of posts that were read are known.
Reading ==
    /\ todo \cap unverified = {} /\ todo \cap cut = {}
    /\ \A c \in Comment : ReadWhole(EntryOf[c]) /\ c \in alive => c \in seenAlive
    /\ \A c \in seenAlive : EntryOf[c] \notin todo \cup unverified
    /\ stillAlive = {c \in seenAlive : before[c] = "succeeded"}
    /\ pc \in {"correct", "revert"} => todo = {}

\* What the two transactions have written so far.
Correcting ==
    /\ pc \in {"start", "fetch", "correct"} => item = before
    /\ pc = "done" /\ ~circuitOpen => todo = {}
    /\ \A c \in Comment :
          /\ before[c] = "failed" /\ item[c] = "succeeded" =>
                todo = {} /\ c \notin seenAlive /\ unverified # Entry
          /\ before[c] = "succeeded" /\ item[c] = "failed" => c \in stillAlive
          /\ /\ pc = "revert" \/ (pc = "done" /\ ~circuitOpen)
             /\ before[c] = "failed" /\ item[c] = "failed"
             => c \in seenAlive \/ unverified = Entry
          /\ /\ pc = "done" /\ ~circuitOpen
             /\ before[c] = "succeeded" /\ item[c] = "succeeded"
             => c \notin stillAlive

VerifyInv == TypeOK /\ Reading /\ Correcting

-----------------------------------------------------------------------------
LEMMA VerifyInit == Init => VerifyInv
<1>. SUFFICES ASSUME Init PROVE VerifyInv
  OBVIOUS
<1>1. TypeOK
  BY DEF Init, TypeOK, Records
<1>2. Reading
  BY VerifyAssumption DEF Init, Reading, ReadWhole
<1>3. Correcting
  BY DEF Init, Correcting
<1>. QED BY <1>1, <1>2, <1>3 DEF VerifyInv

\* The type invariant is inductive by itself.
LEMMA VerifyTypeStep == TypeOK /\ [Next]_vars => TypeOK'
<1>. SUFFICES ASSUME TypeOK, [Next]_vars PROVE TypeOK'
  OBVIOUS
<1>. USE DEF TypeOK, recordVars
<1>1. CASE Start
  BY <1>1 DEF Start
<1>2. CASE AllRead
  BY <1>2 DEF AllRead
<1>3. CASE CorrectDeleted
  BY <1>3 DEF CorrectDeleted, SetRecords, Records
<1>4. CASE RevertAlive
  BY <1>4 DEF RevertAlive, SetRecords, Records
<1>5. CASE Raise
  BY <1>5 DEF Raise
<1>6. ASSUME NEW e \in Entry, FetchEntry(e) PROVE TypeOK'
  BY <1>6 DEF FetchEntry, Reads, Deleted, LiveIds
<1>7. ASSUME NEW e \in Entry, FetchFails(e) PROVE TypeOK'
  BY <1>7 DEF FetchFails
<1>8. ASSUME NEW c \in Comment, Vanish(c) PROVE TypeOK'
  BY <1>8 DEF Vanish
<1>9. CASE UNCHANGED vars
  BY <1>9 DEF vars
<1>. QED BY <1>1, <1>2, <1>3, <1>4, <1>5, <1>6, <1>7, <1>8, <1>9 DEF Next

\* What was read stays true: the reading of a post adds what was there, nobody adds
\* a comment, and a post is read once.
LEMMA ReadingStep == VerifyInv /\ [Next]_vars => Reading'
<1>. SUFFICES ASSUME VerifyInv, [Next]_vars PROVE Reading'
  OBVIOUS
<1>. USE VerifyAssumption DEF VerifyInv, Reading, ReadWhole, recordVars
<1>1. CASE Start
  BY <1>1 DEF Start
<1>2. CASE AllRead
  BY <1>2 DEF AllRead
<1>3. CASE CorrectDeleted
  BY <1>3 DEF CorrectDeleted
<1>4. CASE RevertAlive
  BY <1>4 DEF RevertAlive
<1>5. CASE Raise
  BY <1>5 DEF Raise
<1>6. ASSUME NEW e \in Entry, FetchEntry(e) PROVE Reading'
  <2>1. PICK live \in SUBSET LiveIds(e) :
           /\ Reads(e, live)
           /\ stillAlive' = stillAlive \cup (Deleted \cap live)
           /\ seenAlive' = seenAlive \cup live
    BY <1>6 DEF FetchEntry
  <2>2. /\ e \in todo /\ pc = "fetch" /\ todo' = todo \ {e}
        /\ UNCHANGED <<alive, pc, before, unverified>>
    BY <1>6 DEF FetchEntry
  <2>3. \A c \in live : c \in Comment /\ EntryOf[c] = e
    BY DEF LiveIds, TypeOK
  <2>4. \/ live = LiveIds(e) /\ cut' = cut
        \/ cut' = cut \cup {e}
    BY <2>1 DEF Reads
  <2>5. \A c \in Comment : ReadWhole(EntryOf[c])' /\ c \in alive' => c \in seenAlive'
    BY <2>1, <2>2, <2>4 DEF LiveIds
  <2>6. \A c \in seenAlive' : EntryOf[c] \notin todo' \cup unverified'
    BY <2>1, <2>2, <2>3
  <2>7. stillAlive' = {c \in seenAlive' : before'[c] = "succeeded"}
    BY <2>1, <2>2, <2>3 DEF Deleted
  <2>8. todo' \cap unverified' = {} /\ todo' \cap cut' = {}
    BY <2>2, <2>4
  <2>. QED BY <2>2, <2>5, <2>6, <2>7, <2>8
<1>7. ASSUME NEW e \in Entry, FetchFails(e) PROVE Reading'
  BY <1>7 DEF FetchFails, TypeOK
<1>8. ASSUME NEW c \in Comment, Vanish(c) PROVE Reading'
  BY <1>8 DEF Vanish
<1>9. CASE UNCHANGED vars
  BY <1>9 DEF vars
<1>. QED BY <1>1, <1>2, <1>3, <1>4, <1>5, <1>6, <1>7, <1>8, <1>9 DEF Next

\* Only the two transactions write, after the last reading.
LEMMA CorrectingStep == VerifyInv /\ [Next]_vars => Correcting'
<1>. SUFFICES ASSUME VerifyInv, [Next]_vars PROVE Correcting'
  OBVIOUS
<1>. USE DEF VerifyInv, Correcting, recordVars
<1>1. CASE Start
  BY <1>1 DEF Start
<1>2. CASE AllRead
  BY <1>2 DEF AllRead
<1>3. CASE CorrectDeleted
  BY <1>3 DEF CorrectDeleted, SetRecords, ActuallyDeleted, Failed, TypeOK, Records, Reading
<1>4. CASE RevertAlive
  BY <1>4 DEF RevertAlive, SetRecords, TypeOK, Records, Reading
<1>5. CASE Raise
  BY <1>5 DEF Raise
<1>6. ASSUME NEW e \in Entry, FetchEntry(e) PROVE Correcting'
  BY <1>6 DEF FetchEntry
<1>7. ASSUME NEW e \in Entry, FetchFails(e) PROVE Correcting'
  BY <1>7 DEF FetchFails
<1>8. ASSUME NEW c \in Comment, Vanish(c) PROVE Correcting'
  BY <1>8 DEF Vanish
<1>9. CASE UNCHANGED vars
  BY <1>9 DEF vars
<1>. QED BY <1>1, <1>2, <1>3, <1>4, <1>5, <1>6, <1>7, <1>8, <1>9 DEF Next

-----------------------------------------------------------------------------
\* The state of a verification is always well typed.
THEOREM VerifyTypes == Spec => []TypeOK
<1>1. Init => TypeOK
  BY VerifyInit DEF VerifyInv
<1>. QED BY <1>1, VerifyTypeStep, PTL DEF Spec

LEMMA VerifyInvariant == Spec => []VerifyInv
<1>1. VerifyInv /\ [Next]_vars => VerifyInv'
  BY VerifyTypeStep, ReadingStep, CorrectingStep DEF VerifyInv
<1>2. Init => VerifyInv
  BY VerifyInit
<1>. QED BY <1>1, <1>2, PTL DEF Spec

\* For any number of posts and comments, read in any order while comments vanish:
\* the records of every post that was read to its end are right (deleter.py:383-384).
THEOREM VerifiedRight == Spec => []VerifiedIsTrue
<1>1. VerifyInv => VerifiedIsTrue
  BY VerifyAssumption
     DEF VerifyInv, TypeOK, Records, Reading, ReadWhole, Correcting, VerifiedIsTrue
<1>. QED BY <1>1, VerifyInvariant, PTL

\* A post that could not be read takes back nothing, for any number of posts.
THEOREM RevertedWereSeen == Spec => []OnlySeenReverted
<1>1. VerifyInv => OnlySeenReverted
  BY DEF VerifyInv, Reading, Correcting, OnlySeenReverted
<1>. QED BY <1>1, VerifyInvariant, PTL

\* Whatever is corrected to a success is gone, when the blog answered for all posts
\* or for none and no reading was cut short.
THEOREM CorrectedAreGone == Spec => []WholeCorrectedIsGone
<1>1. VerifyInv => WholeCorrectedIsGone
  BY VerifyAssumption
     DEF VerifyInv, Reading, ReadWhole, Correcting, WholeCorrectedIsGone, CorrectedIsGone
<1>. QED BY <1>1, VerifyInvariant, PTL
=============================================================================
