---------------------------- MODULE BackupFiles ----------------------------
(***************************************************************************)
(* The backup directory (src/app/services/backup.py): exports, which       *)
(* deletions and requests ask for, each choose a pair of names and write,  *)
(* read back and, on failure, remove their two files in a thread.          *)
(***************************************************************************)
EXTENDS Naturals, FiniteSets

CONSTANTS
    Export,         \* exports, of deletions and of requests
    Row,            \* comments that may be asked for
    Known,          \* those that are in the database
    Stamp,          \* label and second of an export
    Attempts,       \* MAX_FILENAME_ATTEMPTS
    NoFile, NoName

ASSUME BackupAssumption ==
    /\ IsFiniteSet(Row) /\ Known \subseteq Row /\ Attempts \in Nat \ {0}

VARIABLES
    dir,        \* the directory: [name, suffix] -> the file there
    export,     \* per export: where it is, its rows and its name
    raced,      \* history: a name was chosen that another export had chosen before
                \* it opened its file, or after it failed to
    littered    \* history: the process ended or a file could not be removed

backupVars == <<dir, export, raced, littered>>

Name == Stamp \X (0..(Attempts - 1))
Suffix == {"json", "csv"}
\* A file: whose rows it holds, and whether they are all there; a file that two
\* exports wrote at once is nobody's.
File == [of : SUBSET Row, by : SUBSET Export, whole : BOOLEAN]

ASSUME NoFileAssumption == NoFile \notin File

\* In the thread: the next thing to do.
Thread == {"open json", "write json", "open csv", "write csv", "verify"}

ExportRecord ==
    [pc : Thread \cup {"idle", "reserve", "clean up", "done", "refused"},
     rows : SUBSET Known, name : Name \cup {NoName}]

BackupInit ==
    /\ dir = [f \in Name \X Suffix |-> NoFile]
    /\ export = [x \in Export |-> [pc |-> "idle", rows |-> {}, name |-> NoName]]
    /\ raced = FALSE /\ littered = FALSE

ExportGoes(x, pc) == export' = [export EXCEPT ![x].pc = pc]

\* export: without one row that is known it is refused.
Fetch(x, ids) ==
    /\ export[x].pc = "idle" /\ ids # {}
    /\ export' = [export EXCEPT ![x].rows = ids \cap Known,
                                ![x].pc = IF ids \cap Known = {} THEN "refused" ELSE "reserve"]
    /\ UNCHANGED <<dir, raced, littered>>

\* Plausible bug: only the CSV is looked for.
FreeOfCsv(s) == {n \in {s} \X (0..(Attempts - 1)) : dir[<<n, "csv">>] = NoFile}

\* The names of a second of which neither file exists.
Free(s) == {n \in {s} \X (0..(Attempts - 1)) :
                dir[<<n, "json">>] = NoFile /\ dir[<<n, "csv">>] = NoFile}

\* _reserve_paths: the first free name; nothing is created yet.
Reserve(x, s) ==
    /\ export[x].pc = "reserve"
    /\ IF Free(s) = {} THEN ExportGoes(x, "refused") /\ UNCHANGED raced
       ELSE \E n \in Free(s) :
                /\ \A k \in Free(s) : n[2] <= k[2]
                /\ export' = [export EXCEPT ![x].pc = "open json", ![x].name = n]
                /\ raced' = (raced \/ \E y \in Export : export[y].pc \in {"open json", "clean up"}
                                                        /\ export[y].name = n)
    /\ UNCHANGED <<dir, littered>>

\* The directory cannot be made: nothing was chosen, nothing is cleaned up.
ReserveFails(x) ==
    /\ export[x].pc = "reserve" /\ ExportGoes(x, "refused")
    /\ UNCHANGED <<dir, raced, littered>>

At(x, suffix) == <<export[x].name, suffix>>

Writing(suffix) == IF suffix = "json" THEN "write json" ELSE "write csv"

\* open("w") creates or empties the file; whoever has it open writes on ...
Open(x, suffix) ==
    /\ export[x].pc = (IF suffix = "json" THEN "open json" ELSE "open csv")
    /\ dir' = [dir EXCEPT ![At(x, suffix)] =
                  [of |-> {}, whole |-> FALSE,
                   by |-> {x} \cup {y \in Export : export[y].pc = Writing(suffix)
                                                   /\ export[y].name = export[x].name}]]
    /\ ExportGoes(x, Writing(suffix))
    /\ UNCHANGED <<raced, littered>>

\* ... and the rows are in it when it is closed; the clean-up of another export may
\* have removed it meanwhile.
Fill(x, suffix) ==
    /\ export[x].pc = Writing(suffix)
    /\ dir' = [dir EXCEPT ![At(x, suffix)] =
                  IF @ = NoFile \/ x \notin dir[At(x, suffix)].by THEN @
                  ELSE [@ EXCEPT !.of = export[x].rows, !.whole = TRUE]]
    /\ ExportGoes(x, IF suffix = "json" THEN "open csv" ELSE "verify")
    /\ UNCHANGED <<raced, littered>>

Holds(f, n) == f # NoFile /\ f.whole /\ Cardinality(f.of) = n

\* _verify reads both files again and compares the numbers of rows. A file that two
\* exports wrote at once may look right or wrong.
Verify(x) ==
    /\ export[x].pc = "verify"
    /\ \/ /\ \A s \in Suffix : Holds(dir[At(x, s)], Cardinality(export[x].rows))
          /\ ExportGoes(x, "done")
       \/ /\ \E s \in Suffix : \/ ~Holds(dir[At(x, s)], Cardinality(export[x].rows))
                               \/ dir[At(x, s)] # NoFile /\ dir[At(x, s)].by # {x}
          /\ ExportGoes(x, "clean up")
    /\ UNCHANGED <<dir, raced, littered>>

\* Writing fails at any point of the thread.
WriteFails(x) ==
    /\ export[x].pc \in Thread \ {"verify"} /\ ExportGoes(x, "clean up")
    /\ UNCHANGED <<dir, raced, littered>>

\* Plausible bug: the file that was being written is forgotten.
CleanupJson(x) ==
    /\ export[x].pc = "clean up"
    /\ dir' = [dir EXCEPT ![At(x, "json")] = NoFile]
    /\ ExportGoes(x, "refused")
    /\ UNCHANGED <<raced, littered>>

\* _cleanup: both files are removed.
Cleanup(x) ==
    /\ export[x].pc = "clean up"
    /\ dir' = [dir EXCEPT ![At(x, "json")] = NoFile, ![At(x, "csv")] = NoFile]
    /\ ExportGoes(x, "refused")
    /\ UNCHANGED <<raced, littered>>

\* A file that cannot be removed stays.
CleanupFails(x) ==
    /\ export[x].pc = "clean up"
    /\ \E s \in Suffix : dir' = [dir EXCEPT ![At(x, s)] = NoFile]
    /\ ExportGoes(x, "refused") /\ littered' = TRUE
    /\ UNCHANGED raced

InFlight == {x \in Export : export[x].pc \in Thread \cup {"reserve", "clean up"}}

\* The process ends: what is in flight is gone, what is written stays.
BackupCrash ==
    /\ InFlight # {}
    /\ export' = [x \in Export |-> IF x \in InFlight THEN [export[x] EXCEPT !.pc = "refused"]
                                   ELSE export[x]]
    /\ littered' = TRUE
    /\ UNCHANGED <<dir, raced>>

BackupNext ==
    \/ \E x \in Export, ids \in SUBSET Row : Fetch(x, ids)
    \/ \E x \in Export, s \in Stamp : Reserve(x, s)
    \/ \E x \in Export, s \in Suffix : Open(x, s) \/ Fill(x, s)
    \/ \E x \in Export : ReserveFails(x) \/ Verify(x) \/ WriteFails(x) \/ Cleanup(x)
                         \/ CleanupFails(x)
    \/ BackupCrash

BackupSpec == BackupInit /\ [][BackupNext]_backupVars

(***************************************************************************)
(* Properties                                                              *)
(***************************************************************************)
BackupTypeOK ==
    /\ dir \in [Name \X Suffix -> File \cup {NoFile}]
    /\ export \in [Export -> ExportRecord]
    /\ raced \in BOOLEAN /\ littered \in BOOLEAN

\* What a deletion relies on: the two files of a reported export hold exactly its rows
\* from then on, whatever other exports do, write or clean up, unless two exports of
\* one label and second chose the same name while the file of neither existed
\* (backup.py:296-303).
ReportedIsKept ==
    ~raced => \A x \in Export : export[x].pc = "done" =>
        \A s \in Suffix : dir[At(x, s)] = [of |-> export[x].rows, by |-> {x}, whole |-> TRUE]

\* Failed exports leave nothing behind: once nothing is in flight every file belongs to
\* a reported export, unless the process ended or a removal failed (backup.py:360-367).
NoHalfBackup ==
    ~raced /\ ~littered /\ InFlight = {} =>
        \A n \in Name, s \in Suffix : dir[<<n, s>>] # NoFile =>
            \E x \in Export : export[x].pc = "done" /\ export[x].name = n
=============================================================================
