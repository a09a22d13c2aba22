----------------------------- MODULE StoresProofs -----------------------------
(***************************************************************************)
(* Theorems about the three small stores beside the comments: the backup   *)
(* directory (BackupFiles), the targets file (TargetsFile) and the session *)
(* (SessionAuth). They share no state, and each has its own invariant.     *)
(***************************************************************************)
EXTENDS BackupFiles, TargetsFile, SessionAuth, TLAPS

-----------------------------------------------------------------------------
(***************************************************************************)
(* Theorems about BackupFiles, for any exports, rows and names: the files  *)
(* of a reported export stay what they were, and failed exports leave      *)
(* nothing behind.                                                         *)
(***************************************************************************)
(***************************************************************************)
(* BackupFiles: the inductive invariant                                    *)
(***************************************************************************)
\* Who has chosen a name and has not given it up.
Holder == Thread \cup {"clean up", "done"}

Named == \A x \in Export : export[x].pc \in Holder => export[x].name \in Name

\* No two have one name.
NamesApart ==
    ~raced => \A x, y \in Export :
        /\ export[x].pc \in Holder /\ export[y].pc \in Holder
        /\ export[x].name = export[y].name
        => x = y

OwnFile(x) == [of |-> export[x].rows, by |-> {x}, whole |-> TRUE]
Opened(x, s) == dir[At(x, s)] # NoFile /\ dir[At(x, s)].by = {x}

\* What an export has written so far is there, and it alone has written it.
Written(x) ==
    /\ export[x].pc = "write json" => Opened(x, "json")
    /\ export[x].pc \in {"open csv", "write csv", "verify", "done"} => dir[At(x, "json")] = OwnFile(x)
    /\ export[x].pc = "write csv" => Opened(x, "csv")
    /\ export[x].pc \in {"verify", "done"} => dir[At(x, "csv")] = OwnFile(x)

AllWritten == ~raced => \A x \in Export : Written(x)

\* Every file has somebody who will report or remove it.
NoOrphan ==
    ~raced /\ ~littered => \A n \in Name, s \in Suffix :
        dir[<<n, s>>] # NoFile =>
            \E x \in Export : export[x].pc \in Holder /\ export[x].name = n

BackupInv == BackupTypeOK /\ Named /\ NamesApart /\ AllWritten /\ NoOrphan

-----------------------------------------------------------------------------
(***************************************************************************)
(* Exports and files                                                       *)
(***************************************************************************)
Place == Thread \cup {"idle", "reserve", "clean up", "done", "refused"}

\* One export is replaced, the others stay.
LEMMA ExportBecomes ==
  ASSUME BackupTypeOK, NEW x \in Export, NEW u \in ExportRecord, export' = [export EXCEPT ![x] = u]
  PROVE  /\ export' \in [Export -> ExportRecord] /\ export'[x] = u
         /\ \A y \in Export : y # x => export'[y] = export[y]
  BY DEF BackupTypeOK

\* An export moves on: only its place changes.
LEMMA ExportMoves ==
  ASSUME BackupTypeOK, NEW x \in Export, NEW pc \in Place, ExportGoes(x, pc)
  PROVE  /\ export' \in [Export -> ExportRecord]
         /\ export'[x].pc = pc /\ export'[x].rows = export[x].rows
         /\ export'[x].name = export[x].name
         /\ \A y \in Export : y # x => export'[y] = export[y]
<1>. DEFINE u == [export[x] EXCEPT !.pc = pc]
<1>1. export[x] \in ExportRecord
  BY DEF BackupTypeOK
<1>2. u \in ExportRecord /\ u.pc = pc /\ u.rows = export[x].rows /\ u.name = export[x].name
  BY <1>1 DEF ExportRecord, Place
<1>3. export' = [export EXCEPT ![x] = u]
  BY DEF ExportGoes
<1>. HIDE DEF u
<1>. QED BY <1>2, <1>3, ExportBecomes

LEMMA FreeNames ==
  ASSUME NEW s \in Stamp, NEW n \in Free(s)
  PROVE  n \in Name /\ \A t \in Suffix : dir[<<n, t>>] = NoFile
  BY DEF Free, Name, Suffix

\* A reservation: nothing, or the name of a free pair of files.
LEMMA ReserveBecomes ==
  ASSUME BackupTypeOK, NEW x \in Export, NEW s \in Stamp, Reserve(x, s)
  PROVE  \/ ExportGoes(x, "refused") /\ raced' = raced
         \/ \E n \in Free(s) :
                /\ export' \in [Export -> ExportRecord]
                /\ export'[x].pc = "open json" /\ export'[x].name = n
                /\ \A y \in Export : y # x => export'[y] = export[y]
                /\ raced' = (raced \/ \E y \in Export :
                                export[y].pc \in {"open json", "clean up"} /\ export[y].name = n)
<1>1. CASE Free(s) = {}
  BY <1>1 DEF Reserve
<1>2. CASE Free(s) # {}
  <2>1. PICK n \in Free(s) :
            /\ export' = [export EXCEPT ![x].pc = "open json", ![x].name = n]
            /\ raced' = (raced \/ \E y \in Export :
                            export[y].pc \in {"open json", "clean up"} /\ export[y].name = n)
    BY <1>2 DEF Reserve
  <2>. DEFINE u == [export[x] EXCEPT !.pc = "open json", !.name = n]
  <2>2. export[x] \in ExportRecord /\ n \in Name
    BY FreeNames DEF BackupTypeOK
  <2>3. u \in ExportRecord /\ u.pc = "open json" /\ u.name = n
    BY <2>2 DEF ExportRecord, Thread
  <2>4. export' = [export EXCEPT ![x] = u]
    BY <2>1 DEF BackupTypeOK
  <2>. HIDE DEF u
  <2>. QED BY <2>1, <2>3, <2>4, ExportBecomes
<1>. QED BY <1>1, <1>2

LEMMA FetchBecomes ==
  ASSUME BackupTypeOK, NEW x \in Export, NEW ids \in SUBSET Row, Fetch(x, ids)
  PROVE  /\ export' \in [Export -> ExportRecord]
         /\ export'[x].pc \in {"refused", "reserve"}
         /\ \A y \in Export : y # x => export'[y] = export[y]
<1>. DEFINE u == [export[x] EXCEPT !.rows = ids \cap Known,
                                   !.pc = IF ids \cap Known = {} THEN "refused" ELSE "reserve"]
<1>1. export[x] \in ExportRecord
  BY DEF BackupTypeOK
<1>2. u \in ExportRecord /\ u.pc \in {"refused", "reserve"}
  BY <1>1 DEF ExportRecord
<1>3. export' = [export EXCEPT ![x] = u]
  BY DEF Fetch, BackupTypeOK
<1>. HIDE DEF u
<1>. QED BY <1>2, <1>3, ExportBecomes

\* The clean-up of a crash.
LEMMA CrashBecomes ==
  ASSUME BackupTypeOK, BackupCrash
  PROVE  /\ export' \in [Export -> ExportRecord]
         /\ \A x \in Export : \/ export'[x] = export[x]
                              \/ export'[x].pc = "refused"
<1>1. export' = [x \in Export |-> IF x \in InFlight THEN [export[x] EXCEPT !.pc = "refused"]
                                  ELSE export[x]]
  BY DEF BackupCrash
<1>2. \A x \in Export : /\ export[x] \in ExportRecord
                        /\ [export[x] EXCEPT !.pc = "refused"] \in ExportRecord
                        /\ [export[x] EXCEPT !.pc = "refused"].pc = "refused"
  BY DEF BackupTypeOK, ExportRecord
<1>. QED BY <1>1, <1>2

\* The files of two exports with different names are different files.
LEMMA FilesApart ==
  ASSUME BackupInv, ~raced, NEW x \in Export, NEW y \in Export, x # y,
         export[x].pc \in Holder, export[y].pc \in Holder, NEW s, NEW t
  PROVE  At(x, s) # At(y, t)
  BY DEF BackupInv, NamesApart, At

LEMMA BackupInitial == BackupInit => BackupInv
<1>. SUFFICES ASSUME BackupInit PROVE BackupInv
  OBVIOUS
<1>1. BackupTypeOK
  BY DEF BackupInit, BackupTypeOK, ExportRecord
<1>2. \A x \in Export : export[x].pc = "idle"
  BY DEF BackupInit
<1>3. Named /\ NamesApart /\ AllWritten
  BY <1>2 DEF Named, NamesApart, AllWritten, Written, Holder, Thread
<1>4. NoOrphan
  BY DEF BackupInit, NoOrphan
<1>. QED BY <1>1, <1>3, <1>4 DEF BackupInv

-----------------------------------------------------------------------------
(***************************************************************************)
(* Steps that leave the directory alone                                    *)
(***************************************************************************)
\* An export moves on without touching a file, and keeps its name if it has one.
LEMMA MoveStep ==
  ASSUME BackupInv, NEW x \in Export, dir' = dir, raced' = raced, littered => littered',
         export' \in [Export -> ExportRecord], littered' \in BOOLEAN,
         \A y \in Export : y # x => export'[y] = export[y],
         export'[x].pc \in Holder => /\ export[x].pc \in Holder
                                     /\ export'[x].name = export[x].name,
         export[x].pc \in Holder => export'[x].pc \in Holder \/ littered',
         ~raced => Written(x)'
  PROVE  BackupInv'
<1>0. BackupTypeOK /\ Named /\ NamesApart /\ AllWritten /\ NoOrphan
  BY DEF BackupInv
<1>1. BackupTypeOK'
  BY <1>0 DEF BackupTypeOK
<1>2. Named'
  BY <1>0 DEF Named
<1>3. NamesApart'
  BY <1>0 DEF NamesApart
<1>4. ASSUME ~raced, NEW y \in Export, y # x PROVE Written(y)'
  BY <1>0, <1>4 DEF AllWritten, Written, Opened, OwnFile, At
<1>5. AllWritten'
  BY <1>4 DEF AllWritten
<1>6. NoOrphan'
  <2>. SUFFICES ASSUME ~raced, ~littered', NEW n \in Name, NEW s \in Suffix, dir[<<n, s>>] # NoFile
                PROVE  \E y \in Export : export'[y].pc \in Holder /\ export'[y].name = n
    BY DEF NoOrphan
  <2>1. PICK y \in Export : export[y].pc \in Holder /\ export[y].name = n
    BY <1>0 DEF NoOrphan
  <2>. QED BY <2>1
<1>. QED BY <1>1, <1>2, <1>3, <1>5, <1>6 DEF BackupInv

\* A reservation without a race takes a name that nobody holds.
LEMMA TakeStep ==
  ASSUME BackupInv, NEW x \in Export, NEW s \in Stamp, Reserve(x, s), ~raced', ~ExportGoes(x, "refused")
  PROVE  BackupInv'
<1>0. BackupTypeOK /\ Named /\ NamesApart /\ AllWritten /\ NoOrphan
  BY DEF BackupInv
<1>1. export[x].pc = "reserve" /\ UNCHANGED <<dir, littered>>
  BY DEF Reserve
<1>2. PICK n \in Free(s) :
          /\ export' \in [Export -> ExportRecord]
          /\ export'[x].pc = "open json" /\ export'[x].name = n
          /\ \A y \in Export : y # x => export'[y] = export[y]
          /\ raced' = (raced \/ \E y \in Export :
                          export[y].pc \in {"open json", "clean up"} /\ export[y].name = n)
  BY <1>0, ReserveBecomes
<1>3. /\ ~raced /\ n \in Name /\ dir[<<n, "json">>] = NoFile
      /\ \A y \in Export : export[y].pc \in {"open json", "clean up"} => export[y].name # n
  BY <1>2, FreeNames DEF Suffix
<1>4. BackupTypeOK'
  BY <1>0, <1>1, <1>2 DEF BackupTypeOK
<1>5. Named'
  BY <1>0, <1>2, <1>3 DEF Named
<1>6. ASSUME NEW y \in Export, y # x, export[y].pc \in Holder PROVE export[y].name # n
  <2>1. Written(y)
    BY <1>0, <1>3 DEF AllWritten
  <2>2. CASE export[y].pc \in {"open json", "clean up"}
    BY <1>3, <2>2
  <2>3. CASE export[y].pc = "write json"
    BY <1>3, <2>1, <2>3 DEF Written, Opened, At
  <2>4. CASE export[y].pc \in {"open csv", "write csv", "verify", "done"}
    <3>1. OwnFile(y) # NoFile
      <4>1. export[y].rows \in SUBSET Row
        BY <1>0, BackupAssumption DEF BackupTypeOK, ExportRecord
      <4>2. OwnFile(y) \in File
        BY <4>1 DEF OwnFile, File
      <4>. QED BY <4>2, NoFileAssumption
    <3>. QED BY <1>3, <2>1, <2>4, <3>1 DEF Written, At
  <2>. QED BY <1>6, <2>2, <2>3, <2>4 DEF Holder, Thread
<1>7. NamesApart'
  BY <1>0, <1>2, <1>3, <1>6 DEF NamesApart
<1>8. ASSUME NEW y \in Export, y # x PROVE Written(y)'
  BY <1>0, <1>1, <1>2, <1>3, <1>8 DEF AllWritten, Written, Opened, OwnFile, At
<1>9. Written(x)'
  BY <1>2 DEF Written
<1>10. AllWritten'
  BY <1>8, <1>9 DEF AllWritten
<1>11. NoOrphan'
  <2>1. export[x].pc \notin Holder
    BY <1>1 DEF Holder, Thread
  <2>2. \A y \in Export : export[y].pc \in Holder => export'[y] = export[y]
    BY <1>2, <2>1
  <2>3. ASSUME ~littered', NEW m \in Name, NEW t \in Suffix, dir'[<<m, t>>] # NoFile
        PROVE  \E y \in Export : export'[y].pc \in Holder /\ export'[y].name = m
    <3>1. PICK y \in Export : export[y].pc \in Holder /\ export[y].name = m
      BY <1>0, <1>1, <1>3, <2>3 DEF NoOrphan
    <3>. QED BY <2>2, <3>1
  <2>. QED BY <2>3 DEF NoOrphan
<1>. QED BY <1>4, <1>5, <1>7, <1>10, <1>11 DEF BackupInv

\* After a race only the types and that a name was chosen are left to show.
LEMMA RaceStep ==
  ASSUME BackupInv, NEW x \in Export, NEW s \in Stamp, Reserve(x, s), raced'
  PROVE  BackupInv'
<1>0. BackupTypeOK /\ Named
  BY DEF BackupInv
<1>1. UNCHANGED <<dir, littered>>
  BY DEF Reserve
<1>2. NamesApart' /\ AllWritten' /\ NoOrphan'
  BY DEF NamesApart, AllWritten, NoOrphan
<1>3. BackupTypeOK' /\ Named'
  <2>1. CASE ExportGoes(x, "refused") /\ raced' = raced
    <3>1. "refused" \in Place
      BY DEF Place
    <3>2. /\ export' \in [Export -> ExportRecord] /\ export'[x].pc = "refused"
          /\ \A y \in Export : y # x => export'[y] = export[y]
      BY <1>0, <2>1, <3>1, ExportMoves
    <3>. QED BY <1>0, <1>1, <2>1, <3>2 DEF BackupTypeOK, Named, Holder, Thread
  <2>2. CASE ~(ExportGoes(x, "refused") /\ raced' = raced)
    <3>1. PICK n \in Free(s) :
              /\ export' \in [Export -> ExportRecord]
              /\ export'[x].pc = "open json" /\ export'[x].name = n
              /\ \A y \in Export : y # x => export'[y] = export[y]
              /\ raced' = (raced \/ \E y \in Export :
                              export[y].pc \in {"open json", "clean up"} /\ export[y].name = n)
      BY <1>0, <2>2, ReserveBecomes
    <3>2. n \in Name
      BY FreeNames
    <3>. QED BY <1>0, <1>1, <3>1, <3>2 DEF BackupTypeOK, Named
  <2>. QED BY <2>1, <2>2
<1>. QED BY <1>2, <1>3 DEF BackupInv

-----------------------------------------------------------------------------
(***************************************************************************)
(* Steps that touch the files of one export                                *)
(***************************************************************************)
\* An export changes files of its own and moves on; everybody else keeps his.
LEMMA FileStep ==
  ASSUME BackupInv, NEW x \in Export, export[x].pc \in Holder,
         dir' \in [Name \X Suffix -> File \cup {NoFile}],
         \A f \in Name \X Suffix : (\A s \in Suffix : f # At(x, s)) => dir'[f] = dir[f],
         raced' = raced, littered' \in BOOLEAN, littered => littered',
         export' \in [Export -> ExportRecord],
         \A y \in Export : y # x => export'[y] = export[y],
         export'[x].name = export[x].name,
         \/ export'[x].pc \in Holder
         \/ littered'
         \/ \A s \in Suffix : dir'[At(x, s)] = NoFile,
         ~raced => Written(x)'
  PROVE  BackupInv'
<1>0. BackupTypeOK /\ Named /\ NamesApart /\ AllWritten /\ NoOrphan
  BY DEF BackupInv
<1>1. BackupTypeOK'
  BY <1>0 DEF BackupTypeOK
<1>2. Named'
  BY <1>0 DEF Named
<1>3. NamesApart'
  BY <1>0 DEF NamesApart
<1>4. ASSUME ~raced, NEW y \in Export, y # x PROVE Written(y)'
  <2>1. export'[y] = export[y] /\ Written(y)
    BY <1>0, <1>4 DEF AllWritten
  <2>2. CASE export[y].pc \in Holder
    <3>1. ASSUME NEW t \in Suffix PROVE dir'[At(y, t)] = dir[At(y, t)]
      <4>1. At(y, t) \in Name \X Suffix
        BY <1>0, <2>2 DEF Named, At
      <4>2. \A s \in Suffix : At(x, s) # At(y, t)
        BY <1>4, <2>2, FilesApart
      <4>. QED BY <4>1, <4>2
    <3>2. At(y, "json")' = At(y, "json") /\ At(y, "csv")' = At(y, "csv") /\ OwnFile(y)' = OwnFile(y)
      BY <2>1 DEF At, OwnFile
    <3>3. dir'[At(y, "json")] = dir[At(y, "json")] /\ dir'[At(y, "csv")] = dir[At(y, "csv")]
      BY <3>1 DEF Suffix
    <3>. QED BY <2>1, <3>2, <3>3 DEF Written, Opened
  <2>3. CASE export[y].pc \notin Holder
    BY <2>1, <2>3 DEF Written, Holder, Thread
  <2>. QED BY <2>2, <2>3
<1>5. AllWritten'
  BY <1>4 DEF AllWritten
<1>6. NoOrphan'
  <2>. SUFFICES ASSUME ~raced, ~littered', NEW n \in Name, NEW s \in Suffix, dir'[<<n, s>>] # NoFile
                PROVE  \E y \in Export : export'[y].pc \in Holder /\ export'[y].name = n
    BY DEF NoOrphan
  <2>1. CASE n = export[x].name
    <3>1. At(x, s) = <<n, s>>
      BY <2>1 DEF At
    <3>. QED BY <2>1, <3>1
  <2>2. CASE n # export[x].name
    <3>1. \A t \in Suffix : <<n, s>> # At(x, t)
      BY <2>2 DEF At
    <3>2. dir[<<n, s>>] # NoFile
      BY <3>1
    <3>3. PICK y \in Export : export[y].pc \in Holder /\ export[y].name = n
      BY <1>0, <3>2 DEF NoOrphan
    <3>. QED BY <2>2, <3>3
  <2>. QED BY <2>1, <2>2
<1>. QED BY <1>1, <1>2, <1>3, <1>5, <1>6 DEF BackupInv

\* Without a race nobody else is at the file that is opened.
LEMMA OpenStep ==
  ASSUME BackupInv, NEW x \in Export, NEW s \in Suffix, Open(x, s)
  PROVE  BackupInv'
<1>. DEFINE pc == IF s = "json" THEN "open json" ELSE "open csv"
            who == {x} \cup {y \in Export : export[y].pc = Writing(s)
                                            /\ export[y].name = export[x].name}
            new == [of |-> {}, whole |-> FALSE, by |-> who]
<1>0. BackupTypeOK /\ Named /\ NamesApart /\ AllWritten
  BY DEF BackupInv
<1>1. /\ export[x].pc = pc /\ dir' = [dir EXCEPT ![At(x, s)] = new]
      /\ ExportGoes(x, Writing(s)) /\ UNCHANGED <<raced, littered>>
  BY DEF Open
<1>2. Writing(s) \in Place /\ Writing(s) \in Holder /\ pc \in Holder
  BY DEF Writing, Place, Holder, Thread
<1>3. /\ export' \in [Export -> ExportRecord] /\ export'[x].pc = Writing(s)
      /\ export'[x].name = export[x].name
      /\ \A y \in Export : y # x => export'[y] = export[y]
  BY <1>0, <1>1, <1>2, ExportMoves
<1>4. At(x, s) \in Name \X Suffix
  BY <1>0, <1>1, <1>2 DEF Named, At
<1>5. new \in File /\ new.by = who
  BY DEF File
<1>. HIDE DEF new
<1>6. /\ dir' \in [Name \X Suffix -> File \cup {NoFile}] /\ dir'[At(x, s)] = new
      /\ \A f : f \in Name \X Suffix /\ f # At(x, s) => dir'[f] = dir[f]
  BY <1>0, <1>1, <1>4, <1>5 DEF BackupTypeOK
<1>7. ASSUME ~raced PROVE Written(x)'
  <2>1. who = {x}
    BY <1>0, <1>1, <1>2, <1>7 DEF NamesApart
  <2>2. Opened(x, s)'
    <3>1. At(x, s)' = At(x, s)
      BY <1>3 DEF At
    <3>. QED BY <1>5, <1>6, <2>1, <3>1, NoFileAssumption DEF Opened
  <2>3. CASE s = "json"
    BY <1>3, <2>2, <2>3 DEF Written, Writing
  <2>4. CASE s = "csv"
    <3>1. dir[At(x, "json")] = OwnFile(x)
      BY <1>0, <1>1, <1>7, <2>4 DEF AllWritten, Written
    <3>2. At(x, "json") \in Name \X Suffix /\ At(x, "json") # At(x, s)
      BY <1>0, <1>1, <1>2, <2>4 DEF Named, At, Suffix
    <3>3. dir'[At(x, "json")'] = OwnFile(x)' 
      <4>1. export'[x].rows = export[x].rows
        BY <1>0, <1>1, <1>2, ExportMoves
      <4>2. At(x, "json")' = At(x, "json") /\ OwnFile(x)' = OwnFile(x)
        BY <1>3, <4>1 DEF At, OwnFile
      <4>. QED BY <1>6, <3>1, <3>2, <4>2
    <3>. QED BY <1>3, <2>2, <2>4, <3>3 DEF Written, Writing
  <2>. QED BY <2>3, <2>4 DEF Suffix
<1>8. \A f \in Name \X Suffix : (\A t \in Suffix : f # At(x, t)) => dir'[f] = dir[f]
  BY <1>6
<1>9. littered' \in BOOLEAN
  BY <1>0, <1>1 DEF BackupTypeOK
<1>. QED BY <1>1, <1>2, <1>3, <1>6, <1>7, <1>8, <1>9, FileStep

\* What an export finds of its file when it closes it is what it opened.
LEMMA FillStep ==
  ASSUME BackupInv, NEW x \in Export, NEW s \in Suffix, Fill(x, s)
  PROVE  BackupInv'
<1>. DEFINE file == dir[At(x, s)]
            new == IF file = NoFile \/ x \notin file.by THEN file
                   ELSE [file EXCEPT !.of = export[x].rows, !.whole = TRUE]
            pc == IF s = "json" THEN "open csv" ELSE "verify"
<1>0. BackupTypeOK /\ Named /\ NamesApart /\ AllWritten
  BY DEF BackupInv
<1>1. /\ export[x].pc = Writing(s) /\ dir' = [dir EXCEPT ![At(x, s)] = new]
      /\ ExportGoes(x, pc) /\ UNCHANGED <<raced, littered>>
  BY DEF Fill
<1>2. Writing(s) \in Holder /\ pc \in Holder /\ pc \in Place
  BY DEF Writing, Place, Holder, Thread
<1>3. /\ export' \in [Export -> ExportRecord] /\ export'[x].pc = pc
      /\ export'[x].rows = export[x].rows /\ export'[x].name = export[x].name
      /\ \A y \in Export : y # x => export'[y] = export[y]
  BY <1>0, <1>1, <1>2, ExportMoves
<1>4. At(x, s) \in Name \X Suffix /\ export[x].rows \in SUBSET Row
  BY <1>0, <1>1, <1>2, BackupAssumption DEF Named, At, BackupTypeOK, ExportRecord
<1>5. file \in File \cup {NoFile}
  BY <1>0, <1>4 DEF BackupTypeOK
<1>6. /\ new \in File \cup {NoFile}
      /\ file # NoFile /\ file.by = {x} => new = OwnFile(x)
  BY <1>4, <1>5, NoFileAssumption DEF File, OwnFile
<1>. HIDE DEF new
<1>7. /\ dir' \in [Name \X Suffix -> File \cup {NoFile}] /\ dir'[At(x, s)] = new
      /\ \A f : f \in Name \X Suffix /\ f # At(x, s) => dir'[f] = dir[f]
  BY <1>0, <1>1, <1>4, <1>6 DEF BackupTypeOK
<1>8. /\ At(x, "json")' = At(x, "json") /\ At(x, "csv")' = At(x, "csv")
      /\ At(x, s)' = At(x, s) /\ OwnFile(x)' = OwnFile(x)
  BY <1>3 DEF At, OwnFile
<1>9. ASSUME ~raced PROVE Written(x)'
  <2>1. Written(x)
    BY <1>0, <1>9 DEF AllWritten
  <2>2. CASE s = "json"
    <3>1. file # NoFile /\ file.by = {x}
      BY <1>1, <2>1, <2>2 DEF Written, Opened, Writing
    <3>. QED BY <1>3, <1>6, <1>7, <1>8, <2>2, <3>1 DEF Written
  <2>3. CASE s = "csv"
    <3>1. file # NoFile /\ file.by = {x} /\ dir[At(x, "json")] = OwnFile(x)
      BY <1>1, <2>1, <2>3 DEF Written, Opened, Writing
    <3>2. At(x, "json") \in Name \X Suffix /\ At(x, "json") # At(x, s)
      BY <1>0, <1>1, <1>2, <2>3 DEF Named, At, Suffix
    <3>3. dir'[At(x, "json")] = OwnFile(x)
      BY <1>7, <3>1, <3>2
    <3>. QED BY <1>3, <1>6, <1>7, <1>8, <2>3, <3>1, <3>3 DEF Written
  <2>. QED BY <2>2, <2>3 DEF Suffix
<1>10. \A f \in Name \X Suffix : (\A t \in Suffix : f # At(x, t)) => dir'[f] = dir[f]
  BY <1>7
<1>11. littered' \in BOOLEAN
  BY <1>0, <1>1 DEF BackupTypeOK
<1>. HIDE DEF pc
<1>. QED BY <1>1, <1>2, <1>3, <1>7, <1>9, <1>10, <1>11, FileStep

LEMMA VerifyStep ==
  ASSUME BackupInv, NEW x \in Export, Verify(x)
  PROVE  BackupInv'
<1>0. BackupTypeOK /\ AllWritten /\ export[x].pc = "verify" /\ UNCHANGED <<dir, raced, littered>>
  BY DEF BackupInv, Verify
<1>1. PICK pc \in {"done", "clean up"} : ExportGoes(x, pc)
  BY DEF Verify
<1>2. /\ export' \in [Export -> ExportRecord] /\ export'[x].pc = pc
      /\ export'[x].rows = export[x].rows /\ export'[x].name = export[x].name
      /\ \A y \in Export : y # x => export'[y] = export[y]
  BY <1>0, <1>1, ExportMoves DEF Place
<1>3. ASSUME ~raced PROVE Written(x)'
  <2>1. dir[At(x, "json")] = OwnFile(x) /\ dir[At(x, "csv")] = OwnFile(x)
    BY <1>0, <1>3 DEF AllWritten, Written
  <2>2. At(x, "json")' = At(x, "json") /\ At(x, "csv")' = At(x, "csv") /\ OwnFile(x)' = OwnFile(x)
    BY <1>2 DEF At, OwnFile
  <2>. QED BY <1>0, <1>1, <1>2, <2>1, <2>2 DEF Written
<1>4. export[x].pc \in Holder /\ pc \in Holder /\ littered' \in BOOLEAN
  BY <1>0 DEF Holder, Thread, BackupTypeOK
<1>. QED BY <1>0, <1>2, <1>3, <1>4, MoveStep

\* Only an export that has chosen a name cleans up, and only its own two files.
LEMMA CleanupStep ==
  ASSUME BackupInv, NEW x \in Export, Cleanup(x) \/ CleanupFails(x)
  PROVE  BackupInv'
<1>0. /\ BackupTypeOK /\ Named /\ export[x].pc = "clean up" /\ raced' = raced
      /\ ExportGoes(x, "refused")
  BY DEF BackupInv, Cleanup, CleanupFails
<1>1. "refused" \in Place /\ export[x].pc \in Holder
  BY <1>0 DEF Place, Holder
<1>2. /\ export' \in [Export -> ExportRecord] /\ export'[x].pc = "refused"
      /\ export'[x].name = export[x].name
      /\ \A y \in Export : y # x => export'[y] = export[y]
  BY <1>0, <1>1, ExportMoves
<1>3. At(x, "json") \in Name \X Suffix /\ At(x, "csv") \in Name \X Suffix
  BY <1>0, <1>1 DEF Named, At, Suffix
<1>4. /\ dir' \in [Name \X Suffix -> File \cup {NoFile}]
      /\ \A f \in Name \X Suffix : (\A t \in Suffix : f # At(x, t)) => dir'[f] = dir[f]
      /\ littered' \in BOOLEAN /\ (littered => littered')
      /\ littered' \/ \A t \in Suffix : dir'[At(x, t)] = NoFile
  <2>1. CASE Cleanup(x)
    BY <1>0, <1>3, <2>1 DEF Cleanup, BackupTypeOK, Suffix
  <2>2. CASE CleanupFails(x)
    <3>1. PICK t \in Suffix : dir' = [dir EXCEPT ![At(x, t)] = NoFile]
      BY <2>2 DEF CleanupFails
    <3>. QED BY <1>0, <1>3, <2>2, <3>1 DEF CleanupFails, BackupTypeOK
  <2>. QED BY <2>1, <2>2
<1>5. Written(x)'
  BY <1>2 DEF Written
<1>. QED BY <1>0, <1>1, <1>2, <1>4, <1>5, FileStep

LEMMA CrashStep == BackupInv /\ BackupCrash => BackupInv'
<1>. SUFFICES ASSUME BackupInv, BackupCrash PROVE BackupInv'
  OBVIOUS
<1>0. /\ BackupTypeOK /\ Named /\ NamesApart /\ AllWritten
      /\ littered' = TRUE /\ UNCHANGED <<dir, raced>>
  BY DEF BackupInv, BackupCrash
<1>1. /\ export' \in [Export -> ExportRecord]
      /\ \A x \in Export : export'[x] = export[x] \/ export'[x].pc = "refused"
  BY <1>0, CrashBecomes
<1>2. BackupTypeOK' /\ NoOrphan'
  BY <1>0, <1>1 DEF BackupTypeOK, NoOrphan
<1>3. \A x \in Export : export'[x].pc \in Holder => export'[x] = export[x]
  BY <1>1 DEF Holder, Thread
<1>4. Named' /\ NamesApart'
  BY <1>0, <1>3 DEF Named, NamesApart
<1>5. ASSUME ~raced, NEW x \in Export PROVE Written(x)'
  <2>1. CASE export'[x] = export[x]
    BY <1>0, <1>5, <2>1 DEF AllWritten, Written, Opened, OwnFile, At
  <2>2. CASE export'[x].pc = "refused"
    BY <2>2 DEF Written
  <2>. QED BY <1>1, <2>1, <2>2
<1>. QED BY <1>0, <1>2, <1>4, <1>5 DEF AllWritten, BackupInv

LEMMA BackupStep == BackupInv /\ [BackupNext]_backupVars => BackupInv'
<1>. SUFFICES ASSUME BackupInv, [BackupNext]_backupVars PROVE BackupInv'
  OBVIOUS
<1>0. BackupTypeOK
  BY DEF BackupInv
<1>1. ASSUME NEW x \in Export, NEW ids \in SUBSET Row, Fetch(x, ids) PROVE BackupInv'
  <2>1. /\ export[x].pc = "idle" /\ UNCHANGED <<dir, raced, littered>>
        /\ export'[x].pc \in {"refused", "reserve"} /\ littered' \in BOOLEAN
    BY <1>0, <1>1, FetchBecomes DEF Fetch, BackupTypeOK
  <2>2. export[x].pc \notin Holder /\ export'[x].pc \notin Holder /\ Written(x)'
    BY <2>1 DEF Holder, Thread, Written
  <2>. QED BY <1>0, <1>1, <2>1, <2>2, FetchBecomes, MoveStep
<1>2. ASSUME NEW x \in Export, NEW s \in Stamp, Reserve(x, s) PROVE BackupInv'
  <2>1. CASE raced'
    BY <1>2, <2>1, RaceStep
  <2>2. CASE ~raced' /\ ~ExportGoes(x, "refused")
    BY <1>2, <2>2, TakeStep
  <2>3. CASE ~raced' /\ ExportGoes(x, "refused")
    <3>1. /\ export[x].pc = "reserve" /\ UNCHANGED <<dir, littered>> /\ littered' \in BOOLEAN
      BY <1>0, <1>2 DEF Reserve, BackupTypeOK
    <3>2. raced' = raced
      BY <1>0, <1>2, <2>3, ReserveBecomes DEF BackupTypeOK
    <3>3. /\ export' \in [Export -> ExportRecord] /\ export'[x].pc = "refused"
          /\ \A y \in Export : y # x => export'[y] = export[y]
      BY <1>0, <2>3, ExportMoves DEF Place
    <3>4. export[x].pc \notin Holder /\ export'[x].pc \notin Holder /\ Written(x)'
      BY <3>1, <3>3 DEF Holder, Thread, Written
    <3>. QED BY <3>1, <3>2, <3>3, <3>4, MoveStep
  <2>. QED BY <2>1, <2>2, <2>3
<1>3. ASSUME NEW x \in Export, ReserveFails(x) PROVE BackupInv'
  <2>1. /\ export[x].pc = "reserve" /\ UNCHANGED <<dir, raced, littered>>
        /\ ExportGoes(x, "refused") /\ littered' \in BOOLEAN
    BY <1>0, <1>3 DEF ReserveFails, BackupTypeOK
  <2>2. /\ export' \in [Export -> ExportRecord] /\ export'[x].pc = "refused"
        /\ \A y \in Export : y # x => export'[y] = export[y]
    BY <1>0, <2>1, ExportMoves DEF Place
  <2>3. export[x].pc \notin Holder /\ export'[x].pc \notin Holder /\ Written(x)'
    BY <2>1, <2>2 DEF Holder, Thread, Written
  <2>. QED BY <2>1, <2>2, <2>3, MoveStep
<1>4. ASSUME NEW x \in Export, WriteFails(x) PROVE BackupInv'
  <2>1. /\ export[x].pc \in Thread /\ UNCHANGED <<dir, raced, littered>>
        /\ ExportGoes(x, "clean up") /\ littered' \in BOOLEAN
    BY <1>0, <1>4 DEF WriteFails, BackupTypeOK
  <2>2. /\ export' \in [Export -> ExportRecord] /\ export'[x].pc = "clean up"
        /\ export'[x].name = export[x].name
        /\ \A y \in Export : y # x => export'[y] = export[y]
    BY <1>0, <2>1, ExportMoves DEF Place
  <2>3. export[x].pc \in Holder /\ export'[x].pc \in Holder /\ Written(x)'
    BY <2>1, <2>2 DEF Holder, Thread, Written
  <2>. QED BY <2>1, <2>2, <2>3, MoveStep
<1>5. CASE UNCHANGED backupVars
  <2>1. UNCHANGED <<dir, export, raced, littered>>
    BY <1>5 DEF backupVars
  <2>2. BackupTypeOK' /\ Named' /\ NamesApart' /\ NoOrphan'
    BY <2>1 DEF BackupInv, BackupTypeOK, Named, NamesApart, NoOrphan
  <2>3. AllWritten'
    BY <2>1 DEF BackupInv, AllWritten, Written, Opened, OwnFile, At
  <2>. QED BY <2>2, <2>3 DEF BackupInv
<1>. QED
  BY <1>1, <1>2, <1>3, <1>4, <1>5, OpenStep, FillStep, VerifyStep, CleanupStep, CrashStep
  DEF BackupNext

LEMMA BackupInvariant == BackupSpec => []BackupInv
<1>. QED BY BackupInitial, BackupStep, PTL DEF BackupSpec

-----------------------------------------------------------------------------
\* Any number of exports leave the directory well typed.
THEOREM BackupsWellTyped == BackupSpec => []BackupTypeOK
<1>1. BackupInv => BackupTypeOK
  BY DEF BackupInv
<1>. QED BY <1>1, BackupInvariant, PTL

\* The two files of a reported export hold exactly its rows from then on, for any
\* number of exports, unless two chose one name at once.
THEOREM BackupsAreKept == BackupSpec => []ReportedIsKept
<1>1. BackupInv => ReportedIsKept
  BY DEF BackupInv, AllWritten, Written, OwnFile, ReportedIsKept, Suffix
<1>. QED BY <1>1, BackupInvariant, PTL

\* Failed exports leave no file behind, with the exceptions the property names.
THEOREM NothingHalfDone == BackupSpec => []NoHalfBackup
<1>1. BackupInv => NoHalfBackup
  BY DEF BackupInv, NoOrphan, NoHalfBackup, InFlight, Holder
<1>. QED BY <1>1, BackupInvariant, PTL

-----------------------------------------------------------------------------
(***************************************************************************)
(* Theorems about TargetsFile, for any posts, requests and restarts: file  *)
(* and table agree, what was removed returns in one way only, and a        *)
(* registration keeps what is known of a target.                           *)
(***************************************************************************)
(***************************************************************************)
(* TargetsFile: the inductive invariant                                    *)
(***************************************************************************)
\* A collection fills in titles of posts that are, or were, in the table.
FillIsKnown ==
    \A k \in Caller : caller[k].pc = "fill" => caller[k].posts \subseteq Present \cup removed

\* While the server is down nobody is on his way.
DownIsIdle == ~up => \A k \in Caller : caller[k].pc = "idle"

\* One request at a time writes the file, with what the table holds.
OneWriter ==
    ~disordered =>
        /\ \A k, m \in Syncing : k = m
        /\ \A k \in Caller : caller[k].pc = "save" =>
               Manual \ refilled \subseteq caller[k].posts /\ caller[k].posts \subseteq Manual

TargetsInv ==
    /\ TargetsTypeOK /\ FillIsKnown /\ DownIsIdle /\ OneWriter
    /\ FileFollowsTable /\ NothingReturns

(***************************************************************************)
(* What an action does to the table and to the callers                     *)
(***************************************************************************)
\* A registered target is known with what was known of it.
LEMMA UpsertedKeeps ==
  ASSUME TargetsTypeOK, NEW e \in Post, NEW titled \in BOOLEAN, NEW source \in Sources
  PROVE  /\ Upserted(e, titled, source) \in TargetRecord
         /\ Upserted(e, titled, source) # NoTarget
         /\ target[e] # NoTarget =>
               /\ Upserted(e, titled, source).source = target[e].source
               /\ Upserted(e, titled, source).enabled = target[e].enabled
               /\ target[e].titled => Upserted(e, titled, source).titled
         /\ target[e] = NoTarget => Upserted(e, titled, source).source = source
<1>1. target[e] \in TargetRecord \cup {NoTarget}
  BY DEF TargetsTypeOK
<1>2. CASE target[e] = NoTarget
  <2>1. Upserted(e, titled, source) = [enabled |-> TRUE, source |-> source, titled |-> titled]
    BY <1>2 DEF Upserted
  <2>2. /\ Upserted(e, titled, source) \in TargetRecord
        /\ Upserted(e, titled, source).source = source
    BY <2>1 DEF TargetRecord
  <2>. QED BY <1>2, <2>2, NoTargetAssumption
<1>3. CASE target[e] # NoTarget
  <2>. DEFINE u == [target[e] EXCEPT !.titled = target[e].titled \/ titled]
  <2>1. Upserted(e, titled, source) = u
    BY <1>3 DEF Upserted
  <2>2. /\ u \in TargetRecord /\ u.source = target[e].source /\ u.enabled = target[e].enabled
        /\ u.titled = (target[e].titled \/ titled)
    BY <1>1, <1>3 DEF TargetRecord
  <2>. HIDE DEF u
  <2>. QED BY <1>3, <2>1, <2>2, NoTargetAssumption
<1>. QED BY <1>2, <1>3

LEMMA UpsertTable ==
  ASSUME TargetsTypeOK, NEW posts \in SUBSET Post, NEW titled \in BOOLEAN,
         NEW source \in Sources, Upsert(posts, titled, source)
  PROVE  /\ target' \in [Post -> TargetRecord \cup {NoTarget}]
         /\ Present' = Present \cup posts
         /\ Manual' = IF source = "manual" THEN Manual \cup (posts \ Present) ELSE Manual
<1>1. target' = [e \in Post |-> IF e \in posts THEN Upserted(e, titled, source) ELSE target[e]]
  BY DEF Upsert
<1>2. target \in [Post -> TargetRecord \cup {NoTarget}]
  BY DEF TargetsTypeOK
<1>3. \A e \in Post : /\ e \in posts => target'[e] = Upserted(e, titled, source)
                      /\ e \notin posts => target'[e] = target[e]
  BY <1>1
<1>4. target' \in [Post -> TargetRecord \cup {NoTarget}]
  BY <1>1, <1>2, UpsertedKeeps
<1>5. Present' = Present \cup posts
  BY <1>3, UpsertedKeeps DEF Present
<1>6. Manual' = IF source = "manual" THEN Manual \cup (posts \ Present) ELSE Manual
  <2>1. \A e \in Post : e \in Manual' <=>
            e \in Manual \/ (source = "manual" /\ e \in posts \ Present)
    <3>. TAKE e \in Post
    <3>1. CASE e \notin posts
      BY <1>3, <3>1 DEF Manual, Present
    <3>2. CASE e \in posts /\ e \in Present
      BY <1>3, <3>2, UpsertedKeeps DEF Manual, Present
    <3>3. CASE e \in posts /\ e \notin Present
      BY <1>3, <3>3, UpsertedKeeps DEF Manual, Present
    <3>. QED BY <3>1, <3>2, <3>3
  <2>. QED BY <2>1 DEF Manual, Present
<1>. QED BY <1>4, <1>5, <1>6

LEMMA ChangeCounts == TargetsTypeOK /\ Change => changes' \in 0..MaxChanges
<1>1. TargetsTypeOK => changes \in 0..MaxChanges
  BY DEF TargetsTypeOK
<1>. QED BY <1>1, TargetsAssumption DEF Change

\* One caller moves, the others stay.
LEMMA CallerBecomes ==
  ASSUME TargetsTypeOK, NEW k \in Caller, NEW u \in CallerRecord,
         caller' = [caller EXCEPT ![k] = u]
  PROVE  /\ caller' \in [Caller -> CallerRecord] /\ caller'[k] = u
         /\ \A m \in Caller : m # k => caller'[m] = caller[m]
  BY DEF TargetsTypeOK

LEMMA CallerLists ==
  ASSUME TargetsTypeOK, NEW k \in Caller, caller' = [caller EXCEPT ![k].pc = "list"]
  PROVE  /\ caller' \in [Caller -> CallerRecord] /\ caller'[k].pc = "list"
         /\ \A m \in Caller : m # k => caller'[m] = caller[m]
<1>. DEFINE u == [caller[k] EXCEPT !.pc = "list"]
<1>1. u \in CallerRecord /\ u.pc = "list"
  BY DEF TargetsTypeOK, CallerRecord
<1>2. caller' = [caller EXCEPT ![k] = u]
  OBVIOUS
<1>. HIDE DEF u
<1>. QED BY <1>1, <1>2, CallerBecomes

LEMMA TableParts == Manual \in SUBSET Post /\ Present \in SUBSET Post /\ Manual \subseteq Present
  BY DEF Manual, Present

LEMMA PatchTable ==
  ASSUME TargetsTypeOK, NEW e \in Post, PatchTarget(e)
  PROVE  /\ target' \in [Post -> TargetRecord \cup {NoTarget}]
         /\ Present' = Present /\ Manual' = Manual
         /\ target'[e] = [target[e] EXCEPT !.enabled = ~@]
         /\ target'[e].titled = target[e].titled
         /\ \A d \in Post \ {e} : target'[d] = target[d]
<1>. DEFINE u == [target[e] EXCEPT !.enabled = ~target[e].enabled]
<1>1. target[e] \in TargetRecord /\ target[e] # NoTarget
  BY DEF PatchTarget, Present, TargetsTypeOK
<1>2. u \in TargetRecord /\ u.source = target[e].source /\ u.titled = target[e].titled
  BY <1>1 DEF TargetRecord
<1>3. target' = [target EXCEPT ![e] = u]
  BY DEF PatchTarget
<1>4. u = [target[e] EXCEPT !.enabled = ~@]
  OBVIOUS
<1>. HIDE DEF u
<1>5. /\ target' \in [Post -> TargetRecord \cup {NoTarget}] /\ target'[e] = u
      /\ \A d \in Post \ {e} : target'[d] = target[d]
  BY <1>2, <1>3 DEF TargetsTypeOK
<1>6. Present' = Present
  BY <1>1, <1>2, <1>5, NoTargetAssumption DEF Present
<1>7. Manual' = Manual
  BY <1>1, <1>2, <1>5, <1>6 DEF Manual, Present
<1>. QED BY <1>2, <1>4, <1>5, <1>6, <1>7

LEMMA RemoveTable ==
  ASSUME TargetsTypeOK, NEW k \in Caller, NEW e \in Post, RemoveTarget(k, e)
  PROVE  /\ target' \in [Post -> TargetRecord \cup {NoTarget}]
         /\ Present' = Present \ {e}
         /\ \A d \in Post : d # e => target'[d] = target[d]
<1>1. target' = [target EXCEPT ![e] = NoTarget] /\ target \in [Post -> TargetRecord \cup {NoTarget}]
  BY DEF RemoveTarget, TargetsTypeOK
<1>. QED BY <1>1 DEF Present

-----------------------------------------------------------------------------
(***************************************************************************)
(* Types and callers                                                       *)
(***************************************************************************)
LEMMA IdleRecord == [pc |-> "idle", posts |-> {}] \in CallerRecord
  BY DEF CallerRecord

LEMMA TargetsInitial == TargetsInit => TargetsInv
<1>. SUFFICES ASSUME TargetsInit PROVE TargetsInv
  OBVIOUS
<1>1. TargetsTypeOK
  <2>1. target \in [Post -> TargetRecord \cup {NoTarget}] /\ yaml \in SUBSET Post
    BY DEF TargetsInit
  <2>2. caller \in [Caller -> CallerRecord] /\ changes \in 0..MaxChanges
    BY IdleRecord, TargetsAssumption DEF TargetsInit
  <2>. QED BY <2>1, <2>2 DEF TargetsInit, TargetsTypeOK
<1>2. Present = {} /\ Manual = {} /\ Syncing = {}
  BY DEF TargetsInit, Present, Manual, Syncing
<1>3. FillIsKnown /\ DownIsIdle
  BY DEF TargetsInit, FillIsKnown, DownIsIdle
<1>4. OneWriter /\ FileFollowsTable /\ NothingReturns
  BY <1>2 DEF TargetsInit, OneWriter, FileFollowsTable, NothingReturns
<1>. QED BY <1>1, <1>3, <1>4 DEF TargetsInv

LEMMA TargetsTypeStep == TargetsTypeOK /\ [TargetsNext]_targetVars => TargetsTypeOK'
<1>. SUFFICES ASSUME TargetsTypeOK, [TargetsNext]_targetVars PROVE TargetsTypeOK'
  OBVIOUS
<1>0. /\ target \in [Post -> TargetRecord \cup {NoTarget}]
      /\ yaml \in (SUBSET Post) \cup {Unreadable} /\ caller \in [Caller -> CallerRecord]
      /\ up \in BOOLEAN /\ changes \in 0..MaxChanges /\ removed \subseteq Post
      /\ refilled \subseteq Post /\ disordered \in BOOLEAN
  BY DEF TargetsTypeOK
<1>1. ASSUME NEW k \in Caller, NEW e \in Post, NEW titled \in BOOLEAN, AddTarget(k, e, titled)
      PROVE  TargetsTypeOK'
  <2>1. target' \in [Post -> TargetRecord \cup {NoTarget}]
    BY <1>1, UpsertTable DEF AddTarget, Sources
  <2>2. caller' \in [Caller -> CallerRecord] /\ changes' \in 0..MaxChanges
    BY <1>1, CallerLists, ChangeCounts DEF AddTarget
  <2>. QED BY <1>0, <1>1, <2>1, <2>2 DEF AddTarget, TargetsTypeOK
<1>2. ASSUME NEW k \in Caller, NEW e \in Post, RemoveTarget(k, e) PROVE TargetsTypeOK'
  <2>1. target' \in [Post -> TargetRecord \cup {NoTarget}]
    BY <1>2, RemoveTable
  <2>2. caller' \in [Caller -> CallerRecord] /\ changes' \in 0..MaxChanges
    BY <1>2, CallerLists, ChangeCounts DEF RemoveTarget
  <2>. QED BY <1>0, <1>2, <2>1, <2>2 DEF RemoveTarget, TargetsTypeOK
<1>3. ASSUME NEW e \in Post, PatchTarget(e) PROVE TargetsTypeOK'
  <2>1. target' \in [Post -> TargetRecord \cup {NoTarget}] /\ changes' \in 0..MaxChanges
    BY <1>3, PatchTable, ChangeCounts DEF PatchTarget
  <2>. QED BY <1>0, <1>3, <2>1 DEF PatchTarget, history, TargetsTypeOK
<1>4. ASSUME NEW posts \in SUBSET Post, Discover(posts) PROVE TargetsTypeOK'
  <2>1. target' \in [Post -> TargetRecord \cup {NoTarget}] /\ changes' \in 0..MaxChanges
    BY <1>4, UpsertTable, ChangeCounts DEF Discover, Sources
  <2>. QED BY <1>0, <1>4, <2>1 DEF Discover, TargetsTypeOK
<1>5. ASSUME NEW k \in Caller, SyncList(k) PROVE TargetsTypeOK'
  <2>1. [pc |-> "save", posts |-> Listed] \in CallerRecord
    BY TableParts DEF Listed, CallerRecord
  <2>2. caller' \in [Caller -> CallerRecord]
    BY <1>5, <2>1, CallerBecomes DEF SyncList
  <2>. QED BY <1>0, <1>5, <2>2 DEF SyncList, history, TargetsTypeOK
<1>6. ASSUME NEW k \in Caller, SyncSave(k) PROVE TargetsTypeOK'
  <2>1. caller' \in [Caller -> CallerRecord]
    BY <1>6, IdleRecord, CallerBecomes DEF SyncSave
  <2>2. caller[k].posts \in SUBSET Post
    BY <1>0 DEF CallerRecord
  <2>. QED BY <1>0, <1>6, <2>1, <2>2 DEF SyncSave, TargetsTypeOK
<1>7. ASSUME NEW k \in Caller, FillList(k) PROVE TargetsTypeOK'
  <2>1. [pc |-> "fill", posts |-> {e \in Present : ~target[e].titled}] \in CallerRecord
    BY TableParts DEF CallerRecord
  <2>2. caller' \in [Caller -> CallerRecord] /\ changes' \in 0..MaxChanges
    BY <1>7, <2>1, CallerBecomes, ChangeCounts DEF FillList
  <2>. QED BY <1>0, <1>7, <2>2 DEF FillList, history, TargetsTypeOK
<1>8. ASSUME NEW k \in Caller, FillStore(k) PROVE TargetsTypeOK'
  <2>1. caller' \in [Caller -> CallerRecord]
    BY <1>8, IdleRecord, CallerBecomes DEF FillStore
  <2>2. caller[k].posts \in SUBSET Post
    BY <1>0 DEF CallerRecord
  <2>3. target' \in [Post -> TargetRecord \cup {NoTarget}] /\ refilled' \subseteq Post
    BY <1>0, <1>8, <2>2, UpsertTable DEF FillStore, Sources
  <2>. QED BY <1>0, <1>8, <2>1, <2>3 DEF FillStore, TargetsTypeOK
<1>9. ASSUME NEW posts \in {Unreadable} \cup (SUBSET Post), HandEdit(posts) PROVE TargetsTypeOK'
  <2>1. changes' \in 0..MaxChanges
    BY <1>0, <1>9, TargetsAssumption DEF HandEdit
  <2>2. yaml' \in (SUBSET Post) \cup {Unreadable}
    BY <1>9 DEF HandEdit
  <2>. QED BY <1>0, <1>9, <2>1, <2>2 DEF HandEdit, TargetsTypeOK
<1>10. CASE Stop
  BY <1>0, <1>10, IdleRecord, ChangeCounts DEF Stop, TargetsTypeOK
<1>11. CASE Start
  <2>1. yaml \in SUBSET Post
    BY <1>0, <1>11 DEF Start
  <2>2. target' \in [Post -> TargetRecord \cup {NoTarget}]
    BY <1>11, <2>1, UpsertTable DEF Start, Sources
  <2>. QED BY <1>0, <1>11, <2>2 DEF Start, history, TargetsTypeOK
<1>12. CASE UNCHANGED targetVars
  BY <1>0, <1>12 DEF targetVars, TargetsTypeOK
<1>. QED
  BY <1>1, <1>2, <1>3, <1>4, <1>5, <1>6, <1>7, <1>8, <1>9, <1>10, <1>11, <1>12 DEF TargetsNext

-----------------------------------------------------------------------------
(***************************************************************************)
(* The invariant, action by action                                         *)
(***************************************************************************)
\* Where the callers are decides who writes the file.
LEMMA SyncingIs == \A k \in Caller : k \in Syncing <=> caller[k].pc \in {"list", "save"}
  BY DEF Syncing

\* A change of the user, by a request that goes on to write the file.
LEMMA RequestStep ==
  ASSUME TargetsInv, NEW k \in Caller, caller[k].pc = "idle", up,
         caller' = [caller EXCEPT ![k].pc = "list"],
         disordered' = (disordered \/ Syncing # {}),
         up' = up, Present \cup removed \subseteq Present' \cup removed',
         removed \cap Present \subseteq refilled => removed' \cap Present' \subseteq refilled'
  PROVE  FillIsKnown' /\ DownIsIdle' /\ OneWriter' /\ FileFollowsTable' /\ NothingReturns'
<1>0. TargetsTypeOK /\ FillIsKnown /\ NothingReturns
  BY DEF TargetsInv
<1>1. /\ caller'[k].pc = "list"
      /\ \A m \in Caller : m # k => caller'[m] = caller[m]
  BY <1>0, CallerLists
<1>2. FillIsKnown'
  BY <1>0, <1>1 DEF FillIsKnown
<1>3. DownIsIdle'
  BY DEF DownIsIdle
<1>4. ~disordered' => \A m \in Caller : m # k => caller'[m].pc \notin {"list", "save"}
  BY <1>1, SyncingIs
<1>5. OneWriter'
  BY <1>1, <1>4 DEF OneWriter, Syncing
<1>6. FileFollowsTable'
  BY <1>1 DEF FileFollowsTable, Syncing
<1>7. NothingReturns'
  BY <1>0 DEF NothingReturns
<1>. QED BY <1>2, <1>3, <1>5, <1>6, <1>7

\* A step that leaves the list for the file, the file and the writers alone.
LEMMA AsideStep ==
  ASSUME TargetsInv, Manual' = Manual, yaml' = yaml, up' = up,
         disordered \/ (Syncing' = Syncing /\ disordered' = disordered),
         disordered => disordered',
         \A k \in Caller : caller'[k].pc = "save" =>
             caller[k].pc = "save" /\ caller'[k].posts = caller[k].posts,
         ~disordered' => removed' \cap Present' \subseteq refilled', refilled' = refilled,
         up \/ caller' = caller,
         \A k \in Caller : caller'[k].pc = "fill" =>
             caller'[k].posts \subseteq Present' \cup removed'
  PROVE  FillIsKnown' /\ DownIsIdle' /\ OneWriter' /\ FileFollowsTable' /\ NothingReturns'
<1>0. DownIsIdle /\ OneWriter /\ FileFollowsTable
  BY DEF TargetsInv
<1>1. FillIsKnown'
  BY DEF FillIsKnown
<1>2. DownIsIdle'
  BY <1>0 DEF DownIsIdle
<1>3. OneWriter'
  BY <1>0 DEF OneWriter
<1>4. FileFollowsTable'
  BY <1>0 DEF FileFollowsTable
<1>5. NothingReturns'
  BY DEF NothingReturns
<1>. QED BY <1>1, <1>2, <1>3, <1>4, <1>5

\* A caller moves on to a place where it does not write the file.
LEMMA CallerLeaves ==
  ASSUME TargetsTypeOK, NEW k \in Caller, NEW u \in CallerRecord,
         caller[k].pc \in {"idle", "fill"}, u.pc \in {"idle", "fill"},
         caller' = [caller EXCEPT ![k] = u]
  PROVE  /\ Syncing' = Syncing
         /\ \A m \in Caller : caller'[m].pc = "save" =>
                caller[m].pc = "save" /\ caller'[m].posts = caller[m].posts
<1>1. caller'[k] = u /\ \A m \in Caller : m # k => caller'[m] = caller[m]
  BY CallerBecomes
<1>. QED BY <1>1 DEF Syncing

LEMMA SyncListStep ==
  ASSUME TargetsInv, NEW k \in Caller, SyncList(k)
  PROVE  FillIsKnown' /\ DownIsIdle' /\ OneWriter' /\ FileFollowsTable' /\ NothingReturns'
<1>0. /\ TargetsTypeOK /\ FillIsKnown /\ DownIsIdle /\ OneWriter /\ NothingReturns
      /\ caller[k].pc = "list" /\ UNCHANGED <<target, yaml, up, removed, refilled, disordered>>
  BY DEF TargetsInv, SyncList, history
<1>. DEFINE u == [pc |-> "save", posts |-> Manual]
<1>1. u \in CallerRecord /\ u.pc = "save" /\ u.posts = Manual
  BY TableParts DEF CallerRecord
<1>2. caller' = [caller EXCEPT ![k] = u]
  BY DEF SyncList, Listed
<1>. HIDE DEF u
<1>3. /\ caller'[k].pc = "save" /\ caller'[k].posts = Manual
      /\ \A m \in Caller : m # k => caller'[m] = caller[m]
  BY <1>0, <1>1, <1>2, CallerBecomes
<1>4. Syncing' = Syncing /\ Present' = Present /\ Manual' = Manual
  BY <1>0, <1>3 DEF Syncing, Present, Manual
<1>5. FillIsKnown'
  BY <1>0, <1>3, <1>4 DEF FillIsKnown
<1>6. DownIsIdle' /\ NothingReturns'
  BY <1>0, <1>4 DEF DownIsIdle, NothingReturns
<1>7. OneWriter'
  BY <1>0, <1>3, <1>4 DEF OneWriter
<1>8. FileFollowsTable'
  BY <1>3 DEF FileFollowsTable, Syncing
<1>. QED BY <1>5, <1>6, <1>7, <1>8

LEMMA SyncSaveStep ==
  ASSUME TargetsInv, NEW k \in Caller, SyncSave(k)
  PROVE  FillIsKnown' /\ DownIsIdle' /\ OneWriter' /\ FileFollowsTable' /\ NothingReturns'
<1>0. /\ TargetsTypeOK /\ FillIsKnown /\ DownIsIdle /\ OneWriter /\ NothingReturns
      /\ caller[k].pc = "save" /\ UNCHANGED <<target, up, removed, refilled>>
      /\ (disordered' = disordered /\ yaml' = caller[k].posts) \/ disordered'
  BY DEF TargetsInv, SyncSave
<1>1. /\ caller'[k].pc = "idle" /\ \A m \in Caller : m # k => caller'[m] = caller[m]
  BY <1>0, IdleRecord, CallerBecomes DEF SyncSave
<1>2. Present' = Present /\ Manual' = Manual /\ Syncing' = Syncing \ {k}
  BY <1>0, <1>1 DEF Syncing, Present, Manual
<1>3. FillIsKnown'
  BY <1>0, <1>1, <1>2 DEF FillIsKnown
<1>4. DownIsIdle'
  BY <1>0, <1>1 DEF DownIsIdle
<1>5. OneWriter'
  BY <1>0, <1>1, <1>2 DEF OneWriter
<1>6. FileFollowsTable' /\ NothingReturns'
  BY <1>0, <1>2 DEF OneWriter, FileFollowsTable, NothingReturns
<1>. QED BY <1>3, <1>4, <1>5, <1>6

LEMMA FillListStep ==
  ASSUME TargetsInv, NEW k \in Caller, FillList(k)
  PROVE  FillIsKnown' /\ DownIsIdle' /\ OneWriter' /\ FileFollowsTable' /\ NothingReturns'
<1>0. /\ TargetsTypeOK /\ FillIsKnown /\ NothingReturns /\ up /\ caller[k].pc = "idle"
      /\ UNCHANGED <<target, yaml, up, removed, refilled, disordered>>
  BY DEF TargetsInv, FillList, Change, history
<1>. DEFINE u == [pc |-> "fill", posts |-> {e \in Present : ~target[e].titled}]
<1>1. u \in CallerRecord /\ u.pc = "fill" /\ u.posts \subseteq Present
  BY TableParts DEF CallerRecord
<1>2. caller' = [caller EXCEPT ![k] = u]
  BY DEF FillList
<1>. HIDE DEF u
<1>3. caller'[k] = u /\ \A m \in Caller : m # k => caller'[m] = caller[m]
  BY <1>0, <1>1, <1>2, CallerBecomes
<1>4. Present' = Present /\ Manual' = Manual
  BY <1>0 DEF Present, Manual
<1>5. \A m \in Caller : caller'[m].pc = "fill" => caller'[m].posts \subseteq Present' \cup removed'
  BY <1>0, <1>1, <1>3, <1>4 DEF FillIsKnown
<1>6. ~disordered' => removed' \cap Present' \subseteq refilled'
  BY <1>0, <1>4 DEF NothingReturns
<1>7. /\ Syncing' = Syncing
      /\ \A m \in Caller : caller'[m].pc = "save" =>
             caller[m].pc = "save" /\ caller'[m].posts = caller[m].posts
  BY <1>0, <1>1, <1>2, CallerLeaves
<1>. QED BY <1>0, <1>4, <1>5, <1>6, <1>7, AsideStep

LEMMA FillStoreStep ==
  ASSUME TargetsInv, NEW k \in Caller, FillStore(k)
  PROVE  FillIsKnown' /\ DownIsIdle' /\ OneWriter' /\ FileFollowsTable' /\ NothingReturns'
<1>0. /\ TargetsTypeOK /\ FillIsKnown /\ DownIsIdle /\ NothingReturns /\ OneWriter
      /\ FileFollowsTable /\ caller[k].pc = "fill" /\ UNCHANGED <<yaml, up, removed, disordered>>
      /\ caller' = [caller EXCEPT ![k] = [pc |-> "idle", posts |-> {}]]
  BY DEF TargetsInv, FillStore
<1>1. PICK found \in SUBSET caller[k].posts :
          /\ Upsert(found, TRUE, "manual")
          /\ refilled' = refilled \cup (found \ Present)
  BY DEF FillStore
<1>2. found \in SUBSET (Present \cup removed) /\ found \in SUBSET Post
  BY <1>0 DEF FillIsKnown, TargetsTypeOK, Present
<1>3. Present' = Present \cup found /\ Manual' = Manual \cup (found \ Present)
  BY <1>0, <1>1, <1>2, UpsertTable DEF Sources
<1>4. /\ Manual \subseteq Manual' /\ Manual' \ refilled' \subseteq Manual \ refilled
      /\ removed' \cap Present' \subseteq (removed \cap Present) \cup refilled'
  BY <1>0, <1>1, <1>2, <1>3
<1>5. /\ Syncing' = Syncing
      /\ \A m \in Caller : caller'[m].pc = "save" =>
             caller[m].pc = "save" /\ caller'[m].posts = caller[m].posts
  BY <1>0, IdleRecord, CallerLeaves
<1>6. caller'[k].pc = "idle" /\ \A m \in Caller : m # k => caller'[m] = caller[m]
  BY <1>0, IdleRecord, CallerBecomes
<1>7. FillIsKnown'
  BY <1>0, <1>3, <1>6 DEF FillIsKnown
<1>8. DownIsIdle'
  BY <1>0, <1>6 DEF DownIsIdle
<1>9. OneWriter'
  BY <1>0, <1>4, <1>5 DEF OneWriter
<1>10. FileFollowsTable' /\ NothingReturns'
  BY <1>0, <1>1, <1>4, <1>5 DEF FileFollowsTable, NothingReturns
<1>. QED BY <1>7, <1>8, <1>9, <1>10

LEMMA StopStep ==
  ASSUME TargetsInv, Stop
  PROVE  FillIsKnown' /\ DownIsIdle' /\ OneWriter' /\ FileFollowsTable' /\ NothingReturns'
<1>0. /\ FileFollowsTable /\ NothingReturns /\ UNCHANGED <<target, yaml, removed, refilled>>
      /\ disordered' = (disordered \/ Syncing # {})
      /\ \A k \in Caller : caller'[k].pc = "idle"
  BY DEF TargetsInv, Stop
<1>1. Present' = Present /\ Manual' = Manual
  BY <1>0 DEF Present, Manual
<1>2. FillIsKnown' /\ DownIsIdle' /\ OneWriter'
  BY <1>0 DEF FillIsKnown, DownIsIdle, OneWriter, Syncing
<1>3. FileFollowsTable' /\ NothingReturns'
  BY <1>0, <1>1 DEF FileFollowsTable, NothingReturns
<1>. QED BY <1>2, <1>3

\* The file brings nothing new when it says what the table holds.
LEMMA StartStep ==
  ASSUME TargetsInv, Start
  PROVE  FillIsKnown' /\ DownIsIdle' /\ OneWriter' /\ FileFollowsTable' /\ NothingReturns'
<1>0. /\ TargetsTypeOK /\ DownIsIdle /\ FileFollowsTable /\ NothingReturns /\ ~up
      /\ yaml # Unreadable /\ UNCHANGED <<yaml, caller, removed, refilled, disordered>>
  BY DEF TargetsInv, Start, history
<1>1. PICK titled \in BOOLEAN : Upsert(yaml, titled, "manual")
  BY DEF Start
<1>2. yaml \in (SUBSET Post) \cup {Unreadable}
  BY <1>0 DEF TargetsTypeOK
<1>3. yaml \in SUBSET Post
  BY <1>0, <1>2
<1>4. \A k \in Caller : caller'[k].pc = "idle"
  BY <1>0 DEF DownIsIdle
<1>5. Syncing = {}
  BY <1>0 DEF DownIsIdle, Syncing
<1>6. ~disordered => yaml \subseteq Present
  BY <1>0, <1>5, TableParts DEF FileFollowsTable
<1>7. Present' = Present \cup yaml /\ (yaml \subseteq Present => Manual' = Manual)
  BY <1>0, <1>1, <1>3, UpsertTable DEF Sources
<1>8. FillIsKnown' /\ DownIsIdle' /\ OneWriter'
  BY <1>4 DEF FillIsKnown, DownIsIdle, OneWriter, Syncing
<1>9. FileFollowsTable' /\ NothingReturns'
  BY <1>0, <1>5, <1>6, <1>7 DEF FileFollowsTable, NothingReturns
<1>. QED BY <1>8, <1>9

LEMMA TargetsStep == TargetsInv /\ [TargetsNext]_targetVars => TargetsInv'
<1>. SUFFICES ASSUME TargetsInv, [TargetsNext]_targetVars PROVE TargetsInv'
  OBVIOUS
<1>. DEFINE Goal == /\ FillIsKnown' /\ DownIsIdle' /\ OneWriter'
                    /\ FileFollowsTable' /\ NothingReturns'
<1>0. TargetsTypeOK /\ FillIsKnown /\ NothingReturns
  BY DEF TargetsInv
<1>1. ASSUME NEW k \in Caller, NEW e \in Post, NEW titled \in BOOLEAN, AddTarget(k, e, titled)
      PROVE  Goal
  <2>1. /\ Present' = Present \cup {e} /\ removed' = removed \ {e}
        /\ refilled' = refilled \ {e}
    BY <1>0, <1>1, UpsertTable DEF AddTarget, Sources
  <2>. QED BY <1>1, <2>1, RequestStep DEF AddTarget, Change
<1>2. ASSUME NEW k \in Caller, NEW e \in Post, RemoveTarget(k, e) PROVE Goal
  <2>1. /\ Present' = Present \ {e} /\ removed' = removed \cup {e}
        /\ refilled' = refilled \ {e}
    BY <1>0, <1>2, RemoveTable DEF RemoveTarget
  <2>. QED BY <1>2, <2>1, RequestStep DEF RemoveTarget, Change
<1>3. ASSUME NEW e \in Post, PatchTarget(e) PROVE Goal
  <2>1. Present' = Present /\ Manual' = Manual
    BY <1>0, <1>3, PatchTable
  <2>2. UNCHANGED <<yaml, caller, up, removed, refilled, disordered>>
    BY <1>3 DEF PatchTarget, history
  <2>3. Syncing' = Syncing
    BY <2>2 DEF Syncing
  <2>. QED BY <1>0, <2>1, <2>2, <2>3, AsideStep DEF FillIsKnown, NothingReturns
<1>4. ASSUME NEW posts \in SUBSET Post, Discover(posts) PROVE Goal
  <2>1. Present' = Present \cup posts /\ Manual' = Manual
    BY <1>0, <1>4, UpsertTable DEF Discover, Sources
  <2>2. UNCHANGED <<yaml, caller, up, refilled, disordered>> /\ removed' = removed \ posts
    BY <1>4 DEF Discover
  <2>3. Syncing' = Syncing
    BY <2>2 DEF Syncing
  <2>. QED BY <1>0, <2>1, <2>2, <2>3, AsideStep DEF FillIsKnown, NothingReturns
<1>5. ASSUME NEW posts, HandEdit(posts) PROVE Goal
  <2>1. UNCHANGED <<target, caller, up, removed, refilled>> /\ disordered'
    BY <1>5 DEF HandEdit
  <2>2. Present' = Present
    BY <2>1 DEF Present
  <2>3. DownIsIdle
    BY DEF TargetsInv
  <2>. QED BY <1>0, <2>1, <2>2, <2>3
       DEF FillIsKnown, DownIsIdle, OneWriter, FileFollowsTable, NothingReturns
<1>6. ASSUME UNCHANGED targetVars PROVE Goal
  <2>1. UNCHANGED <<target, yaml, caller, up, removed, refilled, disordered>>
    BY <1>6 DEF targetVars
  <2>2. Present' = Present /\ Manual' = Manual /\ Syncing' = Syncing
    BY <2>1 DEF Present, Manual, Syncing
  <2>. QED BY <1>0, <2>1, <2>2, AsideStep DEF FillIsKnown, NothingReturns
<1>7. ASSUME NEW k \in Caller, SyncList(k) \/ SyncSave(k) \/ FillList(k) \/ FillStore(k)
      PROVE  Goal
  BY <1>7, SyncListStep, SyncSaveStep, FillListStep, FillStoreStep
<1>8. ASSUME Stop \/ Start PROVE Goal
  BY <1>8, StopStep, StartStep
<1>. HIDE DEF Goal
<1>9. Goal
  BY <1>1, <1>2, <1>3, <1>4, <1>5, <1>6, <1>7, <1>8 DEF TargetsNext
<1>. QED BY <1>0, <1>9, TargetsTypeStep DEF Goal, TargetsInv

LEMMA TargetsInvariant == TargetsSpec => []TargetsInv
<1>. QED BY TargetsInitial, TargetsStep, PTL DEF TargetsSpec

-----------------------------------------------------------------------------
\* Any number of requests and restarts leave table, file and callers well typed.
THEOREM TargetsWellTyped == TargetsSpec => []TargetsTypeOK
<1>1. TargetsInv => TargetsTypeOK
  BY DEF TargetsInv
<1>. QED BY <1>1, TargetsInvariant, PTL

\* Once every request has ended the file lists the targets of source "manual", those
\* that a collection has put back perhaps excepted, for any posts and any number of
\* callers, unless requests overlapped, a save was lost or the file was edited.
THEOREM FileKeepsUp == TargetsSpec => []FileFollowsTable
<1>1. TargetsInv => FileFollowsTable
  BY DEF TargetsInv
<1>. QED BY <1>1, TargetsInvariant, PTL

\* A removed target returns only with the titles of a collection that had listed it
\* before, with the same exceptions.
THEOREM RemovedStaysRemoved == TargetsSpec => []NothingReturns
<1>1. TargetsInv => NothingReturns
  BY DEF TargetsInv
<1>. QED BY <1>1, TargetsInvariant, PTL

\* What a registration does to one target.
LEMMA RegistrationStep ==
  ASSUME TargetsTypeOK, [TargetsNext]_targetVars, NEW e \in Present, target'[e] # NoTarget
  PROVE  /\ target[e].titled => target'[e].titled
         /\ target'[e].enabled # target[e].enabled =>
                /\ target'[e] = [target[e] EXCEPT !.enabled = ~@]
                /\ \A d \in Post \ {e} : target'[d] = target[d]
                /\ caller' = caller /\ up' = up
<1>. DEFINE Goal == /\ target[e].titled => target'[e].titled
                    /\ target'[e].enabled # target[e].enabled =>
                           /\ target'[e] = [target[e] EXCEPT !.enabled = ~@]
                           /\ \A d \in Post \ {e} : target'[d] = target[d]
                           /\ caller' = caller /\ up' = up
<1>0. e \in Post /\ target[e] # NoTarget
  BY DEF Present
<1>1. ASSUME NEW posts \in SUBSET Post, NEW titled \in BOOLEAN, NEW source \in Sources,
             Upsert(posts, titled, source)
      PROVE  Goal
  <2>1. target'[e] = target[e] \/ target'[e] = Upserted(e, titled, source)
    BY <1>0, <1>1 DEF Upsert
  <2>. QED BY <1>0, <2>1, UpsertedKeeps
<1>2. ASSUME NEW d \in Post, PatchTarget(d) PROVE Goal
  <2>1. UNCHANGED <<caller, up>>
    BY <1>2 DEF PatchTarget
  <2>2. CASE d = e
    BY <1>2, <2>1, <2>2, PatchTable
  <2>3. CASE d # e
    BY <1>0, <1>2, <2>3, PatchTable
  <2>. QED BY <2>2, <2>3
<1>3. ASSUME NEW k \in Caller, NEW d \in Post, RemoveTarget(k, d) PROVE Goal
  <2>1. target'[e] = target[e]
    BY <1>0, <1>3 DEF RemoveTarget, TargetsTypeOK
  <2>. QED BY <2>1
<1>4. ASSUME UNCHANGED target PROVE Goal
  BY <1>4
<1>5. ASSUME NEW k \in Caller, NEW d \in Post, NEW titled \in BOOLEAN, AddTarget(k, d, titled)
      PROVE  Goal
  BY <1>1, <1>5 DEF AddTarget, Sources
<1>6. ASSUME NEW posts \in SUBSET Post, Discover(posts) PROVE Goal
  BY <1>1, <1>6 DEF Discover, Sources
<1>7. ASSUME NEW k \in Caller, FillStore(k) PROVE Goal
  <2>1. caller[k].posts \in SUBSET Post
    BY DEF TargetsTypeOK, CallerRecord
  <2>. QED BY <1>1, <1>7, <2>1 DEF FillStore, Sources
<1>8. ASSUME Start PROVE Goal
  <2>1. yaml \in (SUBSET Post) \cup {Unreadable} /\ yaml # Unreadable
    BY <1>8 DEF TargetsTypeOK, Start
  <2>2. yaml \in SUBSET Post
    BY <2>1
  <2>. QED BY <1>1, <1>8, <2>2 DEF Start, Sources
<1>9. ASSUME NEW k \in Caller, SyncList(k) \/ SyncSave(k) \/ FillList(k) PROVE Goal
  BY <1>4, <1>9 DEF SyncList, SyncSave, FillList
<1>10. ASSUME NEW posts, HandEdit(posts) PROVE Goal
  BY <1>4, <1>10 DEF HandEdit
<1>11. ASSUME Stop \/ UNCHANGED targetVars PROVE Goal
  BY <1>4, <1>11 DEF Stop, targetVars
<1>. HIDE DEF Goal
<1>12. Goal
  BY <1>2, <1>3, <1>5, <1>6, <1>7, <1>8, <1>9, <1>10, <1>11 DEF TargetsNext
<1>. QED BY <1>12 DEF Goal

\* Registering a target again neither switches it on nor loses its title.
THEOREM RegisteringKeeps == TargetsSpec => RegistrationKeeps
<1>1. TargetsTypeOK /\ [TargetsNext]_targetVars =>
      [\A e \in Present : target'[e] # NoTarget =>
           /\ target[e].titled => target'[e].titled
           /\ target'[e].enabled # target[e].enabled =>
                  /\ target'[e] = [target[e] EXCEPT !.enabled = ~@]
                  /\ \A d \in Post \ {e} : target'[d] = target[d]
                  /\ caller' = caller /\ up' = up]_targetVars
  BY RegistrationStep
<1>. QED BY <1>1, TargetsWellTyped, PTL DEF TargetsSpec, RegistrationKeeps

-----------------------------------------------------------------------------
(***************************************************************************)
(* Theorems about SessionAuth, for any cookies, requests, faults and       *)
(* changes of the key: only sendable cookies are stored, nobody is called  *)
(* the owner without the blog's word, and a deletion goes out as the owner. *)
(***************************************************************************)
(***************************************************************************)
(* SessionAuth: the inductive invariant                                    *)
(***************************************************************************)
\* What a request is about to store as "owner" the blog has answered.
AnswerWasShown ==
    \A k \in Visit : visit[k].pc = "cache" /\ visit[k].state = "owner"
                         => visit[k].cookies \in shown

\* As long as all is settled a request on its way is about the stored cookies, and
\* without one on its way so is the stored diagnosis.
Settled ==
    ~unsettled =>
        /\ readable
        /\ \A k \in Visit : visit[k].pc \in {"ask", "cache"} => visit[k].cookies = stored
        /\ Diagnosing = {} => diagnosis = NoDiagnosis \/ diagnosis.of = stored

\* What the check of a deletion saw, when all was settled.
CheckWasOwner == deletion.pc # "none" /\ deletion.settled => deletion.checked \in shown

SessionInv ==
    /\ SessionTypeOK /\ StoredIsSendable /\ AnswerWasShown /\ OwnerWasShown
    /\ Settled /\ CheckWasOwner /\ DeletesAsOwner

\* A request moves on: only its place changes.
LEMMA VisitMoves ==
  ASSUME SessionTypeOK, NEW k \in Visit, NEW pc \in {"idle", "load", "ask", "cache"},
         VisitGoes(k, pc)
  PROVE  /\ visit' \in [Visit -> VisitRecord]
         /\ visit'[k].pc = pc /\ visit'[k].cookies = visit[k].cookies
         /\ visit'[k].state = visit[k].state
         /\ \A m \in Visit : m # k => visit'[m] = visit[m]
<1>. DEFINE u == [visit[k] EXCEPT !.pc = pc]
<1>1. visit \in [Visit -> VisitRecord] /\ visit' = [visit EXCEPT ![k] = u]
  BY DEF SessionTypeOK, VisitRecord, VisitGoes
<1>2. u \in VisitRecord /\ u.pc = pc /\ u.cookies = visit[k].cookies /\ u.state = visit[k].state
  BY <1>1 DEF VisitRecord
<1>. HIDE DEF u
<1>. QED BY <1>1, <1>2

\* The same with one record of a request replaced.
LEMMA VisitBecomes ==
  ASSUME SessionTypeOK, NEW k \in Visit, NEW u \in VisitRecord, visit' = [visit EXCEPT ![k] = u]
  PROVE  /\ visit' \in [Visit -> VisitRecord] /\ visit'[k] = u
         /\ \A m \in Visit : m # k => visit'[m] = visit[m]
  BY DEF SessionTypeOK, VisitRecord

LEMMA LoadBecomes ==
  ASSUME SessionTypeOK, NEW k \in Visit, Load(k)
  PROVE  /\ visit' \in [Visit -> VisitRecord]
         /\ visit'[k].pc = "ask" /\ visit'[k].cookies = Loaded
         /\ \A m \in Visit : m # k => visit'[m] = visit[m]
<1>. DEFINE u == [visit[k] EXCEPT !.pc = "ask", !.cookies = Loaded]
<1>1. visit[k] \in VisitRecord /\ Loaded \in Cookie \cup {NoCookie}
  BY DEF SessionTypeOK, VisitRecord, Loaded
<1>2. u \in VisitRecord /\ u.pc = "ask" /\ u.cookies = Loaded
  BY <1>1 DEF VisitRecord
<1>3. visit' = [visit EXCEPT ![k] = u]
  BY DEF Load
<1>. HIDE DEF u
<1>. QED BY <1>2, <1>3, VisitBecomes

LEMMA AskBecomes ==
  ASSUME SessionTypeOK, NEW k \in Visit, Ask(k)
  PROVE  /\ visit' \in [Visit -> VisitRecord]
         /\ visit'[k].pc = "cache" /\ visit'[k].cookies = visit[k].cookies
         /\ visit'[k].state = "owner" => visit[k].cookies \in owner
         /\ \A m \in Visit : m # k => visit'[m] = visit[m]
<1>1. PICK s \in Answers(visit[k].cookies) :
           visit' = [visit EXCEPT ![k] = [visit[k] EXCEPT !.state = s, !.pc = "cache"]]
  BY DEF Ask, SessionTypeOK
<1>. DEFINE u == [visit[k] EXCEPT !.state = s, !.pc = "cache"]
<1>2. visit[k] \in VisitRecord
  BY DEF SessionTypeOK, VisitRecord
<1>3. s \in AuthState /\ (s = "owner" => visit[k].cookies \in owner)
  BY DEF Answers, AuthState
<1>4. u \in VisitRecord /\ u.pc = "cache" /\ u.cookies = visit[k].cookies /\ u.state = s
  BY <1>2, <1>3 DEF VisitRecord
<1>5. visit' = [visit EXCEPT ![k] = u]
  BY <1>1
<1>. HIDE DEF u
<1>. QED BY <1>3, <1>4, <1>5, VisitBecomes

LEMMA DoneRecord == Done \in VisitRecord /\ Done.pc = "idle"
  BY DEF Done, VisitRecord, AuthState

\* Which requests are on their way follows from where each is.
LEMMA NoneOnTheWay ==
  Diagnosing = {} <=> \A k \in Visit : visit[k].pc \notin {"load", "ask", "cache"}
  BY DEF Diagnosing

LEMMA SessionInitial == SessionInit => SessionInv
<1>. SUFFICES ASSUME SessionInit PROVE SessionInv
  OBVIOUS
<1>1. SessionTypeOK
  <2>1. visit \in [Visit -> VisitRecord]
    BY DEF SessionInit, VisitRecord, AuthState
  <2>2. deletion \in DeletionRecord
    BY DEF SessionInit, NoDeletion, DeletionRecord
  <2>3. faults \in 0..MaxFaults /\ requests \in 0..MaxRequests
    BY SessionAssumption DEF SessionInit
  <2>. QED BY <2>1, <2>2, <2>3 DEF SessionInit, SessionTypeOK
<1>2. StoredIsSendable
  BY SessionAssumption DEF SessionInit, StoredIsSendable
<1>3. AnswerWasShown /\ OwnerWasShown /\ Settled
  BY DEF SessionInit, AnswerWasShown, OwnerWasShown, Settled
<1>4. CheckWasOwner /\ DeletesAsOwner
  BY DEF SessionInit, CheckWasOwner, DeletesAsOwner, NoDeletion
<1>. QED BY <1>1, <1>2, <1>3, <1>4 DEF SessionInv

-----------------------------------------------------------------------------
(***************************************************************************)
(* Types                                                                   *)
(***************************************************************************)
LEMMA AskedCounts == SessionTypeOK /\ Asked => requests' \in 0..MaxRequests
<1>1. SessionTypeOK => requests \in 0..MaxRequests
  BY DEF SessionTypeOK
<1>. QED BY <1>1, SessionAssumption DEF Asked

LEMMA FaultCounts ==
  SessionTypeOK /\ faults < MaxFaults /\ faults' = faults + 1 => faults' \in 0..MaxFaults
<1>1. SessionTypeOK => faults \in 0..MaxFaults
  BY DEF SessionTypeOK
<1>. QED BY <1>1, SessionAssumption

LEMMA SessionTypeStep == SessionTypeOK /\ [SessionNext]_sessionVars => SessionTypeOK'
<1>. SUFFICES ASSUME SessionTypeOK, [SessionNext]_sessionVars PROVE SessionTypeOK'
  OBVIOUS
<1>. USE DEF SessionTypeOK
<1>1. ASSUME NEW k \in Visit, NEW paste \in Paste, Register(k, paste) PROVE SessionTypeOK'
  BY <1>1, VisitMoves, AskedCounts DEF Register, Accepts
<1>2. ASSUME NEW k \in Visit, Diagnose(k) PROVE SessionTypeOK'
  BY <1>2, VisitMoves, AskedCounts DEF Diagnose
<1>3. ASSUME NEW k \in Visit, Load(k) PROVE SessionTypeOK'
  BY <1>3, LoadBecomes DEF Load
<1>4. ASSUME NEW k \in Visit, Ask(k) PROVE SessionTypeOK'
  <2>1. shown' \subseteq Cookie
    BY <1>4 DEF Ask
  <2>. QED BY <1>4, <2>1, AskBecomes DEF Ask
<1>5. ASSUME NEW k \in Visit, Cache(k) PROVE SessionTypeOK'
  <2>1. visit' \in [Visit -> VisitRecord]
    BY <1>5, VisitBecomes, DoneRecord DEF Cache
  <2>2. diagnosis' \in DiagnosisRecord
    BY <1>5 DEF Cache, VisitRecord, DiagnosisRecord
  <2>. QED BY <1>5, <2>1, <2>2 DEF Cache
<1>6. ASSUME NEW k \in Visit, DiagnosisLost(k) PROVE SessionTypeOK'
  BY <1>6, VisitBecomes, DoneRecord, FaultCounts DEF DiagnosisLost
<1>7. CASE Clear
  BY <1>7, AskedCounts DEF Clear
<1>8. CASE ChangeKey
  <2>1. NoDeletion \in DeletionRecord
    BY DEF NoDeletion, DeletionRecord
  <2>. QED BY <1>8, <2>1, FaultCounts DEF ChangeKey
<1>9. CASE LetIn
  <2>1. deletion' \in DeletionRecord
    BY <1>9 DEF LetIn, NoDeletion, DeletionRecord
  <2>. QED BY <1>9, <2>1, AskedCounts DEF LetIn
<1>10. CASE Arm
  <2>1. deletion' \in DeletionRecord
    BY <1>10 DEF Arm, Loaded, DeletionRecord
  <2>. QED BY <1>10, <2>1 DEF Arm
<1>11. CASE Over
  <2>1. NoDeletion \in DeletionRecord
    BY DEF NoDeletion, DeletionRecord
  <2>. QED BY <1>11, <2>1 DEF Over
<1>12. ASSUME NEW c \in Cookie, Expire(c) PROVE SessionTypeOK'
  BY <1>12 DEF Expire
<1>13. CASE UNCHANGED sessionVars
  BY <1>13 DEF sessionVars
<1>. QED
  BY <1>1, <1>2, <1>3, <1>4, <1>5, <1>6, <1>7, <1>8, <1>9, <1>10, <1>11, <1>12, <1>13
  DEF SessionNext

-----------------------------------------------------------------------------
(***************************************************************************)
(* Cookies, diagnosis and deletion                                         *)
(***************************************************************************)
LEMMA StoredStep == StoredIsSendable /\ [SessionNext]_sessionVars => StoredIsSendable'
<1>. SUFFICES ASSUME StoredIsSendable, [SessionNext]_sessionVars PROVE StoredIsSendable'
  OBVIOUS
<1>1. ASSUME NEW k \in Visit, NEW paste \in Paste, Register(k, paste) PROVE StoredIsSendable'
  BY <1>1 DEF Register, Accepts, StoredIsSendable
<1>2. CASE Clear
  BY <1>2, SessionAssumption DEF Clear, StoredIsSendable
<1>3. CASE UNCHANGED stored
  BY <1>3 DEF StoredIsSendable
<1>. QED BY <1>1, <1>2, <1>3
     DEF SessionNext, Diagnose, Load, Ask, Cache, DiagnosisLost, ChangeKey, LetIn, Arm, Over,
         Expire, sessionVars

LEMMA ShownGrows == [SessionNext]_sessionVars => shown \subseteq shown'
<1>. SUFFICES ASSUME [SessionNext]_sessionVars PROVE shown \subseteq shown'
  OBVIOUS
<1>1. ASSUME NEW k \in Visit, Ask(k) PROVE shown \subseteq shown'
  BY <1>1 DEF Ask
<1>2. CASE UNCHANGED shown
  BY <1>2
<1>. QED BY <1>1, <1>2
     DEF SessionNext, Register, Diagnose, Load, Cache, DiagnosisLost, Clear, ChangeKey, LetIn,
         Arm, Over, Expire, sessionVars

LEMMA AnswerStep == SessionInv /\ [SessionNext]_sessionVars => AnswerWasShown' /\ OwnerWasShown'
<1>. SUFFICES ASSUME SessionInv, [SessionNext]_sessionVars PROVE AnswerWasShown' /\ OwnerWasShown'
  OBVIOUS
<1>1. SessionTypeOK /\ AnswerWasShown /\ OwnerWasShown /\ shown \subseteq shown'
  BY ShownGrows DEF SessionInv
<1>. USE DEF AnswerWasShown, OwnerWasShown
<1>2. ASSUME NEW k \in Visit, VisitGoes(k, "load"), UNCHANGED diagnosis
      PROVE  AnswerWasShown' /\ OwnerWasShown'
  BY <1>1, <1>2, VisitMoves
<1>3. ASSUME NEW k \in Visit, Load(k) PROVE AnswerWasShown' /\ OwnerWasShown'
  BY <1>1, <1>3, LoadBecomes DEF Load
<1>4. ASSUME NEW k \in Visit, Ask(k) PROVE AnswerWasShown' /\ OwnerWasShown'
  <2>1. visit[k].cookies \in owner => visit[k].cookies \in shown'
    BY <1>4 DEF Ask
  <2>. QED BY <1>1, <1>4, <2>1, AskBecomes DEF Ask
<1>5. ASSUME NEW k \in Visit, visit' = [visit EXCEPT ![k] = Done]
      PROVE  AnswerWasShown'
  BY <1>1, <1>5, VisitBecomes, DoneRecord
<1>6. ASSUME NEW k \in Visit, Cache(k) PROVE OwnerWasShown'
  BY <1>1, <1>6 DEF Cache
<1>7. CASE UNCHANGED visit /\ (diagnosis' = diagnosis \/ diagnosis' = NoDiagnosis)
  BY <1>1, <1>7
<1>8. ASSUME NEW k \in Visit, DiagnosisLost(k) PROVE AnswerWasShown' /\ OwnerWasShown'
  BY <1>1, <1>5, <1>8 DEF DiagnosisLost
<1>9. ASSUME NEW k \in Visit, Diagnose(k) \/ \E paste \in Paste : Register(k, paste)
      PROVE  AnswerWasShown' /\ OwnerWasShown'
  BY <1>2, <1>9 DEF Register, Diagnose
<1>10. CASE UNCHANGED sessionVars \/ Clear \/ ChangeKey \/ LetIn \/ Arm \/ Over
  BY <1>7, <1>10 DEF Clear, ChangeKey, LetIn, Arm, Over, sessionVars
<1>11. ASSUME NEW c \in Cookie, Expire(c) PROVE AnswerWasShown' /\ OwnerWasShown'
  BY <1>7, <1>11 DEF Expire
<1>12. ASSUME NEW k \in Visit, Cache(k) PROVE AnswerWasShown'
  BY <1>5, <1>12 DEF Cache
<1>. QED BY <1>3, <1>4, <1>6, <1>8, <1>9, <1>10, <1>11, <1>12 DEF SessionNext

LEMMA SettledStep == SessionInv /\ [SessionNext]_sessionVars => Settled'
<1>. SUFFICES ASSUME SessionInv, [SessionNext]_sessionVars, ~unsettled'
              PROVE  /\ readable'
                     /\ \A k \in Visit : visit'[k].pc \in {"ask", "cache"} => visit'[k].cookies = stored'
                     /\ Diagnosing' = {} => diagnosis' = NoDiagnosis \/ diagnosis'.of = stored'
  BY DEF Settled
<1>. DEFINE Goal == /\ readable'
                    /\ \A k \in Visit : visit'[k].pc \in {"ask", "cache"} => visit'[k].cookies = stored'
                    /\ Diagnosing' = {} => diagnosis' = NoDiagnosis \/ diagnosis'.of = stored'
<1>1. SessionTypeOK /\ (~unsettled => Settled)
  BY DEF SessionInv
<1>2. ASSUME NEW k \in Visit, NEW paste \in Paste, Register(k, paste) PROVE Goal
  <2>1. Diagnosing = {} /\ readable'
    BY <1>2 DEF Register
  <2>2. VisitGoes(k, "load")
    BY <1>2 DEF Register
  <2>3. \A m \in Visit : visit'[m].pc \notin {"ask", "cache"}
    BY <1>1, <2>1, <2>2, VisitMoves, NoneOnTheWay
  <2>4. k \in Diagnosing'
    BY <1>1, <2>2, VisitMoves DEF Diagnosing
  <2>. QED BY <2>1, <2>3, <2>4
<1>3. ASSUME NEW k \in Visit, Diagnose(k) PROVE Goal
  <2>1. VisitGoes(k, "load") /\ UNCHANGED <<stored, readable, diagnosis, unsettled>>
    BY <1>3 DEF Diagnose
  <2>2. k \in Diagnosing'
    BY <1>1, <2>1, VisitMoves DEF Diagnosing
  <2>. QED BY <1>1, <2>1, <2>2, VisitMoves DEF Settled
<1>4. ASSUME NEW k \in Visit, Load(k) PROVE Goal
  <2>1. UNCHANGED <<stored, readable, diagnosis, unsettled>>
    BY <1>4 DEF Load
  <2>2. k \in Diagnosing'
    BY <1>1, <1>4, LoadBecomes DEF Diagnosing
  <2>3. Loaded = stored
    BY <1>1, <2>1 DEF Settled, Loaded
  <2>. QED BY <1>1, <1>4, <2>1, <2>2, <2>3, LoadBecomes DEF Settled
<1>5. ASSUME NEW k \in Visit, Ask(k) PROVE Goal
  <2>1. UNCHANGED <<stored, readable, diagnosis, unsettled>> /\ visit[k].pc = "ask"
    BY <1>5 DEF Ask
  <2>2. k \in Diagnosing'
    BY <1>1, <1>5, AskBecomes DEF Diagnosing
  <2>. QED BY <1>1, <1>5, <2>1, <2>2, AskBecomes DEF Settled
<1>6. ASSUME NEW k \in Visit, Cache(k) PROVE Goal
  <2>1. /\ UNCHANGED <<stored, readable, unsettled>> /\ visit[k].pc = "cache"
        /\ diagnosis' = [state |-> visit[k].state, of |-> visit[k].cookies]
        /\ visit' = [visit EXCEPT ![k] = Done]
    BY <1>6 DEF Cache
  <2>2. diagnosis'.of = stored'
    BY <1>1, <2>1 DEF Settled
  <2>. QED BY <1>1, <2>1, <2>2, VisitBecomes, DoneRecord DEF Settled
<1>7. CASE Clear
  <2>1. Diagnosing = {} /\ diagnosis' = NoDiagnosis /\ UNCHANGED <<visit, readable>> /\ ~unsettled
    BY <1>7 DEF Clear
  <2>. QED BY <1>1, <2>1, NoneOnTheWay DEF Settled
<1>8. CASE UNCHANGED <<stored, readable, diagnosis, visit, unsettled>>
  BY <1>1, <1>8 DEF Settled, Diagnosing
<1>9. CASE LetIn \/ Arm \/ Over \/ UNCHANGED sessionVars
  BY <1>8, <1>9 DEF LetIn, Arm, Over, sessionVars
<1>10. ASSUME NEW c \in Cookie, Expire(c) PROVE Goal
  BY <1>8, <1>10 DEF Expire
<1>11. ~ChangeKey /\ \A k \in Visit : ~DiagnosisLost(k)
  BY DEF ChangeKey, DiagnosisLost
<1>. QED BY <1>2, <1>3, <1>4, <1>5, <1>6, <1>7, <1>9, <1>10, <1>11 DEF SessionNext

LEMMA CheckStep == SessionInv /\ [SessionNext]_sessionVars => CheckWasOwner' /\ DeletesAsOwner'
<1>. SUFFICES ASSUME SessionInv, [SessionNext]_sessionVars PROVE CheckWasOwner' /\ DeletesAsOwner'
  OBVIOUS
<1>1. /\ SessionTypeOK /\ OwnerWasShown /\ Settled /\ CheckWasOwner /\ DeletesAsOwner
      /\ shown \subseteq shown'
  BY ShownGrows DEF SessionInv
<1>. USE DEF CheckWasOwner, DeletesAsOwner
<1>2. CASE LetIn
  <2>1. /\ deletion' = [NoDeletion EXCEPT !.pc = "let in", !.checked = stored,
                                          !.settled = ~unsettled /\ Diagnosing = {}]
        /\ CanDelete
    BY <1>2 DEF LetIn
  <2>2. /\ deletion'.pc = "let in" /\ deletion'.checked = stored
        /\ deletion'.settled = (~unsettled /\ Diagnosing = {})
    BY <2>1 DEF NoDeletion
  <2>3. ~unsettled /\ Diagnosing = {} => stored \in shown
    BY <1>1, <2>1 DEF Settled, CanDelete, OwnerWasShown
  <2>. QED BY <1>1, <2>2, <2>3
<1>3. CASE Arm
  <2>1. deletion.pc = "let in" /\ deletion' = [deletion EXCEPT !.pc = "armed", !.cookies = Loaded]
    BY <1>3 DEF Arm
  <2>2. deletion'.checked = deletion.checked /\ deletion'.settled = deletion.settled
    BY <1>1, <2>1 DEF SessionTypeOK, DeletionRecord
  <2>. QED BY <1>1, <2>1, <2>2
<1>4. CASE Over \/ ChangeKey
  BY <1>4 DEF Over, ChangeKey, NoDeletion
<1>5. CASE UNCHANGED deletion
  BY <1>1, <1>5
<1>. QED BY <1>2, <1>3, <1>4, <1>5
     DEF SessionNext, Register, Diagnose, Load, Ask, Cache, DiagnosisLost, Clear, Expire, sessionVars

-----------------------------------------------------------------------------
\* Any number of requests, faults and changes of the key leave the state well typed.
THEOREM SessionWellTyped == SessionSpec => []SessionTypeOK
<1>1. SessionInit => SessionTypeOK
  BY SessionInitial DEF SessionInv
<1>. QED BY <1>1, SessionTypeStep, PTL DEF SessionSpec

\* Whatever is pasted, what is stored can be sent.
THEOREM OnlySendableStored == SessionSpec => []StoredIsSendable
<1>1. SessionInit => StoredIsSendable
  BY SessionInitial DEF SessionInv
<1>. QED BY <1>1, StoredStep, PTL DEF SessionSpec

LEMMA SessionInvariant == SessionSpec => []SessionInv
<1>1. SessionInv /\ [SessionNext]_sessionVars => SessionInv'
  BY SessionTypeStep, StoredStep, AnswerStep, SettledStep, CheckStep DEF SessionInv
<1>. QED BY <1>1, SessionInitial, PTL DEF SessionSpec

\* Nobody is called the owner whom the blog has not accepted, however many diagnoses,
\* registrations and faults overlap.
THEOREM OwnerOnlyByAnswer == SessionSpec => []OwnerWasShown
<1>1. SessionInv => OwnerWasShown
  BY DEF SessionInv
<1>. QED BY <1>1, SessionInvariant, PTL

\* The stored diagnosis is about the stored cookies whenever all is settled.
THEOREM DiagnosisMatches == SessionSpec => []DiagnosisIsOfStored
<1>1. SessionInv => DiagnosisIsOfStored
  BY DEF SessionInv, Settled, DiagnosisIsOfStored
<1>. QED BY <1>1, SessionInvariant, PTL

\* A deletion that was let in while all was settled goes out as the owner.
THEOREM DeletionIsOwners == SessionSpec => []DeletesAsOwner
<1>1. SessionInv => DeletesAsOwner
  BY DEF SessionInv
<1>. QED BY <1>1, SessionInvariant, PTL
=============================================================================
