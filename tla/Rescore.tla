------------------------------ MODULE Rescore ------------------------------
(***************************************************************************)
(* The stored comments between their three writers: collections that store *)
(* what they read, rescorings (SpamScoringService.rescore) that read all,  *)
(* evaluate and write back in chunks of separate transactions, and the     *)
(* deletion.  Sources: src/app/services/spam_rules.py,                     *)
(* src/app/infrastructure/db/repositories.py, src/app/api/routes/          *)
(* {comments,settings}.py.                                                 *)
(***************************************************************************)
EXTENDS SpamRules, Sequences

CONSTANTS
    Comment,        \* comment ids
    Data,           \* what the blog says of each: entry_id, nickname, ...
    Admin,          \* the comments of the blog's owner
    Request,        \* rescorings: requests and the ends of collections
    Filters,        \* filters of the pages
    Files,          \* contents of the rule file a user may save, valid or not
    NoFile,
    Chunk,          \* _RESCORE_CHUNK
    MaxEvents,      \* bound on collected, taken and saved things
    MaxFaults       \* bound on failing transactions

VARIABLES
    file,       \* rules.yaml
    row,        \* the table of comments
    req,        \* per request: where it is, its rules, its scope and what it
                \* has still to write
    taken,      \* comments that a job or a trial has let through its check and may
                \* still write
    events, faults,
    undisturbed,\* history: requests beside which nothing else has changed
    settled,    \* history: the last change was an undisturbed rescore of all
    owned       \* history: comments once known as the owner's, left, and in no job

vars == <<file, row, req, taken, events, faults, undisturbed, settled, owned>>

Fields == {"comment_id", "entry_id", "nickname", "content", "written_at", "is_secret", "is_reply"}

ASSUME RescoreAssumption ==
    /\ IsFiniteSet(Comment) /\ Admin \subseteq Comment /\ Chunk \in Nat \ {0}
    /\ MaxEvents \in Nat /\ MaxFaults \in Nat
    /\ \A c \in Comment : Fields \subseteq DOMAIN Data[c] /\ Data[c].comment_id = c
    /\ NoFile \notin Files /\ \A f \in Files : IsFiniteSet(DOMAIN f.rules)

\* The defaults of a new row.
Unscored == [score |-> 0, level |-> "normal", reasons |-> {}, whitelisted |-> FALSE]

\* A comment that the table does not have.
NoRow == [status |-> "absent", verdict |-> Unscored, is_admin |-> FALSE]

Entries == {Data[c].entry_id : c \in Comment}
Stored == {c \in Comment : row[c].status # "absent"}
Live == {c \in Stored : row[c].status # "deleted"}
Idle == [pc |-> "idle", rules |-> default_rules, scope |-> {}, todo |-> <<>>, verdicts |-> <<>>]

\* What the engine sees of a stored comment.
Scored(c) ==
    [k \in Fields \cup {"is_admin"} |-> IF k = "is_admin" THEN row[c].is_admin ELSE Data[c][k]]

Init ==
    /\ file = NoFile /\ row = [c \in Comment |-> NoRow]
    /\ req = [r \in Request |-> Idle]
    /\ taken = {} /\ owned = {}
    /\ events = 0 /\ faults = 0 /\ undisturbed = {} /\ settled = FALSE

Event == events < MaxEvents /\ events' = events + 1
Disturb == undisturbed' = {} /\ settled' = FALSE

\* The owner's comments that are left and that no job has in hand.
Safe == {c \in Comment : row[c].is_admin /\ row[c].status # "deleted" /\ c \notin taken}

(***************************************************************************)
(* The rule file                                                           *)
(***************************************************************************)
\* load_rules: a missing file means the defaults, a broken one an error.
Loads == IF file = NoFile THEN default_rules ELSE file
Loadable == file # NoFile => ValidConfig(file)

\* save_rules_yaml: only what is valid reaches the file.
PutRules(f) ==
    /\ Event /\ f # file /\ ValidConfig(f)
    /\ file' = f /\ Disturb
    /\ UNCHANGED <<row, req, taken, faults, owned>>

\* The user edits or removes the file itself.
EditRules(f) ==
    /\ Event /\ f # file
    /\ file' = f /\ Disturb
    /\ UNCHANGED <<row, req, taken, faults, owned>>

(***************************************************************************)
(* The other writers                                                       *)
(***************************************************************************)
NowActive(status) == IF status = "absent" THEN "active" ELSE status

\* Plausible bug: the mark of the owner is that of the last reading.
UpsertedAdminLast(c, mark) == [row[c] EXCEPT !.status = NowActive(@), !.is_admin = mark]

\* CommentRepository.upsert_many: a new comment is active and unscored; a known one
\* keeps its status and its verdict, and the mark of the owner once it was seen.
Upserted(c, mark) == [row[c] EXCEPT !.status = NowActive(@), !.is_admin = @ \/ mark]

\* A page of a collection is stored; the page may lack the mark of the owner.
Collect(c, mark) ==
    /\ mark => c \in Admin
    /\ row[c] # Upserted(c, mark) /\ Event
    /\ row' = [row EXCEPT ![c] = Upserted(c, mark)]
    /\ Disturb
    /\ UNCHANGED <<file, req, taken, faults>>
    /\ owned' = owned \cup Safe'

Protected(c) == row[c].is_admin \/ row[c].verdict.whitelisted

\* selectable_condition; a deletion takes only what it lets pass.
Selectable(c) == ~Protected(c) /\ row[c].status # "deleted"

(***************************************************************************)
(* What the pages are told (src/app/api/routes/comments.py). A filter is   *)
(* [entry_ids, written_from, written_to, levels, statuses, min_score]; an  *)
(* empty set leaves a column free, except that no status means "active".   *)
(***************************************************************************)
\* CommentFilterIn.to_domain and build_comment_conditions; the bounds are included.
Meets(f, c) ==
    /\ f.entry_ids = {} \/ Data[c].entry_id \in f.entry_ids
    /\ \A b \in f.written_from : Data[c].written_at >= b
    /\ \A b \in f.written_to : Data[c].written_at <= b
    /\ f.levels = {} \/ row[c].verdict.level \in f.levels
    /\ row[c].status \in (IF f.statuses = {} THEN {"active"} ELSE f.statuses)
    /\ \A b \in f.min_score : row[c].verdict.score >= b

Matching(f) == {c \in Stored : Meets(f, c)}

\* list_comments: the counts beside the page.
ListSummary(f) ==
    [total |-> Cardinality(Matching(f)),
     whitelisted |-> Cardinality({c \in Matching(f) : Protected(c)}),
     selectable |-> Cardinality({c \in Matching(f) : Selectable(c)})]

\* Plausible bug: the selection knows of the protection only, not of the status.
SelectUnprotected(f) ==
    LET ids == {c \in Matching(f) : ~Protected(c)} IN
    [ids |-> ids, count |-> Cardinality(ids),
     whitelisted_excluded |-> Cardinality(Matching(f)) - Cardinality(ids)]

\* select_ids: the button "select everything that matches".
SelectIds(f) ==
    LET ids == {c \in Matching(f) : Selectable(c)} IN
    [ids |-> ids, count |-> Cardinality(ids),
     whitelisted_excluded |-> Cardinality(Matching(f)) - Cardinality(ids)]

(***************************************************************************)
(* The deletion, as far as it writes comments: it looks at them once, then *)
(* asks the blog, and stores what came of it without looking again.        *)
(***************************************************************************)
\* _filter_protected at the start of a run, and the check of test_delete.
Take(c) ==
    /\ c \in Stored \ taken /\ Selectable(c) /\ Event
    /\ taken' = taken \cup {c}
    /\ UNCHANGED <<file, row, req, faults, undisturbed, settled, owned>>

\* mark_status: the flush of a run, its correction by the check afterwards, or a trial.
\* No mark of the owner that came in the meantime, and no other job, is looked at.
Delete(c, status) ==
    /\ c \in taken /\ row[c].status # status
    /\ row' = [row EXCEPT ![c].status = status]
    /\ IF "deleted" \in {status, row[c].status} THEN Disturb
       ELSE UNCHANGED <<undisturbed, settled>>
    /\ UNCHANGED <<file, req, taken, events, faults, owned>>

\* The job or the trial is over.
Release(c) ==
    /\ c \in taken
    /\ taken' = taken \ {c}
    /\ UNCHANGED <<file, row, req, events, faults, undisturbed, settled>>
    /\ owned' = owned \cup Safe'

(***************************************************************************)
(* SpamScoringService.rescore                                              *)
(***************************************************************************)
\* load_engine; a file that cannot be read ends the request.
Load(r, scope) ==
    /\ req[r].pc = "idle" /\ Loadable
    /\ req' = [req EXCEPT ![r] = [Idle EXCEPT !.pc = "read", !.rules = Loads, !.scope = scope]]
    /\ undisturbed' = undisturbed \cup {r}
    /\ UNCHANGED <<file, row, taken, events, faults, settled, owned>>

InScope(c, scope) == scope = {} \/ Data[c].entry_id \in scope

\* all_for_scoring: everything that is not deleted, of all posts or of some.
AllForScoring(scope) == {c \in Live : InScope(c, scope)}

\* The ids in the order of writing; the table answers ties in any order.
InOrderOfWriting(ids) ==
    {todo \in [1..Cardinality(ids) -> ids] :
        /\ Range(todo) = ids
        /\ \A i, k \in DOMAIN todo :
               i < k => Data[todo[i]].written_at <= Data[todo[k]].written_at}

\* It reads and evaluates.
Read(r) ==
    /\ req[r].pc = "read"
    /\ LET ids == AllForScoring(req[r].scope) IN
       \/ ids = {} /\ req' = [req EXCEPT ![r] = Idle]
       \/ ids # {} /\ \E todo \in InOrderOfWriting(ids) :
              req' = [req EXCEPT ![r] =
                  [@ EXCEPT !.pc = "write", !.todo = todo,
                            !.verdicts = EvaluateAll(req[r].rules, {Scored(c) : c \in ids})]]
    /\ UNCHANGED <<file, row, taken, events, faults, undisturbed, settled, owned>>

Least(a, b) == IF a < b THEN a ELSE b

\* Plausible bug: the rest that does not fill a chunk is not written.
RestFullOnly(todo) ==
    IF Len(todo) < 2 * Chunk THEN <<>> ELSE SubSeq(todo, Chunk + 1, Len(todo))

Rest(todo) == SubSeq(todo, Chunk + 1, Len(todo))

ChunkOf(todo) == {todo[i] : i \in 1..Least(Chunk, Len(todo))}

\* apply_verdicts: one chunk in one transaction, whatever has changed since the
\* reading.
Write(r) ==
    LET now == ChunkOf(req[r].todo)
        rest == Rest(req[r].todo)
    IN  /\ req[r].pc = "write"
        /\ row' = [c \in Comment |-> IF c \in now THEN [row[c] EXCEPT !.verdict = req[r].verdicts[c]]
                                     ELSE row[c]]
        /\ req' = [req EXCEPT ![r] = IF rest = <<>> THEN Idle ELSE [@ EXCEPT !.todo = rest]]
        /\ undisturbed' = undisturbed \cap {r}
        /\ settled' = (rest = <<>> /\ r \in undisturbed /\ req[r].scope = {})
        /\ UNCHANGED <<file, taken, events, faults, owned>>

\* A transaction fails: the request ends, the chunks before it stay.
Fail(r) ==
    /\ req[r].pc \in {"read", "write"} /\ faults < MaxFaults
    /\ faults' = faults + 1
    /\ req' = [req EXCEPT ![r] = Idle]
    /\ UNCHANGED <<file, row, taken, events, undisturbed, settled, owned>>

Next ==
    \/ \E f \in Files : PutRules(f)
    \/ \E f \in Files \cup {NoFile} : EditRules(f)
    \/ \E c \in Comment, mark \in BOOLEAN : Collect(c, mark)
    \/ \E c \in Comment : Take(c) \/ Release(c)
    \/ \E c \in Comment, status \in {"deleted", "failed"} : Delete(c, status)
    \/ \E r \in Request, scope \in {{}} \cup {{e} : e \in Entries} : Load(r, scope)
    \/ \E r \in Request : Read(r) \/ Write(r) \/ Fail(r)

Spec == Init /\ [][Next]_vars

(***************************************************************************)
(* Properties                                                              *)
(***************************************************************************)
TypeOK ==
    /\ file \in Files \cup {NoFile}
    /\ \A c \in Comment : /\ row[c].status \in {"absent", "active", "failed", "deleted"}
                          /\ row[c].is_admin \in BOOLEAN
                          /\ row[c].verdict.level \in SpamLevels
                          /\ row[c].verdict.whitelisted \in BOOLEAN
    /\ \A r \in Request : /\ req[r].pc \in {"idle", "read", "write"}
                          /\ req[r].todo \in Seq(Comment)
    /\ events \in 0..MaxEvents /\ faults \in 0..MaxFaults
    /\ undisturbed \subseteq Request /\ settled \in BOOLEAN
    /\ taken \subseteq Comment /\ owned \subseteq Comment

\* When a rescoring of all had the table and the file for itself, every comment that
\* is left carries the verdict of the file as it is, over all comments as they are,
\* across its chunks (spam_rules.py:262-308, repositories.py:372-415).
SettledIsCurrent ==
    settled => \A c \in Live :
        row[c].verdict = EvaluateAll(Loads, {Scored(d) : d \in Live})[c]

\* Once a comment was known as the owner's while it was left and no job had it in hand,
\* no deletion ever stores it as deleted: not after readings that miss the mark, nor
\* after verdicts made before it arrived (repositories.py:54-64, 252-255,
\* jobs.py:866-899). A mark that is collected while a job has the comment in hand does
\* not stop that job.
OwnerNeverDeleted == \A c \in owned : row[c].status # "deleted"

\* Rescoring some posts never makes a comment more suspicious than rescoring all.
PartNeverWorse ==
    Loadable => NeverLessTogether(Loads, {Scored(c) : c \in Live})

\* The page's "N can be selected" is what selecting all then yields, and unless the
\* filter asks for deleted comments what is left out is exactly what is protected
\* (comments.py:110-113, 136-147).
SelectionIsAsCounted ==
    \A f \in Filters :
        LET selection == SelectIds(f)
            shown == ListSummary(f)
        IN  /\ selection.count = shown.selectable
            /\ \A c \in selection.ids : ~Protected(c) /\ row[c].status # "deleted"
            /\ "deleted" \notin f.statuses =>
                   selection.whitelisted_excluded = shown.whitelisted
=============================================================================
