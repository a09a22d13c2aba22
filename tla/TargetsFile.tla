---------------------------- MODULE TargetsFile ----------------------------
(***************************************************************************)
(* The posts to collect: the table of targets and config/targets.yaml,     *)
(* which requests write after each change and a start reads                *)
(* (src/app/api/routes/targets.py, src/app/config/targets.py,              *)
(* TargetRepository, DiscoveryService, _fill_missing_titles).              *)
(***************************************************************************)
EXTENDS Naturals, FiniteSets

CONSTANTS
    Post,           \* entry numbers
    Caller,         \* requests that add or remove, and the filling of titles
    NoTarget,
    MaxChanges      \* bound on requests and restarts

ASSUME TargetsAssumption == MaxChanges \in Nat

VARIABLES
    target,     \* the table: per post enabled, source and whether it has a title
    yaml,       \* the posts in the file, or that it is Unreadable
    caller,     \* per caller: where it is, and the posts it has read
    up,         \* the server runs
    changes,
    removed,    \* history: posts a user has removed and nobody has added since
    refilled,   \* history: posts put back by a collection that had listed them before
    disordered  \* history: two callers overlapped between commit and save, a save
                \* failed, the process ended before it, or the file was edited

targetVars == <<target, yaml, caller, up, changes, removed, refilled,
                disordered>>

\* A file that is no list of posts.
Unreadable == {"unreadable"}
Sources == {"manual", "sitemap"}
TargetRecord == [enabled : BOOLEAN, source : Sources, titled : BOOLEAN]
CallerRecord == [pc : {"idle", "list", "save", "fill"}, posts : SUBSET Post]

ASSUME NoTargetAssumption == NoTarget \notin TargetRecord

Present == {e \in Post : target[e] # NoTarget}
Manual == {e \in Present : target[e].source = "manual"}
Syncing == {k \in Caller : caller[k].pc \in {"list", "save"}}

TargetsInit ==
    /\ target = [e \in Post |-> NoTarget] /\ yaml = {}
    /\ caller = [k \in Caller |-> [pc |-> "idle", posts |-> {}]]
    /\ up = TRUE /\ changes = 0 /\ removed = {} /\ refilled = {}
    /\ disordered = FALSE

history == <<removed, refilled, disordered>>

Change == up /\ changes < MaxChanges /\ changes' = changes + 1

\* _upsert_rows: a known target keeps its source, its switch and a title it has.
Upserted(e, titled, source) ==
    IF target[e] = NoTarget THEN [enabled |-> TRUE, source |-> source, titled |-> titled]
    ELSE [target[e] EXCEPT !.titled = @ \/ titled]

Upsert(posts, titled, source) ==
    target' = [e \in Post |-> IF e \in posts THEN Upserted(e, titled, source) ELSE target[e]]

(***************************************************************************)
(* Requests                                                                *)
(***************************************************************************)
\* add_target: the post is resolved, with its title if that can be had, and stored.
AddTarget(k, e, titled) ==
    /\ caller[k].pc = "idle" /\ Change
    /\ Upsert({e}, titled, "manual")
    /\ caller' = [caller EXCEPT ![k].pc = "list"]
    /\ removed' = removed \ {e} /\ refilled' = refilled \ {e}
    /\ disordered' = (disordered \/ Syncing # {})
    /\ UNCHANGED <<yaml, up>>

\* remove_target: an unknown post is answered with an error.
RemoveTarget(k, e) ==
    /\ caller[k].pc = "idle" /\ e \in Present /\ Change
    /\ target' = [target EXCEPT ![e] = NoTarget]
    /\ caller' = [caller EXCEPT ![k].pc = "list"]
    /\ removed' = removed \cup {e} /\ refilled' = refilled \ {e}
    /\ disordered' = (disordered \/ Syncing # {})
    /\ UNCHANGED <<yaml, up>>

\* patch_target
PatchTarget(e) ==
    /\ e \in Present /\ Change
    /\ target' = [target EXCEPT ![e].enabled = ~@]
    /\ UNCHANGED <<yaml, caller, up, history>>

\* The discovery job stores what the sitemap lists, without titles.
Discover(posts) ==
    /\ posts # {} /\ Change
    /\ Upsert(posts, FALSE, "sitemap")
    /\ removed' = removed \ posts
    /\ UNCHANGED <<yaml, caller, up, refilled, disordered>>

\* Plausible bug: only enabled targets are written to the file.
ListedEnabled == {e \in Manual : target[e].enabled}

\* The rows of source "manual": first registered by a user, the file or a collection. A
\* post that was found in the sitemap first is not among them, even if it is then added.
Listed == Manual

\* _sync_targets_file: it lists the targets ...
SyncList(k) ==
    /\ caller[k].pc = "list"
    /\ caller' = [caller EXCEPT ![k] = [pc |-> "save", posts |-> Listed]]
    /\ UNCHANGED <<target, yaml, up, changes, history>>

\* Plausible bug: what the file holds already is kept.
SyncSaveMerges(k) ==
    /\ caller[k].pc = "save"
    /\ \/ yaml' = yaml \cup caller[k].posts /\ UNCHANGED disordered
       \/ disordered' = TRUE /\ UNCHANGED yaml
    /\ caller' = [caller EXCEPT ![k] = [pc |-> "idle", posts |-> {}]]
    /\ UNCHANGED <<target, up, changes, removed, refilled>>

\* ... and replaces the file by what it has listed; a failure is only logged.
SyncSave(k) ==
    /\ caller[k].pc = "save"
    /\ \/ yaml' = caller[k].posts /\ UNCHANGED disordered
       \/ disordered' = TRUE /\ UNCHANGED yaml
    /\ caller' = [caller EXCEPT ![k] = [pc |-> "idle", posts |-> {}]]
    /\ UNCHANGED <<target, up, changes, removed, refilled>>

(***************************************************************************)
(* A collection fills in missing titles: it lists the targets, asks the    *)
(* blog, and registers what it has found.                                  *)
(***************************************************************************)
FillList(k) ==
    /\ caller[k].pc = "idle" /\ {e \in Present : ~target[e].titled} # {} /\ Change
    /\ caller' = [caller EXCEPT ![k] = [pc |-> "fill",
                                        posts |-> {e \in Present : ~target[e].titled}]]
    /\ UNCHANGED <<target, yaml, up, history>>

\* Whatever has been removed since the listing is registered again, as added by hand.
FillStore(k) ==
    /\ caller[k].pc = "fill"
    /\ \E found \in SUBSET caller[k].posts :
           /\ Upsert(found, TRUE, "manual")
           /\ refilled' = refilled \cup (found \ Present)
    /\ caller' = [caller EXCEPT ![k] = [pc |-> "idle", posts |-> {}]]
    /\ UNCHANGED <<yaml, up, changes, removed, disordered>>

(***************************************************************************)
(* The user's editor, and the end and start of the server                  *)
(***************************************************************************)
HandEdit(posts) ==
    /\ changes < MaxChanges /\ changes' = changes + 1
    /\ yaml' = posts /\ disordered' = TRUE
    /\ UNCHANGED <<target, caller, up, removed, refilled>>

Stop ==
    /\ Change
    /\ up' = FALSE
    /\ caller' = [k \in Caller |-> [pc |-> "idle", posts |-> {}]]
    /\ disordered' = (disordered \/ Syncing # {})
    /\ UNCHANGED <<target, yaml, removed, refilled>>

\* load_targets_from_file: a file that cannot be read keeps the server from starting.
Start ==
    /\ ~up /\ yaml # Unreadable
    /\ \E titled \in BOOLEAN : Upsert(yaml, titled, "manual")
    /\ up' = TRUE
    /\ UNCHANGED <<yaml, caller, changes, history>>

TargetsNext ==
    \/ \E k \in Caller, e \in Post, titled \in BOOLEAN : AddTarget(k, e, titled)
    \/ \E k \in Caller, e \in Post : RemoveTarget(k, e)
    \/ \E e \in Post : PatchTarget(e)
    \/ \E posts \in SUBSET Post : Discover(posts)
    \/ \E k \in Caller : SyncList(k) \/ SyncSave(k) \/ FillList(k) \/ FillStore(k)
    \/ \E posts \in {Unreadable} \cup (SUBSET Post) : HandEdit(posts)
    \/ Stop \/ Start

TargetsSpec == TargetsInit /\ [][TargetsNext]_targetVars

(***************************************************************************)
(* Properties                                                              *)
(***************************************************************************)
TargetsTypeOK ==
    /\ target \in [Post -> TargetRecord \cup {NoTarget}]
    /\ yaml \in (SUBSET Post) \cup {Unreadable}
    /\ caller \in [Caller -> CallerRecord]
    /\ up \in BOOLEAN /\ changes \in 0..MaxChanges
    /\ removed \subseteq Post /\ refilled \subseteq Post /\ disordered \in BOOLEAN

\* Once every request has ended the file lists the targets of source "manual", across
\* adding, removing, discovering, filling in titles and restarts; only a target that a
\* collection has put back may be missing (targets.py:103-123). Requests that overlap, a
\* save that fails, an end of the server before it and the user's editor are excepted.
FileFollowsTable ==
    ~disordered /\ Syncing = {} => Manual \ refilled \subseteq yaml /\ yaml \subseteq Manual

\* A target that the user removed returns with no restart and no request, with the same
\* exceptions; with the titles of a collection it does return, when the collection had
\* listed it before (targets.py:126-133, jobs.py:843-848).
NothingReturns == ~disordered => removed \cap Present \subseteq refilled

\* What targets.py:81 says, "removes it from the list of targets", and jobs.py:814, "fills
\* in the titles of the targets that have none", without that last exception: a removed
\* target stays away.
RemovedStaysAway == ~disordered => removed \cap Present = {}

\* Registering a target again, from the page, the sitemap, the file or a collection,
\* neither switches it on nor loses its title (repositories.py:145-157).
RegistrationKeeps ==
    [][\A e \in Present : target'[e] # NoTarget =>
           /\ target[e].titled => target'[e].titled
           /\ target'[e].enabled # target[e].enabled =>
                  /\ target'[e] = [target[e] EXCEPT !.enabled = ~@]
                  /\ \A d \in Post \ {e} : target'[d] = target[d]
                  /\ caller' = caller /\ up' = up]_targetVars
=============================================================================
