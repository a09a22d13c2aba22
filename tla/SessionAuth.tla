---------------------------- MODULE SessionAuth ----------------------------
(***************************************************************************)
(* The session cookies, their diagnosis and who relies on it:              *)
(* SessionManager (src/app/services/session_manager.py), the recognition   *)
(* of pasted cookies (infrastructure/tistory/auth.py), diagnose_session    *)
(* (client.py) and the check of a new deletion (jobs.py).                  *)
(***************************************************************************)
EXTENDS Naturals, FiniteSets

CONSTANTS
    Cookie,         \* sets of cookies
    Unsendable,     \* those with characters that no header can carry
    Visit,         \* requests of the settings page
    NoCookie, NoDiagnosis,
    MaxFaults,      \* bound on failing transactions
    MaxRequests     \* bound on requests

ASSUME SessionAssumption ==
    /\ Unsendable \subseteq Cookie /\ NoCookie \notin Cookie
    /\ MaxFaults \in Nat /\ MaxRequests \in Nat

VARIABLES
    stored,     \* tistory.session_cookies
    readable,   \* it was encrypted with the present APP_SECRET_KEY
    diagnosis,  \* tistory.session_diagnosis: its state, and as history the cookies
                \* it is about
    visit,     \* per request: where it is, the cookies and the state it has
    owner,      \* the cookies that the blog takes for its owner's
    deletion,   \* a deletion that is created: where it is and its cookies; as history
                \* the stored ones when it was let in, and whether all was settled
    shown,      \* history: cookies the blog has answered with 200
    unsettled,  \* history: cookies changed beside a diagnosis, a diagnosis was not
                \* stored, or the key was changed
    faults, requests

sessionVars == <<stored, readable, diagnosis, visit, owner, deletion, shown,
                 unsettled, faults, requests>>

AuthState == {"owner", "anonymous", "not_owner", "missing", "unknown"}
Diagnosing == {k \in Visit : visit[k].pc \in {"load", "ask", "cache"}}

VisitRecord == [pc : {"idle", "load", "ask", "cache"}, cookies : Cookie \cup {NoCookie},
                state : AuthState]
DiagnosisRecord == [state : AuthState, of : Cookie \cup {NoCookie}]
DeletionRecord == [pc : {"none", "let in", "armed"}, cookies : Cookie \cup {NoCookie},
                   checked : Cookie \cup {NoCookie}, settled : BOOLEAN]

NoDeletion == [pc |-> "none", cookies |-> NoCookie, checked |-> NoCookie, settled |-> FALSE]

SessionInit ==
    /\ stored = NoCookie /\ readable = TRUE /\ diagnosis = NoDiagnosis
    /\ visit = [k \in Visit |-> [pc |-> "idle", cookies |-> NoCookie, state |-> "unknown"]]
    /\ owner \in SUBSET (Cookie \ Unsendable)
    /\ deletion = NoDeletion
    /\ shown = {} /\ unsettled = FALSE /\ faults = 0 /\ requests = 0

Asked == requests < MaxRequests /\ requests' = requests + 1
VisitGoes(k, pc) == visit' = [visit EXCEPT ![k].pc = pc]

(***************************************************************************)
(* parse_cookie_input. A paste is what its three readings find: as JSON,   *)
(* as a cURL command, as a header.                                         *)
(***************************************************************************)
Paste == [json : Cookie \cup {NoCookie}, curl : Cookie \cup {NoCookie},
          header : Cookie \cup {NoCookie}]

Found(paste) ==
    IF paste.json # NoCookie THEN paste.json
    ELSE IF paste.curl # NoCookie THEN paste.curl ELSE paste.header

\* The first reading that finds cookies decides, and they must fit into a header.
Accepts(paste) == Found(paste) \in Cookie \ Unsendable

(***************************************************************************)
(* Requests                                                                *)
(***************************************************************************)
\* Plausible bug: the cookies are diagnosed only when the user asks.
RegisterOnly(k, paste) ==
    /\ visit[k].pc = "idle" /\ Accepts(paste) /\ Asked
    /\ stored' = Found(paste) /\ readable' = TRUE
    /\ unsettled' = (unsettled \/ Diagnosing # {})
    /\ UNCHANGED <<visit, diagnosis, owner, deletion, shown, faults>>

\* save_cookies, save_cookies_from_browser: the cookies are stored, then diagnosed.
Register(k, paste) ==
    /\ visit[k].pc = "idle" /\ Accepts(paste) /\ Asked
    /\ stored' = Found(paste) /\ readable' = TRUE
    /\ VisitGoes(k, "load")
    /\ unsettled' = (unsettled \/ Diagnosing # {})
    /\ UNCHANGED <<diagnosis, owner, deletion, shown, faults>>

Diagnose(k) ==
    /\ visit[k].pc = "idle" /\ Asked
    /\ VisitGoes(k, "load")
    /\ UNCHANGED <<stored, readable, diagnosis, owner, deletion, shown, unsettled, faults>>

\* clear_cookies: both rows in one transaction.
Clear ==
    /\ Asked
    /\ stored' = NoCookie /\ diagnosis' = NoDiagnosis
    /\ unsettled' = (unsettled \/ Diagnosing # {})
    /\ UNCHANGED <<readable, visit, owner, deletion, shown, faults>>

\* load_cookies: what cannot be decrypted counts as no cookies.
Loaded == IF readable THEN stored ELSE NoCookie

\* build_client of diagnose
Load(k) ==
    /\ visit[k].pc = "load"
    /\ visit' = [visit EXCEPT ![k] = [@ EXCEPT !.pc = "ask", !.cookies = Loaded]]
    /\ UNCHANGED <<stored, readable, diagnosis, owner, deletion, shown, unsettled, faults, requests>>

\* diagnose_session: 200 only for the owner, a login redirect, 401 or 403 for others,
\* anything else and every failure leaves it open.
Answers(cookies) ==
    IF cookies = NoCookie THEN {"missing"}
    ELSE {"unknown"} \cup (IF cookies \in owner THEN {"owner"} ELSE {"anonymous", "not_owner"})

Ask(k) ==
    /\ visit[k].pc = "ask"
    /\ \E state \in Answers(visit[k].cookies) :
           visit' = [visit EXCEPT ![k].state = state, ![k].pc = "cache"]
    /\ shown' = shown \cup ({visit[k].cookies} \cap owner)
    /\ UNCHANGED <<stored, readable, diagnosis, owner, deletion, unsettled, faults, requests>>

Done == [pc |-> "idle", cookies |-> NoCookie, state |-> "unknown"]

\* _cache_diagnosis
Cache(k) ==
    /\ visit[k].pc = "cache"
    /\ diagnosis' = [state |-> visit[k].state, of |-> visit[k].cookies]
    /\ visit' = [visit EXCEPT ![k] = Done]
    /\ UNCHANGED <<stored, readable, owner, deletion, shown, unsettled, faults, requests>>

\* A transaction of the diagnosis fails, or the browser is gone: nothing is stored.
DiagnosisLost(k) ==
    /\ k \in Diagnosing /\ faults < MaxFaults
    /\ faults' = faults + 1 /\ unsettled' = TRUE
    /\ visit' = [visit EXCEPT ![k] = Done]
    /\ UNCHANGED <<stored, readable, diagnosis, owner, deletion, shown, requests>>

\* A restart with another key.
ChangeKey ==
    /\ Diagnosing = {} /\ stored # NoCookie /\ readable /\ faults < MaxFaults
    /\ faults' = faults + 1 /\ readable' = FALSE /\ unsettled' = TRUE
    /\ deletion' = NoDeletion
    /\ UNCHANGED <<stored, diagnosis, visit, owner, shown, requests>>

\* A session ends at the blog.
Expire(c) ==
    /\ c \in owner /\ owner' = owner \ {c}
    /\ UNCHANGED <<stored, readable, diagnosis, visit, deletion, shown, unsettled, faults, requests>>

(***************************************************************************)
(* A deletion                                                              *)
(***************************************************************************)
\* Plausible bug: any diagnosis that is not a refusal will do.
CanDeleteUnlessRefused ==
    diagnosis # NoDiagnosis /\ diagnosis.state \notin {"anonymous", "not_owner", "missing"}

\* cached_diagnosis().can_delete
CanDelete == diagnosis # NoDiagnosis /\ diagnosis.state = "owner"

LetIn ==
    /\ deletion.pc = "none" /\ CanDelete /\ Asked
    /\ deletion' = [NoDeletion EXCEPT !.pc = "let in", !.checked = stored,
                                         !.settled = ~unsettled /\ Diagnosing = {}]
    /\ UNCHANGED <<stored, readable, diagnosis, visit, owner, shown, unsettled, faults>>

\* Its task builds its client later, with the cookies of then.
Arm ==
    /\ deletion.pc = "let in"
    /\ deletion' = [deletion EXCEPT !.pc = "armed", !.cookies = Loaded]
    /\ UNCHANGED <<stored, readable, diagnosis, visit, owner, shown, unsettled, faults, requests>>

Over ==
    /\ deletion.pc = "armed"
    /\ deletion' = NoDeletion
    /\ UNCHANGED <<stored, readable, diagnosis, visit, owner, shown, unsettled, faults, requests>>

SessionNext ==
    \/ \E k \in Visit, paste \in Paste : Register(k, paste)
    \/ \E k \in Visit : Diagnose(k) \/ Load(k) \/ Ask(k) \/ Cache(k) \/ DiagnosisLost(k)
    \/ Clear \/ ChangeKey \/ LetIn \/ Arm \/ Over
    \/ \E c \in Cookie : Expire(c)

SessionSpec == SessionInit /\ [][SessionNext]_sessionVars

(***************************************************************************)
(* Properties                                                              *)
(***************************************************************************)
SessionTypeOK ==
    /\ stored \in Cookie \cup {NoCookie} /\ readable \in BOOLEAN
    /\ diagnosis \in DiagnosisRecord \cup {NoDiagnosis}
    /\ visit \in [Visit -> VisitRecord]
    /\ owner \subseteq Cookie /\ shown \subseteq Cookie
    /\ deletion \in DeletionRecord
    /\ unsettled \in BOOLEAN /\ faults \in 0..MaxFaults /\ requests \in 0..MaxRequests

\* When nothing is on its way the stored diagnosis is about the stored cookies, and no
\* diagnosis is left of cookies that were cleared, unless the cookies changed while one
\* was on its way, one could not be stored or the key changed (session_manager.py:89-95).
DiagnosisIsOfStored ==
    ~unsettled /\ Diagnosing = {} => diagnosis = NoDiagnosis \/ diagnosis.of = stored

\* Nobody is called the owner who was never accepted as the owner by the blog, however
\* diagnoses, new cookies and failures overlap (client.py:357-413).
OwnerWasShown ==
    diagnosis # NoDiagnosis /\ diagnosis.state = "owner" => diagnosis.of \in shown

\* A deletion that is let in goes out with cookies that the blog has accepted as the
\* owner's, unless something was on its way or unsettled at its check, or the cookies
\* were changed between the check and the building of its client (jobs.py:311-317).
DeletesAsOwner ==
    deletion.pc = "armed" /\ deletion.settled /\ deletion.cookies = deletion.checked
        => deletion.cookies \in shown

\* What is stored can always be sent; a request can be built from it (auth.py:74-95).
StoredIsSendable == stored \notin Unsendable
=============================================================================
