------------------------------ MODULE Placement ------------------------------
(***************************************************************************)
(* In which project an issue is shown, and whether it is shown at all:     *)
(* the daily pipeline/detect_deleted.py beside the hourly collection.      *)
(*                                                                         *)
(* Detection is one transaction with a Jira call per project and one per   *)
(* candidate; Jira and the whitelist change between any two of them.  A    *)
(* project's collection is one step here: module SyncRun takes it apart.   *)
(***************************************************************************)
EXTENDS Integers, FiniteSets

CONSTANTS
    Projects,       \* TEST_JIRA_PROJECT: every project the catalog has seen
    Issues,
    Outside,        \* a project the catalog does not have
    Gone,           \* where a deleted issue is, and one not yet created
    Hides,          \* may an issue become invisible to the token, and visible again?
    Toggles,        \* may the whitelist change?
    MaxChanges,     \* bound on the changes in Jira and of the whitelist
    MaxFailures     \* bound on the detections that fail

ASSUME PlaceAssumption == Outside \notin Projects /\ Gone \notin Projects /\ Outside # Gone
ASSUME BoundAssumption == /\ MaxChanges \in Nat /\ MaxFailures \in Nat
                          /\ Hides \in BOOLEAN /\ Toggles \in BOOLEAN
ASSUME FiniteAssumption == IsFiniteSet(Projects) /\ IsFiniteSet(Issues)

VARIABLES
    place,      \* Jira: the project of each issue
    hidden,     \* Jira: the issues the token may not see
    updated,    \* Jira: the version of each issue, its `updated'
    enabled,    \* is_enabled
    row,        \* TEST_JIRA_ISSUE, committed
    wm,         \* the watermark of each project
    tx,         \* TEST_JIRA_ISSUE as the detection's transaction sees it
    pc,         \* "idle", or the next step of the detection
    todo,       \* the projects it has still to scan
    cur, candidates,    \* the one being scanned, its issues still to ask about
    verdicts,   \* the DELETED and MOVED_OUT verdicts
    away,       \* issues that were in no project of Projects since it began
    stirred,    \* whether Jira changed since it began
    wasHidden,  \* issues the token was ever unable to see
    changes, failures

jiraVars   == <<place, hidden, updated>>
detectVars == <<tx, pc, todo, cur, candidates, verdicts>>
ghostVars  == <<away, stirred, wasHidden>>
vars == <<jiraVars, enabled, row, wm, detectVars, ghostVars, changes, failures>>

NoRow == [project |-> Gone, deleted |-> "", version |-> 0, synced |-> 0]
Rows  == [project : Projects \cup {Gone}, deleted : {"", "DELETED", "MOVED_OUT"},
          version : 0 .. MaxChanges, synced : 0 .. MaxChanges]
Verdicts == [Issues -> {"", "DELETED", "MOVED_OUT"}]

TypeOK ==
    /\ place \in [Issues -> Projects \cup {Outside, Gone}]
    /\ hidden \subseteq Issues
    /\ updated \in [Issues -> 0 .. MaxChanges] /\ wm \in [Projects -> 0 .. MaxChanges]
    /\ enabled \subseteq Projects
    /\ row \in [Issues -> Rows] /\ tx \in [Issues -> Rows]
    /\ pc \in {"idle", "scan", "check"} /\ todo \subseteq Projects
    /\ pc = "check" => cur \in Projects
    /\ candidates \subseteq Issues /\ verdicts \in Verdicts
    /\ away \subseteq Issues /\ wasHidden \subseteq Issues /\ stirred \in BOOLEAN
    /\ changes \in 0 .. MaxChanges /\ failures \in 0 .. MaxFailures

Visible(p) == {i \in Issues : place[i] = p /\ i \notin hidden}
Shown(t, p) == {i \in Issues : t[i].project = p /\ t[i].deleted = ""}
-----------------------------------------------------------------------------
(* Jira and the administrator.                                             *)

Changes(at, hid) ==
    /\ changes < MaxChanges
    /\ changes' = changes + 1
    /\ place' = at /\ hidden' = hid /\ wasHidden' = wasHidden \cup hid
    /\ stirred' = (pc # "idle")
    /\ away' = IF pc = "idle" THEN {}
               ELSE away \cup {i \in Issues : at[i] \notin Projects \/ i \in hid}
    /\ UNCHANGED <<enabled, row, wm, detectVars, failures>>

(* An issue is created, edited, moved or deleted. *)
CreateOrEdit(i, p) ==
    /\ place[i] \in {Gone, p} /\ (place[i] = Gone => updated[i] = 0)
    /\ Changes([place EXCEPT ![i] = p], hidden)
    /\ updated' = [updated EXCEPT ![i] = changes + 1]

Move(i, p) ==
    /\ place[i] \notin {Gone, p}
    /\ Changes([place EXCEPT ![i] = p], hidden)
    /\ updated' = [updated EXCEPT ![i] = changes + 1]

Delete(i) ==
    /\ place[i] # Gone
    /\ Changes([place EXCEPT ![i] = Gone], hidden)
    /\ UNCHANGED updated

(* A permission of the token is withdrawn or given: `updated' stays. *)
HideOrShow(i) ==
    /\ Hides
    /\ Changes(place, IF i \in hidden THEN hidden \ {i} ELSE hidden \cup {i})
    /\ UNCHANGED updated

SetProjectEnabled(p) ==
    /\ Toggles /\ changes < MaxChanges
    /\ changes' = changes + 1
    /\ enabled' = IF p \in enabled THEN enabled \ {p} ELSE enabled \cup {p}
    /\ stirred' = (pc # "idle")
    /\ UNCHANGED <<jiraVars, row, wm, detectVars, away, wasHidden, failures>>
-----------------------------------------------------------------------------
(* The hourly collection.                                                  *)

(* Mutant: the MERGE leaves deleted_at and delete_reason alone. *)
UpsertedKeepingMark(i, p) ==
    [project |-> p, deleted |-> row[i].deleted, version |-> updated[i], synced |-> changes]

(* The MERGE of upsert_issues. *)
Upserted(i, p) == [project |-> p, deleted |-> "", version |-> updated[i], synced |-> changes]

(* touch_synced_at, for a payload whose hash is the stored one. *)
Touched(i) == [row[i] EXCEPT !.synced = changes]

(* What the search since the watermark, overlap included, returns. *)
Found(p) == {i \in Visible(p) : wm[p] <= updated[i]}

Newest(T) == {t \in T : \A u \in T : u <= t}

SyncProject(p) ==
    /\ pc = "idle" /\ p \in enabled
    /\ LET parsed == {i \in Found(p) : row[i].version # updated[i]}
       IN  /\ row' = [i \in Issues |-> CASE i \in parsed   -> Upserted(i, p)
                                    [] i \in Found(p) -> Touched(i)
                                    [] OTHER         -> row[i]]
           /\ \E t \in Newest({wm[p]} \cup {updated[i] : i \in parsed}) :
                 wm' = [wm EXCEPT ![p] = t]
    /\ tx' = row'
    /\ UNCHANGED <<jiraVars, enabled, pc, todo, cur, candidates, verdicts, ghostVars,
                   changes, failures>>
-----------------------------------------------------------------------------
(* detect_deleted.                                                         *)

NoVerdicts == [i \in Issues |-> ""]

Forget == /\ todo' = {} /\ cur' = Gone /\ candidates' = {} /\ verdicts' = NoVerdicts
          /\ away' = {} /\ stirred' = FALSE

StartDetect ==
    /\ pc = "idle"
    /\ pc' = "scan" /\ todo' = enabled
    /\ stirred' = FALSE
    /\ away' = {i \in Issues : place[i] \notin Projects \/ i \in hidden}
    /\ UNCHANGED <<jiraVars, enabled, row, wm, tx, cur, candidates, verdicts, wasHidden,
                   changes, failures>>

(* live_issue_ids, then load_undeleted: the paging may skip ids, but only  *)
(* when issues are edited while it goes on.                                *)
Scan(p) ==
    /\ pc = "scan" /\ p \in todo
    /\ \E live \in SUBSET Visible(p) :
          /\ live = Visible(p) \/ stirred
          /\ candidates' = Shown(tx, p) \ live
    /\ todo' = todo \ {p} /\ cur' = p /\ pc' = "check"
    /\ UNCHANGED <<jiraVars, enabled, row, wm, tx, verdicts, ghostVars, changes, failures>>

(* Mutants: the candidate is not asked about; any project will do. *)
ClassifyUnasked(i) == "DELETED"
ClassifyAnyProject(i) == IF place[i] = Gone \/ i \in hidden THEN "DELETED" ELSE "MOVED_IN"

(* get_issue and classify; the whitelist has every project of the catalog. *)
Classify(i) == IF place[i] = Gone \/ i \in hidden THEN "DELETED"
               ELSE IF place[i] \in Projects THEN "MOVED_IN" ELSE "MOVED_OUT"

(* Mutant: a moved issue is kept, but where it was. *)
RelocatedNowhere(i) == [tx[i] EXCEPT !.deleted = ""]

Relocated(i) == [tx[i] EXCEPT !.project = place[i], !.deleted = ""]

Check(i) ==
    /\ pc = "check" /\ i \in candidates
    /\ IF Classify(i) = "MOVED_IN"
       THEN tx' = [tx EXCEPT ![i] = Relocated(i)] /\ UNCHANGED verdicts
       ELSE verdicts' = [verdicts EXCEPT ![i] = Classify(i)] /\ UNCHANGED tx
    /\ candidates' = candidates \ {i}
    /\ UNCHANGED <<jiraVars, enabled, row, wm, pc, todo, cur, ghostVars, changes, failures>>

NextProject ==
    /\ pc = "check" /\ candidates = {} /\ todo # {}
    /\ pc' = "scan"
    /\ UNCHANGED <<jiraVars, enabled, row, wm, tx, todo, cur, candidates, verdicts,
                   ghostVars, changes, failures>>

(* mark_deleted of all verdicts at the end, and the only commit. *)
MarkDeleted ==
    /\ pc \in {"scan", "check"} /\ candidates = {} /\ todo = {}
    /\ row' = [i \in Issues |-> IF verdicts[i] = "" THEN tx[i]
                                ELSE [tx[i] EXCEPT !.deleted = verdicts[i]]]
    /\ tx' = row'
    /\ pc' = "idle" /\ Forget
    /\ UNCHANGED <<jiraVars, enabled, wm, wasHidden, changes, failures>>

(* A Jira call or a statement raises, or the process dies: rollback. *)
DetectFails ==
    /\ pc # "idle" /\ failures < MaxFailures
    /\ failures' = failures + 1
    /\ tx' = row /\ pc' = "idle" /\ Forget
    /\ UNCHANGED <<jiraVars, enabled, row, wm, wasHidden, changes>>
-----------------------------------------------------------------------------
Init ==
    /\ place = [i \in Issues |-> Gone] /\ hidden = {}
    /\ updated = [i \in Issues |-> 0]
    /\ enabled = Projects
    /\ row = [i \in Issues |-> NoRow] /\ tx = row
    /\ wm = [p \in Projects |-> 0]
    /\ pc = "idle" /\ todo = {} /\ cur = Gone /\ candidates = {} /\ verdicts = NoVerdicts
    /\ away = {} /\ stirred = FALSE /\ wasHidden = {} /\ changes = 0 /\ failures = 0

Detect == \/ \E p \in Projects : Scan(p)
          \/ \E i \in Issues : Check(i)
          \/ NextProject \/ MarkDeleted

Jira == \E i \in Issues :
           \/ \E p \in Projects : CreateOrEdit(i, p)
           \/ \E p \in Projects \cup {Outside} : Move(i, p)
           \/ Delete(i) \/ HideOrShow(i)

Next == \/ Jira
        \/ \E p \in Projects : SetProjectEnabled(p) \/ SyncProject(p)
        \/ StartDetect \/ Detect \/ DetectFails

Spec == Init /\ [][Next]_vars

(* cron starts the hourly and the daily run again and again. *)
FairSpec == /\ Spec
            /\ WF_vars(Detect) /\ SF_vars(StartDetect)
            /\ \A p \in Projects : SF_vars(SyncProject(p))
-----------------------------------------------------------------------------
(* Properties.                                                             *)

(* A row is marked only if, at some instant since the detection began, the *)
(* issue was in no project of the catalog or not to be seen: neither an    *)
(* issue a scan missed, nor one moving between projects, is ever marked    *)
(* (classify, detect_deleted.py:50-55).                                    *)
MarkedWasAway ==
    [][\A i \in Issues :
          row[i].deleted = "" /\ row'[i].deleted # "" => i \in away]_vars

(* If Jira and the whitelist rested during a detection, each row it leaves *)
(* shown in a project it scanned is an issue Jira has there (5.6).         *)
DetectionIsExact ==
    [][MarkDeleted /\ ~stirred =>
          \A p \in enabled : Shown(row', p) \subseteq Visible(p)]_vars

(* Once Jira rests, an issue it has in an enabled project is shown there,  *)
(* and one it does not have is not shown in any (5.2, 5.6).  That an issue *)
(* is shown again when the token may see it again is CollectedIsShown's.   *)
Placed == \A i \in Issues : \A p \in enabled :
    /\ i \in Visible(p) \ wasHidden => i \in Shown(row, p)
    /\ i \in Shown(row, p) => i \in Visible(p)

EventuallyPlaced == <>[]Placed

(* Whatever a search returns is shown afterwards: the load always clears   *)
(* deleted_at and delete_reason (design.md 1186).                          *)
CollectedIsShown ==
    [][\A p \in Projects : SyncProject(p) => Found(p) \subseteq Shown(row', p)]_vars
-----------------------------------------------------------------------------
(* The inductive invariant behind MarkedWasAway and DetectionIsExact.      *)

(* Between detections nothing is left of the last one. *)
Resting == /\ pc = "idle" => tx = row /\ verdicts = NoVerdicts /\ candidates = {} /\ todo = {}
           /\ pc = "scan" => candidates = {}

(* Whoever is out of sight during a detection is known to have been away,  *)
(* and no verdict is given of anyone else.                                 *)
Witnessed == /\ pc # "idle" => \A i \in Issues : place[i] \notin Projects \/ i \in hidden => i \in away
             /\ \A i \in Issues : verdicts[i] # "" => i \in away

(* Before the end a detection only clears marks. *)
OnlyCleared == \A i \in Issues : tx[i].deleted # "" => tx[i].deleted = row[i].deleted

(* An undisturbed detection has a verdict, or still a question, about each *)
(* issue shown in a project it has scanned that Jira does not have there.  *)
Asked == pc # "idle" /\ ~stirred =>
            \A p \in enabled \ todo :
                Shown(tx, p) \subseteq Visible(p) \cup candidates \cup {i \in Issues : verdicts[i] # ""}

DetectInv == TypeOK /\ Resting /\ Witnessed /\ OnlyCleared /\ Asked
=============================================================================
