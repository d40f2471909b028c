------------------------------ MODULE SyncRun ------------------------------
(***************************************************************************)
(* One Jira instance and its sync run (pipeline/runner.py, with the parts  *)
(* of sync_issues.py, derive_history.py, repository/sync.py and pool.py    *)
(* that decide what is committed, when, and what the next run will redo).  *)
(*                                                                         *)
(* An action is one database transaction of the run, or one step of Jira,  *)
(* of an administrator or of the machine between two transactions.  The    *)
(* payload of an issue is identified by its `updated' time and its key.    *)
(***************************************************************************)
EXTENDS Integers, FiniteSets

CONSTANTS
    Projects,       \* the projects of the instance
    Issues,         \* jira_issue_id values; their order breaks ties of `updated'
    ProjectOf,      \* the project of each issue
    Names,          \* the keys a project may bear
    FirstName,
    Kinds,          \* the value_kind a custom field may have
    FirstKind,
    PageSize,       \* maxResults as the server answers it
    Batch,          \* issues per commit of derive_history
    Overlap,        \* OVERLAP of sync_issues.py
    Minute,         \* ticks of the clock in the minute JQL truncates to
    Lag,            \* how late an edit may become visible to a search
    Unparsable,     \* the <<issue, updated>> on which parse_issue raises
    LiveEdits,      \* may Jira change while a run is under way?
    Toggles,        \* may `project enable | disable' be used?
    MaxClock,       \* bound on the Jira clock
    MaxFailures,    \* bound on the exceptions the runner handles
    MaxCrashes      \* bound on the deaths of the process

ASSUME IssuesAssumption   == Issues \subseteq Nat /\ IsFiniteSet(Issues)
ASSUME ProjectAssumption  == ProjectOf \in [Issues -> Projects]
ASSUME CatalogAssumption  == FirstName \in Names /\ FirstKind \in Kinds
ASSUME PagingAssumption   == PageSize \in Nat \ {0} /\ Batch \in Nat \ {0}
ASSUME ClockAssumption    == /\ Overlap \in Nat /\ Minute \in Nat \ {0}
                             /\ Lag \in Nat /\ MaxClock \in Nat
ASSUME FaultAssumption    == /\ LiveEdits \in BOOLEAN /\ Toggles \in BOOLEAN
                             /\ MaxFailures \in Nat /\ MaxCrashes \in Nat

VARIABLES
    updated,    \* Jira: the `updated' time of each issue, 0 before its creation
    clock,      \* Jira: the newest `updated' time
    keyOf,      \* Jira: the key of each project
    kindOf,     \* Jira: the kind of the custom field
    enabled,    \* TEST_JIRA_PROJECT.is_enabled, which no run ever writes
    db,         \* the committed tables
    tx,         \* the tables as the open transaction of the run sees them
    pc,         \* where the run is; "idle" when none holds the lock
    dry,        \* --dry-run: the connection is a ReadOnlyConnection
    todo,       \* the projects the run still has to sync
    pend,       \* the projects whose request_full_resync is still to be called
    cur,        \* the project being synced
    full, since,        \* what read_watermark returned for it
    fieldKind,  \* the kind in field_index, fetched by sync_issues
    startAt,    \* the offset of the next page
    maxUpdated, \* SyncResult.max_updated, 0 for None
    changed,    \* SyncResult.changed_issue_ids
    left,       \* those the HISTORY or FIRST_DONE loop has still to visit
    failures, crashes,
    torn,       \* history: the issues a process loaded and had not derived when
                \* it died, and that no run has derived since
    overtaken,  \* history: the issues that an edit brought behind the offset of a
                \* search before it had read them, and that no run has loaded since
    missed      \* history: the outdated issues whose full resync a dying process
                \* had not requested yet, or that were enabled too late for it,
                \* and that no run has loaded since

jiraVars  == <<updated, clock, keyOf, kindOf>>
lossVars  == <<crashes, torn, overtaken>>
faultVars == <<failures, lossVars, missed>>
searchVars == <<cur, full, since, fieldKind, startAt, maxUpdated, changed, left>>
runVars   == <<pc, dry, todo, pend, searchVars>>
vars      == <<jiraVars, enabled, db, tx, runVars, faultVars>>

Never  == 0                                    \* a NULL time
NoRow  == [upd |-> Never, key |-> "", kind |-> ""]
Rows   == [upd : Nat, key : Names \cup {""}, kind : Kinds \cup {""}]

(* TEST_JIRA_ISSUE with its raw payload, EAV values and changelog (one     *)
(* transaction writes them all), the payload version the field history and *)
(* first_done_at were computed from, TEST_SYNC_WATERMARK and the catalog.  *)
Tables == [stored : [Issues -> Rows], hist : [Issues -> Rows], done : [Issues -> Rows],
           wm : [Projects -> Nat], flag : [Projects -> BOOLEAN],
           key : [Projects -> Names], kind : Kinds]

InTheRun == {"pages", "dry_done", "history", "first_done", "mark"}

TypeOK ==
    /\ updated \in [Issues -> Nat] /\ clock \in Nat
    /\ keyOf \in [Projects -> Names] /\ kindOf \in Kinds
    /\ enabled \subseteq Projects
    /\ db \in Tables /\ tx \in Tables
    /\ pc \in {"idle", "catalog", "loop"} \cup InTheRun
    /\ dry \in BOOLEAN
    /\ todo \subseteq Projects /\ pend \subseteq Projects
    /\ pc \in InTheRun => cur \in Projects
    /\ full \in BOOLEAN /\ since \in Nat
    /\ fieldKind \in Kinds \cup {""}
    /\ startAt \in Nat /\ maxUpdated \in Nat
    /\ changed \subseteq Issues /\ left \subseteq changed
    /\ failures \in Nat /\ crashes \in Nat
    /\ torn \subseteq Issues /\ overtaken \subseteq Issues /\ missed \subseteq Issues

(* The history and first_done_at of i were computed from the row it has. *)
Fresh(t, i) == t.hist[i] = t.stored[i] /\ t.done[i] = t.stored[i]

(* A row stored under a key its project no longer bears in the catalog, or *)
(* of a project in W with its EAV values stored under another value_kind   *)
(* than the catalog shows.                                                 *)
Outdated(i, W) ==
    /\ db.stored[i] # NoRow
    /\ \/ db.stored[i].key # db.key[ProjectOf[i]]
       \/ ProjectOf[i] \in W /\ db.stored[i].kind # db.kind
-----------------------------------------------------------------------------
(* The transaction.                                                        *)

(* Mutant: the connection of a dry run commits like any other. *)
CommitAlways(t) == tx' = t /\ db' = t

(* conn.commit() after the writes that give t: ReadOnlyConnection swallows it. *)
Commit(t) == /\ tx' = t
             /\ db' = IF dry THEN db ELSE t

ForgetProject ==
    /\ cur' = "" /\ full' = FALSE /\ since' = Never /\ fieldKind' = ""
    /\ startAt' = 0 /\ maxUpdated' = Never /\ changed' = {} /\ left' = {}

(* The process ends: the open transaction is rolled back, its locals are gone. *)
EndRun == /\ pc' = "idle" /\ dry' = FALSE /\ todo' = {} /\ pend' = {}
          /\ ForgetProject
-----------------------------------------------------------------------------
(* The search.                                                             *)

(* The literal of build_jql has no seconds. *)
JqlStart(s) == s - (s % Minute)

Matches(p, s) ==
    {i \in Issues : ProjectOf[i] = p /\ updated[i] > 0 /\ updated[i] >= JqlStart(s)}

(* ORDER BY updated ASC, and the place of an issue in the answer. *)
Before(i, j) == updated[i] < updated[j] \/ (updated[i] = updated[j] /\ i < j)
Rank(i, S)   == Cardinality({j \in S : Before(j, i)})

(* What the pages so far had of the answer, as it is now. *)
Read == {i \in Matches(cur, since) : Rank(i, Matches(cur, since)) < startAt}
-----------------------------------------------------------------------------
(* Jira and the administrator.                                             *)

MayEdit == LiveEdits \/ pc = "idle"

(* An issue is created or edited.  A search may see it late, so its time   *)
(* may be up to Lag behind the newest one already visible.  It leaves its  *)
(* place in a search under way, and those after it move forward.           *)
EditIssue(i) ==
    /\ MayEdit
    /\ \E t \in (clock - Lag + 1) .. (clock + 1) :
          /\ t > updated[i] /\ t > Overlap /\ t <= MaxClock
          /\ updated' = [updated EXCEPT ![i] = t]
          /\ clock' = IF t > clock THEN t ELSE clock
    /\ UNCHANGED <<keyOf, kindOf, enabled, db, tx, runVars, failures, crashes, torn, missed>>
    /\ overtaken' = IF pc = "pages" /\ ~dry
                    THEN overtaken \cup {j \in Read' : j = i \/ j \notin Read}
                    ELSE overtaken

RenameProject(p) ==
    /\ MayEdit
    /\ \E k \in Names \ {keyOf[p]} : keyOf' = [keyOf EXCEPT ![p] = k]
    /\ UNCHANGED <<updated, clock, kindOf, enabled, db, tx, runVars, faultVars>>

ChangeKind ==
    /\ MayEdit
    /\ \E k \in Kinds \ {kindOf} : kindOf' = k
    /\ UNCHANGED <<updated, clock, keyOf, enabled, db, tx, runVars, faultVars>>

(* `project enable' and `project disable' commit on a connection of their own. *)
SetProjectEnabled(p) ==
    /\ Toggles
    /\ enabled' = IF p \in enabled THEN enabled \ {p} ELSE enabled \cup {p}
    /\ missed' = missed \cup {i \in Issues : Outdated(i, enabled') /\ ~Outdated(i, enabled)}
    /\ UNCHANGED <<jiraVars, db, tx, runVars, failures, lossVars>>
-----------------------------------------------------------------------------
(* The instance: lock, catalog, queued resyncs.                            *)

(* `sync', with or without --dry-run and --project, under flock -n. *)
StartRun(d, asked) ==
    /\ pc = "idle"
    /\ pc' = "catalog" /\ dry' = d /\ todo' = asked
    /\ UNCHANGED <<jiraVars, enabled, db, tx, pend, searchVars, faultVars>>

RenamedSince(t) == {p \in Projects : t.key[p] # keyOf[p]}

(* Mutant: only what --project asked for is queued. *)
OwedResyncOfAsked(t) ==
    todo \cap (RenamedSince(t) \cup (IF t.kind # kindOf THEN enabled ELSE {}))

(* Which projects the catalog step of the run owes a full resync. *)
OwedResync(t) ==
    RenamedSince(t) \cup (IF t.kind # kindOf THEN enabled ELSE {})

(* sync_catalog, get_statuses, commit; then enabled_projects and --project. *)
SyncCatalog ==
    /\ pc = "catalog"
    /\ Commit([tx EXCEPT !.key = keyOf, !.kind = kindOf])
    /\ pend' = OwedResync(tx)
    /\ todo' = todo \cap enabled
    /\ pc' = "loop"
    /\ UNCHANGED <<jiraVars, enabled, dry, searchVars, faultVars>>

(* The catalog step raises: rollback, FAILED, and the run is over. *)
CatalogFails ==
    /\ pc = "catalog" /\ failures < MaxFailures
    /\ tx' = db /\ UNCHANGED db
    /\ failures' = failures + 1
    /\ EndRun
    /\ UNCHANGED <<jiraVars, enabled, lossVars, missed>>

RequestFullResync(p) ==
    /\ pc = "loop" /\ p \in pend
    /\ Commit([tx EXCEPT !.flag[p] = TRUE])
    /\ pend' = pend \ {p}
    /\ UNCHANGED <<jiraVars, enabled, pc, dry, todo, searchVars, faultVars>>
-----------------------------------------------------------------------------
(* sync_issues.                                                            *)

(* read_watermark, start_run, and the get_fields of sync_issues. *)
BeginProject(p) ==
    /\ pc = "loop" /\ pend = {} /\ p \in todo
    /\ todo' = todo \ {p}
    /\ cur' = p
    /\ full' = tx.flag[p]
    /\ since' = IF tx.flag[p] THEN Never ELSE tx.wm[p]
    /\ fieldKind' = kindOf
    /\ pc' = "pages"
    /\ startAt' = 0 /\ maxUpdated' = Never /\ changed' = {} /\ left' = {}
    /\ UNCHANGED <<jiraVars, enabled, db, tx, dry, pend, faultVars>>

(* Mutant: the offset is counted from one. *)
PageAtFromOne(S, k) == {i \in S : k < Rank(i, S) /\ Rank(i, S) <= k + PageSize}

(* What Jira answers to the query at offset k when the query matches S. *)
PageAt(S, k) == {i \in S : k <= Rank(i, S) /\ Rank(i, S) < k + PageSize}

(* The payload is the one whose hash TEST_ISSUE_RAW holds. *)
SameHash(i) == /\ tx.stored[i].upd = updated[i]
               /\ tx.stored[i].key = keyOf[ProjectOf[i]]

(* Mutant: a full resync trusts the hash too. *)
SkipsAlways(i) == SameHash(i)

Skips(i) == ~full /\ SameHash(i)

(* The rows parse_issue builds, from the field_index of this run. *)
Fetched(i) == [upd |-> updated[i], key |-> keyOf[ProjectOf[i]], kind |-> fieldKind]

Greatest(S) == {t \in S : \A u \in S : u <= t}

AfterSearch == IF dry THEN "dry_done" ELSE "history"

(* One page: fetch, classify by hash, parse, upsert and commit. *)
SyncPage ==
    LET found  == Matches(cur, since)
        page   == PageAt(found, startAt)
        parsed == {i \in page : ~Skips(i) /\ <<i, updated[i]>> \notin Unparsable}
        more   == startAt + PageSize < Cardinality(found)
    IN  /\ pc = "pages" /\ page # {}
        /\ Commit([tx EXCEPT !.stored =
              [i \in Issues |-> IF i \in parsed THEN Fetched(i) ELSE tx.stored[i]]])
        /\ maxUpdated' \in Greatest({maxUpdated} \cup {updated[i] : i \in parsed})
        /\ changed' = changed \cup parsed
        /\ startAt' = startAt + PageSize
        /\ pc' = IF more THEN "pages" ELSE AfterSearch
        /\ left' = IF more THEN {} ELSE changed'
        /\ missed' = IF dry THEN missed ELSE missed \ parsed
        /\ overtaken' = IF dry THEN overtaken ELSE overtaken \ parsed
        /\ UNCHANGED <<jiraVars, enabled, dry, todo, pend, cur, full, since, fieldKind,
                       failures, crashes, torn>>

(* A page without issues ends the search. *)
EmptyPage ==
    /\ pc = "pages" /\ PageAt(Matches(cur, since), startAt) = {}
    /\ pc' = AfterSearch
    /\ left' = changed
    /\ UNCHANGED <<jiraVars, enabled, db, tx, dry, todo, pend, cur, full, since, fieldKind,
                   startAt, maxUpdated, changed, faultVars>>

(* --dry-run: rollback, and on to the next project. *)
DryRunDone ==
    /\ pc = "dry_done"
    /\ tx' = db /\ UNCHANGED db
    /\ pc' = "loop" /\ ForgetProject
    /\ UNCHANGED <<jiraVars, enabled, dry, todo, pend, faultVars>>
-----------------------------------------------------------------------------
(* derive_history, update_first_done_at, the watermark.                    *)

Chunks(S) == {c \in SUBSET S : Cardinality(c) = Batch \/ (c = S /\ Cardinality(S) < Batch)}

(* One chunk of changed issues: histories replaced from the stored rows.  *)
DeriveHistory ==
    \E c \in Chunks(left) :
        /\ pc = "history"
        /\ Commit([tx EXCEPT !.hist =
              [i \in Issues |-> IF i \in c THEN tx.stored[i] ELSE tx.hist[i]]])
        /\ pc' = IF left = c THEN "first_done" ELSE "history"
        /\ left' = IF left = c THEN changed ELSE left \ c
        /\ UNCHANGED <<jiraVars, enabled, dry, todo, pend, cur, full, since, fieldKind,
                       startAt, maxUpdated, changed, faultVars>>

UpdateFirstDoneAt ==
    \E c \in Chunks(left) :
        /\ pc = "first_done"
        /\ Commit([tx EXCEPT !.done =
              [i \in Issues |-> IF i \in c THEN tx.hist[i] ELSE tx.done[i]]])
        /\ pc' = IF left = c THEN "mark" ELSE "first_done"
        /\ left' = left \ c
        /\ torn' = torn \ c
        /\ UNCHANGED <<jiraVars, enabled, dry, todo, pend, cur, full, since, fieldKind,
                       startAt, maxUpdated, changed, failures, crashes, overtaken, missed>>

(* Mutants: None is not told from a time; the overlap is forgotten. *)
NextWatermarkOfNone(max, previous) == max - Overlap
NextWatermarkExact(max, previous)  == IF max = Never THEN previous ELSE max

NextWatermark(max, previous) == IF max = Never THEN previous ELSE max - Overlap

Nvl(a, b) == IF a = Never THEN b ELSE a

(* write_watermark, clear_full_resync, commit. *)
FinishProject ==
    /\ pc = "mark"
    /\ Commit([tx EXCEPT !.wm[cur] = Nvl(NextWatermark(maxUpdated, since), tx.wm[cur]),
                         !.flag[cur] = tx.flag[cur] /\ ~full])
    /\ pc' = "loop" /\ ForgetProject
    /\ UNCHANGED <<jiraVars, enabled, dry, todo, pend, faultVars>>
-----------------------------------------------------------------------------
(* Failures.                                                               *)

(* Mutant: what the code did before R31, an emptied watermark. *)
MarkFailedByWatermark == Commit([db EXCEPT !.wm[cur] = Never])

(* Both handlers: rollback, keep the watermark, request a full resync, commit. *)
MarkFailed == Commit([db EXCEPT !.flag[cur] = TRUE])

ProjectFails ==
    /\ pc \in {"pages", "history", "first_done", "mark"} /\ failures < MaxFailures
    /\ MarkFailed
    /\ failures' = failures + 1
    /\ pc' = "loop" /\ ForgetProject
    /\ UNCHANGED <<jiraVars, enabled, dry, todo, pend, lossVars, missed>>

(* JiraAuthError, which only a Jira call raises, also ends the run; db_conn *)
(* then rolls back what a dry run has left in its transaction.             *)
AuthFails ==
    /\ pc = "pages" /\ failures < MaxFailures
    /\ db' = IF dry THEN db ELSE [db EXCEPT !.flag[cur] = TRUE]
    /\ tx' = db'
    /\ failures' = failures + 1
    /\ EndRun
    /\ UNCHANGED <<jiraVars, enabled, lossVars, missed>>

(* db_conn exits: nothing is left to commit, or everything to roll back. *)
FinishRun ==
    /\ pc = "loop" /\ pend = {} /\ todo = {}
    /\ db' = IF dry THEN db ELSE tx
    /\ tx' = db'
    /\ EndRun
    /\ UNCHANGED <<jiraVars, enabled, faultVars>>

(* The process is killed, loses its database session, or raises where no   *)
(* handler stands (between the catalog commit and the project loop).       *)
Crash ==
    /\ pc # "idle" /\ crashes < MaxCrashes
    /\ tx' = db /\ UNCHANGED db
    /\ crashes' = crashes + 1
    /\ torn' = torn \cup {i \in changed : ~dry /\ ~Fresh(db, i)}
    /\ missed' = missed \cup {i \in Issues : ~dry /\ ProjectOf[i] \in pend /\ Outdated(i, enabled)}
    /\ EndRun
    /\ UNCHANGED <<jiraVars, enabled, failures, overtaken>>
-----------------------------------------------------------------------------
Init ==
    /\ updated = [i \in Issues |-> 0] /\ clock = Overlap
    /\ keyOf = [p \in Projects |-> FirstName] /\ kindOf = FirstKind
    /\ enabled = Projects
    /\ db = [stored |-> [i \in Issues |-> NoRow], hist |-> [i \in Issues |-> NoRow],
             done |-> [i \in Issues |-> NoRow],
             wm |-> [p \in Projects |-> Never], flag |-> [p \in Projects |-> FALSE],
             key |-> keyOf, kind |-> kindOf]
    /\ tx = db
    /\ pc = "idle" /\ dry = FALSE /\ todo = {} /\ pend = {}
    /\ cur = "" /\ full = FALSE /\ since = Never /\ fieldKind = ""
    /\ startAt = 0 /\ maxUpdated = Never /\ changed = {} /\ left = {}
    /\ failures = 0 /\ crashes = 0
    /\ torn = {} /\ overtaken = {} /\ missed = {}

Scopes == {Projects} \cup {{p} : p \in Projects}

Step == \/ SyncCatalog
        \/ \E p \in Projects : RequestFullResync(p) \/ BeginProject(p)
        \/ SyncPage \/ EmptyPage \/ DryRunDone
        \/ DeriveHistory \/ UpdateFirstDoneAt
        \/ FinishProject \/ FinishRun

Next == \/ \E i \in Issues : EditIssue(i)
        \/ \E p \in Projects : RenameProject(p) \/ SetProjectEnabled(p)
        \/ ChangeKind
        \/ \E d \in BOOLEAN, s \in Scopes : StartRun(d, s)
        \/ Step
        \/ CatalogFails \/ ProjectFails \/ AuthFails \/ Crash

Spec == Init /\ [][Next]_vars

(* cron starts the plain hourly run again and again, and a run that is not *)
(* killed goes on; dry runs, failures and deaths are never required.       *)
FairSpec == Spec /\ WF_vars(Step) /\ SF_vars(StartRun(FALSE, Projects))
-----------------------------------------------------------------------------
(* Properties.                                                             *)

(* An issue none of whose payloads is beyond parse_issue. *)
Readable(i) == \A u \in Unparsable : u[1] # i

(* A committed row whose history or first_done_at was not computed from it *)
(* is one the run under way is about to visit, or its project is flagged   *)
(* so that the next run bypasses the payload hash (R31, runner.py:126-130),*)
(* or it is among the few that a dying process took along or that an edit  *)
(* during a search kept from being read.                                   *)
HistoryDebt ==
    \A i \in Issues \ (torn \cup overtaken) :
        Readable(i) /\ ~Fresh(db, i) =>
            \/ db.flag[ProjectOf[i]]
            \/ /\ ~dry /\ pc \in {"pages", "history", "first_done"}
               /\ i \in changed

(* An outdated row that can be parsed anew is covered by a queued or       *)
(* requested full resync (runner.py:56-65), unless a death or the whitelist*)
(* came in between.                                                        *)
CatalogDebt ==
    \A i \in Issues \ missed :
        Readable(i) /\ Outdated(i, enabled)
        => db.flag[ProjectOf[i]] \/ ProjectOf[i] \in pend

(* What the next incremental search of a project will not return, because  *)
(* it is older than the committed watermark, is already stored as Jira has *)
(* it, unless it cannot be parsed or an edit kept a search from reading it *)
(* (next_watermark and the overlap, sync_issues.py:45-50).                 *)
Covered(i) ==
    ( /\ 0 < updated[i] /\ updated[i] < JqlStart(db.wm[ProjectOf[i]])
      /\ <<i, updated[i]>> \notin Unparsable )
    => db.stored[i].upd = updated[i]

WatermarkCovers == \A i \in Issues \ overtaken : Covered(i)

(* No issue is skipped for good because others are edited while the pages  *)
(* are read, which design.md 5.1 expects of ORDER BY updated ASC.          *)
NoEditOvertakes == \A i \in Issues : Covered(i)

(* A full resync request is withdrawn only by a step after which every     *)
(* issue Jira has in the project, and that can be parsed, is stored as it  *)
(* is now, under the present key and kind, with its history computed from  *)
(* that row (runner.py:106).                                               *)
Repaired(t, i) ==
    /\ t.stored[i] = [upd |-> updated[i], key |-> t.key[ProjectOf[i]], kind |-> t.kind]
    /\ Fresh(t, i)

ClearedMeansRepaired ==
    [][\A i \in Issues :
          ( /\ db.flag[ProjectOf[i]]
            /\ ~db'.flag[ProjectOf[i]]
            /\ updated[i] > 0 /\ <<i, updated[i]>> \notin Unparsable )
          => Repaired(db', i)]_vars

(* A dry run commits nothing, whatever path it takes (pool.py:29-50).      *)
DryRunLeavesNoTrace == [][dry => db' = db]_vars

(* Every issue of an enabled project is stored as Jira has it, under the   *)
(* present key and kind, with its history.                                 *)
Mirrored == \A i \in Issues :
    ProjectOf[i] \in enabled /\ updated[i] > 0 =>
        /\ db.stored[i] = [upd |-> updated[i], key |-> keyOf[ProjectOf[i]], kind |-> kindOf]
        /\ Fresh(db, i)

(* Once Jira and the whitelist come to rest, cron's runs bring the tables  *)
(* up to date, history included, and they stay so (design.md 5.9).         *)
EventuallyMirrored == <>[][FALSE]_<<jiraVars, enabled>> => <>[]Mirrored
=============================================================================
