----------------------------- MODULE FieldHistory -----------------------------
(***************************************************************************)
(* One field of one issue, and what pipeline/derive_history.py makes of    *)
(* its changelog: the intervals of TEST_ISSUE_FIELD_HISTORY, the intervals *)
(* of the synthetic field status_category, and first_done_at.              *)
(*                                                                         *)
(* Jira's side keeps the value the field had at every instant, beside the  *)
(* changelog it serves, so that the derived history can be compared with   *)
(* what really happened.  The times at which a run collects and derives    *)
(* are arbitrary; which run does so is the matter of module SyncRun.       *)
(***************************************************************************)
EXTENDS Text, FiniteSets

CONSTANTS
    Values,         \* the texts the field may hold, None excluded
    None,           \* JSON null, SQL NULL
    ColumnBytes,    \* MAX_SHORT_NAME_BYTES, the width of a fixed column
    ValueBytes,     \* MAX_VAL_STR_BYTES, of val_str
    LogBytes,       \* MAX_CHANGELOG_STR_BYTES, of from_str and to_str
    CategoryOf,     \* /rest/api/2/status: the category of a status name
    FirstText,      \* of a value of several texts, the one stored first
    Storages,       \* how the field is stored, of the kinds below
    Inline,         \* how many histories, oldest first, the server ever serves
    MaxItems,       \* bound on the changelog
    MaxTime,        \* bound on the clock
    Sentinel        \* 9999-12-31

ValuesOrNone == Values \cup {None}
Categories == {"new", "indeterminate", "done", "undefined"}

ASSUME ValueAssumption == /\ None \notin Seq(DOMAIN Bytes)
                          /\ Values \subseteq Seq(DOMAIN Bytes)
                          /\ {ColumnBytes, ValueBytes, LogBytes} \subseteq Nat
                          /\ \A c \in DOMAIN Bytes : Bytes[c] <= ColumnBytes
                          /\ ColumnBytes <= ValueBytes /\ ValueBytes <= LogBytes
                          /\ CategoryOf \in [DOMAIN CategoryOf -> Categories]
                          /\ FirstText \in [Values -> Seq(DOMAIN Bytes)]
ASSUME BoundAssumption == /\ Inline \in Nat /\ MaxItems \in Nat
                          /\ MaxTime \in Nat \ {0} /\ Sentinel \in Nat /\ MaxTime < Sentinel

(* COLUMN: one of the seven columns load_issue_states reads.  UNREAD: any  *)
(* other (created, updated, resolutiondate, duedate).  STR, NUM, DATE: the *)
(* one row of TEST_ISSUE_FIELD_VALUE has val_str, val_num or val_date; an  *)
(* array of numbers or dates is like one of them.  MULTI: an array, of     *)
(* which the row of val_seq 0 has a part only, as it has of an option with *)
(* a child, while the changelog has the text of the whole.                 *)
Kinds == {"COLUMN", "UNREAD", "STR", "NUM", "DATE", "MULTI"}
ASSUME StorageAssumption == Storages \subseteq Kinds

VARIABLES
    storage,    \* storage_kind and value_kind of the field
    created,    \* the `created' of the issue, which a migration may set late
    now,        \* the clock of Jira
    value,      \* Jira: the value of the field
    truth,      \* Jira: the value it had at the end of each past instant
    log,        \* Jira: the histories of the field, [id, at, from, to]
    silent,     \* Jira: whether the value ever changed without a history
    phase,      \* the next step of the run for this issue
    rows,       \* TEST_ISSUE_CHANGELOG
    current,    \* the value in the payload of the last collection
    asOf,       \* the instant of that collection, 0 if none
    hist,       \* TEST_ISSUE_FIELD_HISTORY for the field
    cats,       \* the same for status_category
    firstDone   \* first_done_at, 0 for NULL

jiraVars == <<storage, created, now, value, truth, log, silent>>
dbVars   == <<rows, current, asOf, hist, cats, firstDone>>
vars     == <<jiraVars, phase, dbVars>>

Times == 0 .. MaxTime
Items == [id : 1 .. MaxItems, at : Times, from : ValuesOrNone, to : ValuesOrNone]
Intervals(V) == [from : Times, to : Times \cup {Sentinel}, val : V]

(* A value as a column of that width holds it: Oracle takes '' for NULL. *)
Stored(v, width) ==
    LET cut == Truncate(v, width)
    IN  IF v = None \/ cut = <<>> THEN None ELSE cut

-----------------------------------------------------------------------------
(* Jira.                                                                   *)

Tick ==
    /\ now < MaxTime
    /\ now' = now + 1
    /\ truth' = [truth EXCEPT ![now + 1] = value]
    /\ UNCHANGED <<storage, created, value, log, silent, phase, dbVars>>

(* An instant that a run has read is over: what happens then is later. *)
Becomes(v) ==
    /\ v # value /\ asOf < now
    /\ value' = v
    /\ truth' = [truth EXCEPT ![now] = v]

Edit(v) ==
    /\ Cardinality(log) < MaxItems
    /\ Becomes(v)
    /\ log' = log \cup {[id |-> Cardinality(log) + 1, at |-> now, from |-> value, to |-> v]}
    /\ UNCHANGED <<storage, created, now, silent, phase, dbVars>>

(* A migration or an administrator changes the value and leaves no history. *)
EditSilently(v) ==
    /\ ~silent /\ silent' = TRUE
    /\ Becomes(v)
    /\ UNCHANGED <<storage, created, now, log, phase, dbVars>>

Served == {h \in log : h.id <= Inline}
-----------------------------------------------------------------------------
(* sync_issues.                                                            *)

(* The row of a history. *)
Row(h) == [h EXCEPT !.from = Stored(@, LogBytes), !.to = Stored(@, LogBytes)]

(* upsert_changelog merges by (jira_history_id, item_seq): rows never go.  *)
Collect ==
    /\ phase = "idle" /\ created <= now
    /\ rows' = rows \cup {Row(h) : h \in Served}
    /\ current' = value
    /\ asOf' = now
    /\ phase' = "history"
    /\ UNCHANGED <<jiraVars, hist, cats, firstDone>>
-----------------------------------------------------------------------------
(* derive_history.                                                         *)

(* What val_str, or the column, shows of v: SQL NULL of a number or a      *)
(* date, and of several texts the first.                                   *)
Seen(v) == IF v = None \/ storage \in {"NUM", "DATE"} THEN None
           ELSE IF storage = "MULTI" THEN FirstText[v] ELSE v

(* A column that is read is a current value even if it is NULL, an EAV     *)
(* field has one only if it has a row, a column that is not read never.    *)
HasCurrent(v) == storage = "COLUMN" \/ (storage # "UNREAD" /\ v # None)

(* What load_issue_states and _merge_eav_current_values find of v.         *)
Loaded(v) == Stored(Seen(v), IF storage = "COLUMN" THEN ColumnBytes ELSE ValueBytes)

(* The orders in which `sorted' may leave items with equal keys depend on  *)
(* the order of the SELECT, which does not decide between histories.       *)
Orders(R) == {o \in [R -> 1 .. Cardinality(R)] :
                 \A a, b \in R : /\ a # b => o[a] # o[b]
                                 /\ a.at < b.at => o[a] < o[b]}
LastOf(R, o)  == CHOOSE a \in R : \A b \in R : o[b] <= o[a]
FirstOf(R, o) == CHOOSE a \in R : \A b \in R : o[a] <= o[b]

(* Mutant: a change older than the issue keeps its own time. *)
StampAsIs(h) == h.at

Stamp(h) == IF h.at < created THEN created ELSE h.at

Starts(R) == {created} \cup {Stamp(h) : h \in R}

(* Mutant: the value before the first change is taken from the issue. *)
BoundaryFromCurrent(R, o, s) ==
    LET here == {h \in R : Stamp(h) = s}
    IN  IF here # {} THEN LastOf(here, o).to ELSE Loaded(current)

(* The value that holds from the boundary s on, by the changelog alone. *)
Boundary(R, o, s) ==
    LET here == {h \in R : Stamp(h) = s}
    IN  IF here # {} THEN LastOf(here, o).to
        ELSE IF R # {} THEN FirstOf(R, o).from ELSE Loaded(current)

(* Mutant: a history that ends elsewhere than the issue is believed. *)
EndpointBelieved(R, o, s) == Boundary(R, o, s)

(* The last boundary gives way to the current value, where one is known. *)
Endpoint(R, o, s) == IF HasCurrent(current) THEN Loaded(current) ELSE Boundary(R, o, s)

(* Where an interval that starts at s ends, when the starts are S. *)
EndOf(S, s) ==
    LET later == {u \in S : s < u}
    IN  IF later = {} THEN Sentinel ELSE CHOOSE u \in later : \A w \in later : u <= w

BuildIntervals(R, o) ==
    IF R = {} /\ ~HasCurrent(current)
    THEN {}
    ELSE {[from |-> s, to |-> EndOf(Starts(R), s),
           val |-> Stored(IF EndOf(Starts(R), s) = Sentinel THEN Endpoint(R, o, s)
                                                            ELSE Boundary(R, o, s),
                          ValueBytes)]
             : s \in Starts(R)}

Category(v) == IF v \in DOMAIN CategoryOf THEN CategoryOf[v] ELSE "undefined"

(* Mutant: an interval is dropped when any interval has its category. *)
RunsOnce(I, i) == \E j \in I : j.from < i.from /\ Category(j.val) = Category(i.val)

(* i only continues the category of the interval that ends where it starts. *)
Continues(I, i) == \E j \in I : j.to = i.from /\ Category(j.val) = Category(i.val)

MergeCategories(I) ==
    LET heads == {i \in I : ~Continues(I, i)}
    IN  {[from |-> i.from, to |-> EndOf({j.from : j \in heads}, i.from),
          val |-> Category(i.val)] : i \in heads}

(* replace_history: all rows of the issue are deleted, then inserted. *)
DeriveHistory ==
    /\ phase = "history"
    /\ \E o \in Orders(rows) :
          LET intervals == BuildIntervals(rows, o)
          IN  hist' = intervals /\ cats' = MergeCategories(intervals)
    /\ phase' = "first_done"
    /\ UNCHANGED <<jiraVars, rows, current, asOf, firstDone>>
-----------------------------------------------------------------------------
(* update_first_done_at.                                                   *)

DoneSince == {c.from : c \in {d \in cats : d.val = "done"}}

(* Mutant: the last time the issue was done, not the first. *)
LatestDone == {t \in DoneSince : \A u \in DoneSince : u <= t}

EarliestDone == {t \in DoneSince : \A u \in DoneSince : t <= u}

(* An issue without a done interval is not in the source of the MERGE. *)
UpdateFirstDoneAt ==
    /\ phase = "first_done"
    /\ IF DoneSince = {} THEN UNCHANGED firstDone ELSE firstDone' \in EarliestDone
    /\ phase' = "idle"
    /\ UNCHANGED <<jiraVars, rows, current, asOf, hist, cats>>
-----------------------------------------------------------------------------
Init ==
    /\ storage \in Storages
    /\ created \in 1 .. 2 /\ now = 1
    /\ value \in ValuesOrNone
    /\ truth = [t \in Times |-> value]
    /\ log = {} /\ rows = {} /\ silent = FALSE
    /\ phase = "idle" /\ current = None /\ asOf = 0
    /\ hist = {} /\ cats = {} /\ firstDone = 0

Next == \/ Tick
        \/ \E v \in ValuesOrNone : Edit(v) \/ EditSilently(v)
        \/ Collect \/ DeriveHistory \/ UpdateFirstDoneAt

Spec == Init /\ [][Next]_vars
-----------------------------------------------------------------------------
(* Properties.                                                             *)

FitsIn(v, width) == v = None \/ Size[v] <= width

(* The types, and the widths: no value is longer than the column it is     *)
(* written to, counted in bytes, however it was cut before (ORA-12899,     *)
(* models.py:11-13).                                                       *)
TypeOK ==
    /\ storage \in Storages /\ silent \in BOOLEAN
    /\ created \in 1 .. 2 /\ now \in Times /\ asOf \in Times
    /\ value \in ValuesOrNone /\ current \in ValuesOrNone
    /\ truth \in [Times -> ValuesOrNone]
    /\ log \subseteq Items
    /\ \A r \in rows : /\ \E h \in log : r.id = h.id /\ r.at = h.at
                       /\ FitsIn(r.from, LogBytes) /\ FitsIn(r.to, LogBytes)
    /\ phase \in {"idle", "history", "first_done"}
    /\ hist \subseteq Intervals({i.val : i \in hist})
    /\ \A i \in hist : FitsIn(i.val, ValueBytes)
    /\ FitsIn(Loaded(current), IF storage = "COLUMN" THEN ColumnBytes ELSE ValueBytes)
    /\ cats \subseteq Intervals(Categories)
    /\ firstDone \in Times

Covers(i, t) == i.from <= t /\ t < i.to

(* Every instant from creation on lies in exactly one interval, unless     *)
(* nothing is known of the field, and each interval satisfies the CHECK of *)
(* 04_history.sql: the intervals of build_intervals have no gap, overlap   *)
(* or length zero, whatever the changelog holds.                           *)
Tiles(I) ==
    /\ \A i \in I : created <= i.from /\ i.from < i.to
    /\ I # {} => \A t \in created .. Sentinel - 1 :
                    Cardinality({i \in I : Covers(i, t)}) = 1

HistoryTiles == Tiles(hist)

Derived == phase # "history" /\ asOf > 0

(* Nothing is lost: every history up to the collection was served, no two  *)
(* are of one instant, and the value never changed without one.            *)
Complete == /\ ~silent
            /\ \A h \in log : h.at <= asOf => \E r \in rows : r.id = h.id
            /\ \A g, h \in rows : g.at = h.at => g = h

(* w is what is left of v after any number of cuts: all of it, if it fits  *)
(* everywhere, and otherwise how it begins.                                *)
Shows(w, v) ==
    IF v = None \/ Strip(v) = <<>> THEN w = None
    ELSE LET s == Strip(v)
         IN  /\ w # None /\ w = SubSeq(s, 1, Len(w))
             /\ FitsIn(s, ColumnBytes) => w = s

(* The last value is overwritten by what the code sees of the current one, *)
(* however complete the changelog is.                                      *)
Overwritten == storage \in {"NUM", "DATE", "MULTI"} /\ current # None

(* With nothing lost, the derived history gives at each instant the value  *)
(* the field had at its end (5.3: the clamp, a value cleared, a first      *)
(* value that was NULL), but for one thing: in the last interval of a      *)
(* number or a date of TEST_ISSUE_FIELD_VALUE it gives NULL, and in that   *)
(* of an array its first element.                                          *)
Faithful ==
    Derived /\ Complete /\ hist # {} =>
        \A t \in created .. asOf :
            \E i \in hist : /\ Covers(i, t)
                            /\ Shows(i.val, IF Overwritten /\ i.to = Sentinel
                                            THEN Seen(current) ELSE truth[t])

(* The history ends with what the code sees of the value the issue has,    *)
(* whatever was lost: the chart of today agrees with the issue             *)
(* (derive_history.py:75-83).  Of a text that is all of it, of an array    *)
(* the first element, of a number or a date of an EAV field NULL.  Of an   *)
(* EAV field that was cleared and of a column that is not read the code    *)
(* sees no current value, and the history ends where the changelog does.   *)
EndsAtCurrent ==
    Derived /\ HasCurrent(current) =>
        \E i \in hist : i.to = Sentinel /\ Shows(i.val, Seen(current))

(* The category intervals tile the same time, agree with the status at     *)
(* every instant, and two that meet differ (merge_categories).             *)
CategoriesFollow ==
    /\ Tiles(cats)
    /\ hist # {} => \A i \in hist, c \in cats :
                       (i.from < c.to /\ c.from < i.to) => c.val = Category(i.val)
    /\ \A c, d \in cats : c.to = d.from => c.val # d.val

(* first_done_at is the first instant at which the issue was done, through *)
(* every reopening, and NULL if it never was (5.4); of names that fit the  *)
(* column only, for categories are looked up by the uncut name.            *)
DoneAt == {t \in created .. asOf : Category(truth[t]) = "done"}

IsPlain(v) == v = None \/ (v # <<>> /\ Strip(v) = v /\ FitsIn(v, ColumnBytes))

Plain == \A t \in created .. asOf : IsPlain(truth[t])

FirstDoneIsFirst ==
    phase = "idle" /\ asOf > 0 /\ Complete /\ storage = "COLUMN" /\ Plain =>
        IF DoneAt = {} THEN firstDone = 0
                       ELSE firstDone \in DoneAt /\ \A t \in DoneAt : firstDone <= t
=============================================================================
