----------------------------- MODULE FieldProfile -----------------------------
(***************************************************************************)
(* The daily pipeline/profile_fields.py: how many issues of each project   *)
(* have a value in each field, and the chart axes offered from that.  The  *)
(* whole profile is one transaction; between two of them issues come, go,  *)
(* move between projects, and gain and lose values.                        *)
(***************************************************************************)
EXTENDS Integers, FiniteSets

CONSTANTS
    Projects,       \* the projects of the instance
    Issues,
    Columns,        \* fields of SYSTEM_FIELD_MAP, a column of TEST_JIRA_ISSUE
    EavFields,      \* fields whose values are rows of TEST_ISSUE_FIELD_VALUE
    Vals,
    Dimensions,     \* the fields with is_dimension = 'Y'
    MaxChanges      \* bound on the changes between profiles

Fields == Columns \cup EavFields

ASSUME FieldAssumption == /\ Columns \cap EavFields = {} /\ Dimensions \subseteq Fields
                          /\ IsFiniteSet(Issues) /\ IsFiniteSet(Vals)
                          /\ MaxChanges \in Nat

VARIABLES
    project,    \* project_id of each issue, "" if there is no row
    deleted,    \* the issues with deleted_at
    value,      \* the values of each issue in each field; a column has one at most
    catalog,    \* the fields TEST_JIRA_FIELD has
    profile,    \* TEST_JIRA_PROJECT_FIELD, NoRow where it has none
    profiled,   \* whether nothing changed since the last profile
    changes

vars == <<project, deleted, value, catalog, profile, profiled, changes>>

NoRow  == [issues |-> -1, distinct |-> -1]
Counts == [issues : 0 .. Cardinality(Issues), distinct : 0 .. Cardinality(Vals)]

TypeOK ==
    /\ project \in [Issues -> Projects \cup {""}] /\ deleted \subseteq Issues
    /\ value \in [Issues -> [Fields -> SUBSET Vals]]
    /\ \A i \in Issues, f \in Columns : Cardinality(value[i][f]) <= 1
    /\ catalog \subseteq Fields
    /\ profile \in [Projects -> [Fields -> Counts \cup {NoRow}]]
    /\ profiled \in BOOLEAN /\ changes \in 0 .. MaxChanges
-----------------------------------------------------------------------------
(* What collection and deletion do to the tables between two profiles.     *)

Changing == changes < MaxChanges /\ changes' = changes + 1 /\ profiled' = FALSE

(* upsert_issues and replace_field_values: one value more or fewer. *)
CollectIssue(i, p, f, v) ==
    /\ Changing
    /\ f \in catalog
    /\ project' = [project EXCEPT ![i] = p]
    /\ deleted' = deleted \ {i}
    /\ \E V \in {{}, {v}} \cup (IF f \in EavFields THEN {value[i][f] \cup {v}} ELSE {}) :
          value' = [value EXCEPT ![i][f] = V]
    /\ UNCHANGED <<catalog, profile>>

MarkDeleted(i) ==
    /\ Changing
    /\ project[i] # "" /\ i \notin deleted
    /\ deleted' = deleted \cup {i}
    /\ UNCHANGED <<project, value, catalog, profile>>

SyncCatalog(f) ==
    /\ Changing
    /\ f \notin catalog
    /\ catalog' = catalog \cup {f}
    /\ UNCHANGED <<project, deleted, value, profile>>
-----------------------------------------------------------------------------
(* profile_fields.                                                         *)

(* Mutant: the counts of yesterday stay where today has none. *)
ResetNothing(t) == t

(* RESET_COUNTS: the rows stay. *)
Reset(t) == [p \in Projects |-> [f \in Fields |->
                IF t[p][f] = NoRow THEN NoRow ELSE [issues |-> 0, distinct |-> 0]]]

Counted(p) == {i \in Issues : project[i] = p /\ i \notin deleted}

(* COUNT(DISTINCT issue_id) or COUNT(column), and the distinct values. *)
Having(p, f) == {i \in Counted(p) : value[i][f] # {}}

CountOf(p, f) == [issues   |-> Cardinality(Having(p, f)),
                  distinct |-> Cardinality(UNION {value[i][f] : i \in Having(p, f)})]

(* MERGE_EAV_COUNTS: a group for each project and field with rows. *)
MergeEav(t) == [p \in Projects |-> [f \in Fields |->
                   IF f \in EavFields /\ Having(p, f) # {} THEN CountOf(p, f) ELSE t[p][f]]]

(* Mutant: the MERGE does not insert. *)
MergeColumnsExisting(t) == [p \in Projects |-> [f \in Fields |->
    IF t[p][f] # NoRow /\ f \in Columns \cap catalog THEN CountOf(p, f) ELSE t[p][f]]]

(* MERGE_COLUMN_COUNTS: for each project the scan found, every column of   *)
(* the map whose field the catalog has, values or not.                     *)
MergeColumns(t) == [p \in Projects |-> [f \in Fields |->
                       IF f \in Columns \cap catalog /\ Counted(p) # {}
                       THEN CountOf(p, f) ELSE t[p][f]]]

ProfileFields ==
    /\ profile' = MergeColumns(MergeEav(Reset(profile)))
    /\ profiled' = TRUE
    /\ UNCHANGED <<project, deleted, value, catalog, changes>>

(* axis_candidates *)
AxisCandidates(p) == {f \in Dimensions : profile[p][f] # NoRow}
-----------------------------------------------------------------------------
Init ==
    /\ project = [i \in Issues |-> ""] /\ deleted = {}
    /\ value = [i \in Issues |-> [f \in Fields |-> {}]]
    /\ catalog = {}
    /\ profile = [p \in Projects |-> [f \in Fields |-> NoRow]]
    /\ profiled = TRUE /\ changes = 0

Next ==
    \/ \E i \in Issues : \/ MarkDeleted(i)
                         \/ \E p \in Projects, f \in Fields, v \in Vals : CollectIssue(i, p, f, v)
    \/ \E f \in Fields : SyncCatalog(f)
    \/ ProfileFields

Spec == Init /\ [][Next]_vars
-----------------------------------------------------------------------------
(* Properties.                                                             *)

(* After a profile every row is right: a project's issues that are not     *)
(* deleted and have a value, whatever moved, vanished or was emptied since *)
(* the last one, and whichever of the three statements wrote it last (5.5).*)
Live(p, f) == {i \in Issues : project[i] = p /\ i \notin deleted /\ value[i][f] # {}}

ProfileIsExact ==
    profiled => \A p \in Projects, f \in Fields :
        profile[p][f] # NoRow =>
            /\ profile[p][f].issues = Cardinality(Live(p, f))
            /\ profile[p][f].distinct =
                  Cardinality({v \in Vals : \E i \in Live(p, f) : v \in value[i][f]})

(* A dimension in which some issue of the project has a value is offered. *)
NoAxisIsMissing ==
    profiled => \A p \in Projects, f \in Dimensions :
        Live(p, f) # {} => f \in AxisCandidates(p)
=============================================================================
