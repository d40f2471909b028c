----------------------------- MODULE FieldCatalog -----------------------------
(***************************************************************************)
(* The catalog of fields (pipeline/sync_catalog.py, repository/catalog.py) *)
(* and what a run does with it for one issue: which of the issue's values  *)
(* are stored (sync_issues.py), and to which field each changelog item is  *)
(* attributed (repository/history.py).                                     *)
(*                                                                         *)
(* Jira 10.3 names the field of a changelog item only by a string: the id  *)
(* of a system field, or the name a custom field bore at that time.  Names *)
(* are not unique, and fields come, go and are renamed.                    *)
(***************************************************************************)
EXTENDS Integers, FiniteSets

CONSTANTS
    System,         \* ids of multi-valued system fields, which are stored as
                    \* EAV too; the id is the string in changelog items
    Custom,         \* ids of custom fields
    Names,          \* names a custom field may bear, perhaps a system id
    Cut,            \* each of these names, cut to the width of field_name
    NoField,        \* field_pk NULL
    MaxItems        \* bound on the changelog

Fields == System \cup Custom
AllNames == System \cup Names

ASSUME FieldAssumption == /\ System \cap Custom = {} /\ NoField \notin Fields
                          /\ AllNames \cap (Custom \cup {"", NoField}) = {}
(* Jira trims names: one that was cut is not cut again where it is borne.  *)
ASSUME CutAssumption == /\ DOMAIN Cut = AllNames /\ \A m \in AllNames : Cut[m] # ""
                        /\ \A m \in System : Cut[m] = m
                        /\ \A m \in AllNames : Cut[m] \in AllNames => Cut[Cut[m]] = Cut[m]
ASSUME BoundAssumption == MaxItems \in Nat

VARIABLES
    name,       \* Jira: the name of each field, "" if there is no such field
    values,     \* Jira: the fields the issue has a value for
    items,      \* Jira: the changelog, n -> [field, name]
    idServed,   \* Jira: whether its items carry fieldId
    renamed,    \* whether any field was ever renamed
    catalog,    \* TEST_JIRA_FIELD: field_name of each field, "" if no row
    behind,     \* whether a field ever went before the catalog had it, or the
                \* issue was collected while the catalog was not as Jira was
    pc,         \* "idle", or "synced" between the catalog step and the issue
    hash,       \* the payload the issue was stored from: the items it had
    eav,        \* the fields with rows in TEST_ISSUE_FIELD_VALUE
    fieldPk     \* TEST_ISSUE_CHANGELOG: n -> field_pk, for the items merged

jiraVars == <<name, values, items, idServed, renamed>>
vars == <<jiraVars, catalog, behind, pc, hash, eav, fieldPk>>

Items == [field : Fields, name : AllNames]

TypeOK ==
    /\ name \in [Fields -> AllNames \cup {""}] /\ values \subseteq Fields
    /\ \A n \in DOMAIN items : n \in 1 .. MaxItems /\ items[n] \in Items
    /\ {idServed, renamed, behind} \subseteq BOOLEAN
    /\ catalog \in [Fields -> {Cut[m] : m \in AllNames} \cup {""}]
    /\ pc \in {"idle", "synced"} /\ hash \in 0 .. MaxItems /\ eav \subseteq Fields
    /\ DOMAIN fieldPk = 1 .. hash
    /\ \A n \in 1 .. hash : fieldPk[n] \in Fields \cup {NoField}
-----------------------------------------------------------------------------
(* Jira.                                                                   *)

(* The id is new: Jira does not use one twice. *)
CreateField(f, m) ==
    /\ f \in Custom /\ name[f] = "" /\ catalog[f] = ""
    /\ \A n \in DOMAIN items : items[n].field # f
    /\ name' = [name EXCEPT ![f] = m]
    /\ UNCHANGED <<values, items, idServed, renamed, catalog, behind, pc, hash, eav, fieldPk>>

RenameField(f, m) ==
    /\ f \in Custom /\ name[f] \notin {"", m}
    /\ name' = [name EXCEPT ![f] = m] /\ renamed' = TRUE
    /\ UNCHANGED <<values, items, idServed, catalog, behind, pc, hash, eav, fieldPk>>

(* The field goes with its values; its histories stay. *)
DeleteField(f) ==
    /\ f \in Custom /\ name[f] # ""
    /\ name' = [name EXCEPT ![f] = ""] /\ behind' = (behind \/ catalog[f] = "")
    /\ values' = values \ {f}
    /\ UNCHANGED <<items, idServed, renamed, catalog, pc, hash, eav, fieldPk>>

(* The issue is given a value, or loses it. *)
EditIssue(f) ==
    LET n == Cardinality(DOMAIN items) + 1
    IN  /\ name[f] # "" /\ n <= MaxItems
        /\ values' = IF f \in values THEN values \ {f} ELSE values \cup {f}
        /\ items' = [k \in 1 .. n |-> IF k < n THEN items[k]
                                      ELSE [field |-> f, name |-> name[f]]]
        /\ UNCHANGED <<name, idServed, renamed, catalog, behind, pc, hash, eav, fieldPk>>
-----------------------------------------------------------------------------
(* sync_catalog.                                                           *)

(* upsert_fields: a MERGE of the fields Jira has; no row is ever deleted. *)
Upserted(f) == IF name[f] # "" THEN Cut[name[f]] ELSE catalog[f]

SyncCatalog ==
    /\ pc = "idle"
    /\ catalog' = [f \in Fields |-> Upserted(f)]
    /\ pc' = "synced"
    /\ UNCHANGED <<jiraVars, behind, hash, eav, fieldPk>>
-----------------------------------------------------------------------------
(* The issue.                                                              *)

(* Mutant: fields that share a name are left out of the ids too. *)
FieldPksNamedApart ==
    {f \in Fields : catalog[f] # "" /\ \A g \in Fields \ {f} : catalog[g] # catalog[f]}

(* field_pk_by_field_id: the ids in the catalog. *)
FieldPks == {f \in Fields : catalog[f] # ""}

(* Mutant: of the fields that share a name, any will do. *)
FieldNamesAmbiguous(m) == {f \in FieldPks : catalog[f] = m}

(* field_pk_by_field_name: a name two rows share is left out. *)
FieldNames(m) == {f \in FieldPks : /\ catalog[f] = m
                                   /\ \A g \in FieldPks \ {f} : catalog[g] # m}

(* Mutant: only ids are resolved. *)
ResolveById(item) == IF item.name \in FieldPks THEN {item.name} ELSE {NoField}

(* Mutant: fieldId is not looked at. *)
ResolveByString(item) ==
    CASE item.name \in FieldPks         -> {item.name}
      [] FieldNames(item.name) # {}     -> FieldNames(item.name)
      [] OTHER                          -> {NoField}

(* _resolve_field_pk: by fieldId, by the string as an id, by the name.  The*)
(* string is not cut, the names of the catalog are.                        *)
Resolve(item) ==
    IF idServed /\ item.field \in FieldPks THEN {item.field}
    ELSE IF item.name \in FieldPks         THEN {item.name}
    ELSE IF FieldNames(item.name) # {}     THEN FieldNames(item.name)
    ELSE {NoField}

(* The issue is returned by the search and its payload is new, or the run  *)
(* is a full resync: replace_field_values drops values of fields without a *)
(* field_pk, and upsert_changelog merges every item anew.                  *)
CollectIssue ==
    /\ pc = "synced"
    /\ eav' = values \cap FieldPks
    /\ \E pks \in [DOMAIN items -> Fields \cup {NoField}] :
          /\ \A n \in DOMAIN items : pks[n] \in Resolve(items[n])
          /\ fieldPk' = pks
    /\ hash' = Cardinality(DOMAIN items)
    /\ behind' = (behind \/ \E f \in Fields : name[f] # "" /\ Upserted(f) # catalog[f])
    /\ pc' = "idle"
    /\ UNCHANGED <<jiraVars, catalog>>

(* It is not returned, or its payload is the one whose hash is stored. *)
PassIssue ==
    /\ pc = "synced"
    /\ pc' = "idle"
    /\ UNCHANGED <<jiraVars, catalog, behind, hash, eav, fieldPk>>
-----------------------------------------------------------------------------
Init ==
    /\ name = [f \in Fields |-> IF f \in System THEN f ELSE ""]
    /\ values = {} /\ items = <<>>
    /\ idServed \in BOOLEAN /\ renamed = FALSE /\ behind = FALSE
    /\ catalog = [f \in Fields |-> ""]
    /\ pc = "idle" /\ hash = 0 /\ eav = {} /\ fieldPk = <<>>

Next == \/ \E f \in Fields : \/ \E m \in Names : CreateField(f, m) \/ RenameField(f, m)
                             \/ DeleteField(f) \/ EditIssue(f)
        \/ SyncCatalog \/ CollectIssue \/ PassIssue

Spec == Init /\ [][Next]_vars
-----------------------------------------------------------------------------
(* Properties.                                                             *)

(* An item is attributed to the field it is about, or to none, if the      *)
(* catalog was never behind and either Jira serves ids or no name changed: *)
(* a string that could mean two fields is resolved to neither              *)
(* (history.py:53-54), and a name the catalog holds cut is taken for no    *)
(* other field's.  Only a custom field that bears the id of a system field *)
(* is taken for that one where Jira serves no ids (history.py:60-61).      *)
NeverMisattributed ==
    ~behind /\ (idServed \/ ~renamed) =>
        \A n \in 1 .. hash :
            \/ fieldPk[n] \in {items[n].field, NoField}
            \/ ~idServed /\ fieldPk[n] = items[n].name

(* An item of a field in the catalog is left without a field_pk only where *)
(* its string is ambiguous among the fields the catalog ever saw, or too   *)
(* long for the catalog on a server that serves no ids.                    *)
UnattributedIsAmbiguous ==
    ~behind /\ ~renamed => \A n \in 1 .. hash :
        fieldPk[n] = NoField /\ catalog[items[n].field] # "" =>
            \/ \E f \in Fields \ {items[n].field} : catalog[f] = items[n].name
            \/ Cut[items[n].name] # items[n].name /\ ~idServed

(* The hash of a payload is kept only with all of its values, if the       *)
(* catalog was not behind: an issue that will be skipped has none left to  *)
(* store (sync_issues.py:108-111).                                         *)
SkipIsSound == ~behind /\ hash = Cardinality(DOMAIN items) => values \subseteq eav

(* Where Jira serves ids and the catalog was not behind, an item once      *)
(* attributed stays so, whatever its field is called since (design.md 889).*)
AttributionIsKept ==
    [][idServed /\ ~behind =>
          \A n \in 1 .. hash : fieldPk[n] # NoField => fieldPk'[n] = fieldPk[n]]_vars
=============================================================================
