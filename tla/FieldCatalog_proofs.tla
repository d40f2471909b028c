-------------------------- MODULE FieldCatalog_proofs --------------------------
(***************************************************************************)
(* How items are attributed to fields and when an issue may be skipped,    *)
(* proved for any fields, names, widths and changelogs.                    *)
(***************************************************************************)
EXTENDS FieldCatalog, FiniteSetTheorems, TLAPS

(* The inductive invariant behind the properties.                          *)

(* The changelog grows, and the issue was stored with a part of it. *)
Grown == /\ \E k \in 0 .. MaxItems : DOMAIN items = 1 .. k
         /\ hash <= Cardinality(DOMAIN items)
         /\ \A f \in values : name[f] # ""

(* Unless it was behind, the catalog has every field the changelog names   *)
(* that is gone, and every field of an item that was stored.               *)
Known == ~behind =>
    /\ \A n \in DOMAIN items : name[items[n].field] # "" \/ catalog[items[n].field] # ""
    /\ \A n \in 1 .. hash : catalog[items[n].field] # ""

(* Until the first renaming a name in a table is the name of the field. *)
Named == ~renamed =>
    /\ \A f \in Fields : name[f] # "" /\ catalog[f] # "" => catalog[f] = Cut[name[f]]
    /\ \A n \in DOMAIN items :
          /\ name[items[n].field] \in {"", items[n].name}
          /\ catalog[items[n].field] \in {"", Cut[items[n].name]}

CatalogInv == /\ TypeOK /\ Grown /\ Known /\ Named
              /\ NeverMisattributed /\ UnattributedIsAmbiguous /\ SkipIsSound
-----------------------------------------------------------------------------
(* The field an item was about, and the string that names it.              *)
About(n) == items[n].field
Text(n)  == items[n].name

(* What the types and the growth of the changelog say of its items.        *)
LEMMA ItemFacts ==
  ASSUME TypeOK, Grown
  PROVE  /\ Cardinality(DOMAIN items) \in Nat /\ Cardinality(DOMAIN items) <= MaxItems
         /\ DOMAIN items = 1 .. Cardinality(DOMAIN items)
         /\ hash \in Nat /\ 1 .. hash \subseteq DOMAIN items
         /\ \A n \in DOMAIN items : About(n) \in Fields /\ Text(n) \in AllNames
<1>1. PICK k \in 0 .. MaxItems : DOMAIN items = 1 .. k
  BY DEF Grown
<1>2. k \in Nat /\ k <= MaxItems
  BY <1>1, BoundAssumption
<1>3. Cardinality(DOMAIN items) = k
  BY <1>1, <1>2, FS_Interval
<1>4. hash \in Nat /\ hash <= k
  <2>1. hash \in 0 .. MaxItems /\ hash <= Cardinality(DOMAIN items)
    BY Zenon DEF TypeOK, Grown
  <2> QED  BY <1>3, <2>1, BoundAssumption
<1>5. \A n \in DOMAIN items : About(n) \in Fields /\ Text(n) \in AllNames
  BY DEF TypeOK, Items, About, Text
<1> QED  BY <1>1, <1>2, <1>3, <1>4, <1>5

(* A name is neither an id of a custom field nor the mark of no field.     *)
LEMMA NameFacts ==
  /\ NoField \notin Fields /\ "" \notin AllNames /\ NoField \notin AllNames
  /\ \A m \in AllNames : Cut[m] # ""
BY FieldAssumption, CutAssumption DEF AllNames

(* The ways in which an item is resolved.                                  *)
LEMMA Resolved ==
  ASSUME NEW item, NEW p \in Resolve(item)
  PROVE  \/ idServed /\ item.field \in FieldPks /\ p = item.field
         \/ /\ ~(idServed /\ item.field \in FieldPks)
            /\ \/ item.name \in FieldPks /\ p = item.name
               \/ p \in FieldNames(item.name)
               \/ FieldNames(item.name) = {} /\ p = NoField
BY DEF Resolve

LEMMA InvInit == Init => CatalogInv
<1> SUFFICES ASSUME Init PROVE CatalogInv
  OBVIOUS
<1>1. DOMAIN items = {} /\ 1 .. hash = {} /\ hash = 0 /\ DOMAIN fieldPk = {}
  <2>1. items = <<>> /\ hash = 0 /\ fieldPk = <<>>
    BY Zenon DEF Init
  <2> QED  BY <2>1
<1>2. Cardinality(DOMAIN items) = 0 /\ DOMAIN items = 1 .. 0
  BY <1>1, FS_EmptySet
<1>3. TypeOK
  <2>1. name \in [Fields -> AllNames \cup {""}]
    BY DEF Init, Fields, AllNames
  <2>2. idServed \in BOOLEAN /\ renamed \in BOOLEAN /\ behind \in BOOLEAN
    BY DEF Init
  <2>3. hash \in 0 .. MaxItems /\ DOMAIN fieldPk = 1 .. hash
    BY <1>1, BoundAssumption
  <2> QED  BY <1>1, <2>1, <2>2, <2>3 DEF Init, TypeOK
<1>4. Grown
  <2>1. values = {}
    BY Zenon DEF Init
  <2> QED  BY <1>1, <1>2, <2>1, BoundAssumption DEF Grown
<1>5. Known /\ NeverMisattributed /\ UnattributedIsAmbiguous
  BY <1>1 DEF Known, NeverMisattributed, UnattributedIsAmbiguous
<1>6. Named
  BY <1>1 DEF Init, Named
<1>7. SkipIsSound
  BY DEF Init, SkipIsSound
<1> QED  BY <1>3, <1>4, <1>5, <1>6, <1>7 DEF CatalogInv
-----------------------------------------------------------------------------
(* Jira.                                                                   *)

LEMMA CreateKeeps ==
  ASSUME CatalogInv, NEW f \in Fields, NEW m \in Names, CreateField(f, m)
  PROVE  CatalogInv'
<1> USE DEF CatalogInv
<1>0. /\ f \in Custom /\ name[f] = "" /\ catalog[f] = "" /\ \A n \in DOMAIN items : About(n) # f
      /\ name' = [name EXCEPT ![f] = m] /\ name \in [Fields -> AllNames \cup {""}]
      /\ UNCHANGED <<values, items, idServed, renamed, catalog, behind, pc, hash, eav, fieldPk>>
  BY DEF CreateField, TypeOK, About
<1>1. m \in AllNames /\ \A g \in Fields : name'[g] = IF g = f THEN m ELSE name[g]
  BY <1>0 DEF AllNames
<1>2. \A n \in DOMAIN items : About(n) \in Fields /\ name'[About(n)] = name[About(n)]
  BY <1>0, <1>1, ItemFacts
<1>3. TypeOK'
  BY <1>0, <1>1 DEF TypeOK
<1>4. Grown'
  BY <1>0, <1>1, NameFacts DEF Grown, TypeOK
<1>5. Known' /\ Named'
  <2>1. Known'
    BY <1>0, <1>2 DEF Known, About
  <2>2. Named'
    BY <1>0, <1>1, <1>2 DEF Named, About
  <2> QED  BY <2>1, <2>2
<1>6. NeverMisattributed' /\ UnattributedIsAmbiguous' /\ SkipIsSound'
  BY <1>0 DEF NeverMisattributed, UnattributedIsAmbiguous, SkipIsSound
<1> QED  BY <1>3, <1>4, <1>5, <1>6

LEMMA RenameKeeps ==
  ASSUME CatalogInv, NEW f \in Fields, NEW m \in Names, RenameField(f, m)
  PROVE  CatalogInv'
<1> USE DEF CatalogInv
<1>0. /\ name[f] # "" /\ renamed' = TRUE
      /\ name' = [name EXCEPT ![f] = m] /\ name \in [Fields -> AllNames \cup {""}]
      /\ UNCHANGED <<values, items, idServed, catalog, behind, pc, hash, eav, fieldPk>>
  BY DEF RenameField, TypeOK
<1>1. m \in AllNames /\ m # "" /\ \A g \in Fields : name'[g] = IF g = f THEN m ELSE name[g]
  BY <1>0, NameFacts DEF AllNames
<1>2. TypeOK'
  BY <1>0, <1>1 DEF TypeOK
<1>3. Grown'
  BY <1>0, <1>1 DEF Grown, TypeOK
<1>4. Known'
  BY <1>0, <1>1, ItemFacts DEF Known, About
<1>5. Named' /\ UnattributedIsAmbiguous'
  BY <1>0 DEF Named, UnattributedIsAmbiguous
<1>6. NeverMisattributed' /\ SkipIsSound'
  BY <1>0 DEF NeverMisattributed, SkipIsSound
<1> QED  BY <1>2, <1>3, <1>4, <1>5, <1>6

LEMMA DeleteKeeps ==
  ASSUME CatalogInv, NEW f \in Fields, DeleteField(f)
  PROVE  CatalogInv'
<1> USE DEF CatalogInv
<1>0. /\ name' = [name EXCEPT ![f] = ""] /\ name \in [Fields -> AllNames \cup {""}]
      /\ values' = values \ {f} /\ behind' = (behind \/ catalog[f] = "")
      /\ UNCHANGED <<items, idServed, renamed, catalog, pc, hash, eav, fieldPk>>
  BY DEF DeleteField, TypeOK
<1>1. \A g \in Fields : name'[g] = IF g = f THEN "" ELSE name[g]
  BY <1>0
<1>2. TypeOK'
  BY <1>0 DEF TypeOK
<1>3. Grown'
  BY <1>0, <1>1 DEF Grown, TypeOK
<1>4. ~behind' => ~behind /\ catalog[f] # ""
  BY <1>0
<1>5. Known'
  BY <1>0, <1>1, <1>4, ItemFacts DEF Known, About
<1>6. Named'
  BY <1>0, <1>1, ItemFacts DEF Named, About
<1>7. NeverMisattributed' /\ UnattributedIsAmbiguous' /\ SkipIsSound'
  BY <1>0, <1>4 DEF NeverMisattributed, UnattributedIsAmbiguous, SkipIsSound
<1> QED  BY <1>2, <1>3, <1>5, <1>6, <1>7

LEMMA EditKeeps ==
  ASSUME CatalogInv, NEW f \in Fields, EditIssue(f)
  PROVE  CatalogInv'
<1> USE DEF CatalogInv
<1> DEFINE k   == Cardinality(DOMAIN items)
           new == [field |-> f, name |-> name[f]]
<1>0. /\ name[f] # "" /\ k + 1 <= MaxItems
      /\ values' = IF f \in values THEN values \ {f} ELSE values \cup {f}
      /\ items' = [j \in 1 .. k + 1 |-> IF j < k + 1 THEN items[j] ELSE new]
      /\ UNCHANGED <<name, catalog, hash, eav, fieldPk>>
  BY Zenon DEF EditIssue
<1>1. UNCHANGED <<idServed, renamed, behind, pc>>
  BY DEF EditIssue
<1>2. k \in Nat /\ DOMAIN items = 1 .. k /\ hash \in Nat /\ hash <= k
  BY ItemFacts DEF Grown
<1>3. name[f] \in AllNames
  BY <1>0 DEF TypeOK
<1> HIDE DEF k
<1>4. /\ DOMAIN items' = 1 .. k + 1 /\ Cardinality(DOMAIN items') = k + 1
      /\ \A n \in 1 .. k : items'[n] = items[n] /\ n \in DOMAIN items
      /\ items'[k + 1] = new
      /\ \A n \in 1 .. k + 1 : n \in 1 .. k \/ n = k + 1
      /\ \A n \in 1 .. hash : n \in 1 .. k
      /\ k + 1 \in 0 .. MaxItems /\ 1 .. k + 1 \subseteq 1 .. MaxItems
  <2> HIDE DEF new
  <2>1. DOMAIN items' = 1 .. k + 1
    BY <1>0
  <2>2. Cardinality(1 .. k + 1) = k + 1
    <3>1. 1 \in Int /\ k + 1 \in Int
      BY <1>2
    <3> QED  BY <1>2, <3>1, FS_Interval
  <2>3. \A n \in 1 .. k : n \in 1 .. k + 1 /\ n < k + 1
    BY <1>2
  <2>4. \A n \in 1 .. k : items'[n] = items[n] /\ n \in DOMAIN items
    BY <1>0, <1>2, <2>3
  <2>5. items'[k + 1] = new
    <3>1. items' = [j \in 1 .. k + 1 |-> IF j < k + 1 THEN items[j] ELSE new]
      BY <1>0
    <3>2. k + 1 \in 1 .. k + 1 /\ ~ (k + 1 < k + 1)
      BY <1>2
    <3> QED  BY <3>1, <3>2
  <2>6. /\ \A n \in 1 .. k + 1 : n \in 1 .. k \/ n = k + 1
        /\ \A n \in 1 .. hash : n \in 1 .. k
        /\ k + 1 \in 0 .. MaxItems /\ 1 .. k + 1 \subseteq 1 .. MaxItems
    <3>1. k + 1 <= MaxItems
      BY <1>0
    <3> QED  BY <1>2, <3>1, BoundAssumption
  <2> QED  BY <2>1, <2>2, <2>4, <2>5, <2>6
<1>5. new \in Items /\ new.field = f /\ new.name = name[f]
  BY <1>3 DEF Items
<1> HIDE DEF new
<1>6. TypeOK'
  <2>1. \A n \in 1 .. k : items[n] \in Items
    BY <1>2 DEF TypeOK
  <2>2. \A n \in DOMAIN items' : n \in 1 .. MaxItems /\ items'[n] \in Items
    BY <1>4, <1>5, <2>1
  <2>3. values' \subseteq Fields
    BY <1>0 DEF TypeOK
  <2> QED  BY <1>0, <1>1, <2>2, <2>3, Zenon DEF TypeOK
<1>7. Grown'
  <2>1. \A g \in values : name[g] # ""
    BY DEF Grown
  <2>2. \A g \in values' : name'[g] # ""
    BY <1>0, <2>1
  <2>3. hash' <= Cardinality(DOMAIN items')
    <3>1. hash' = hash /\ Cardinality(DOMAIN items') = k + 1
      BY <1>0, <1>4
    <3> QED  BY <1>2, <3>1
  <2> QED  BY <1>4, <2>2, <2>3 DEF Grown
<1>8. Known'
  <2>1. ASSUME ~behind
        PROVE  /\ \A n \in 1 .. k + 1 : name[items'[n].field] # "" \/ catalog[items'[n].field] # ""
               /\ \A n \in 1 .. hash : catalog[items'[n].field] # ""
    <3>1. /\ \A n \in DOMAIN items : name[items[n].field] # "" \/ catalog[items[n].field] # ""
          /\ \A n \in 1 .. hash : catalog[items[n].field] # ""
      BY <2>1, Zenon DEF Known
    <3> QED  BY <1>0, <1>4, <1>5, <3>1
  <2> QED  BY <1>0, <1>1, <1>4, <2>1, Zenon DEF Known
<1>9. Named'
  <2>1. ASSUME ~renamed
        PROVE  /\ \A g \in Fields : name[g] # "" /\ catalog[g] # "" => catalog[g] = Cut[name[g]]
               /\ \A n \in 1 .. k + 1 : /\ name[items'[n].field] \in {"", items'[n].name}
                                        /\ catalog[items'[n].field] \in {"", Cut[items'[n].name]}
    <3>1. /\ \A g \in Fields : name[g] # "" /\ catalog[g] # "" => catalog[g] = Cut[name[g]]
          /\ \A n \in DOMAIN items : /\ name[items[n].field] \in {"", items[n].name}
                                     /\ catalog[items[n].field] \in {"", Cut[items[n].name]}
      BY <2>1, Zenon DEF Named
    <3>2. name[new.field] \in {"", new.name} /\ catalog[new.field] \in {"", Cut[new.name]}
      BY <1>0, <1>5, <3>1
    <3>3. \A n \in 1 .. k : items'[n] = items[n] /\ n \in DOMAIN items
      BY <1>4
    <3>4. ASSUME NEW n \in 1 .. k + 1
          PROVE  /\ name[items'[n].field] \in {"", items'[n].name}
                 /\ catalog[items'[n].field] \in {"", Cut[items'[n].name]}
      <4>1. CASE n = k + 1
        BY <1>4, <3>2, <4>1
      <4>2. CASE n # k + 1
        BY <1>4, <3>1, <4>2
      <4> QED  BY <4>1, <4>2
    <3> QED  BY <3>1, <3>4
  <2>2. DOMAIN items' = 1 .. k + 1 /\ name' = name /\ catalog' = catalog /\ renamed' = renamed
    BY <1>0, <1>1, <1>4
  <2> QED  BY <2>1, <2>2, Zenon DEF Named
<1>10. \A n \in 1 .. hash : items'[n] = items[n]
  BY <1>4
<1>11. NeverMisattributed'
  BY <1>0, <1>1, <1>10 DEF NeverMisattributed
<1>12. UnattributedIsAmbiguous'
  <2> DEFINE Told(s, c) == \A n \in 1 .. hash :
                fieldPk[n] = NoField /\ c[s[n].field] # "" =>
                    \/ \E g \in Fields \ {s[n].field} : c[g] = s[n].name
                    \/ Cut[s[n].name] # s[n].name /\ ~idServed
  <2>1. Told(items, catalog) <=> Told(items', catalog)
    BY <1>10
  <2>2. UnattributedIsAmbiguous <=> (~behind /\ ~renamed => Told(items, catalog))
    BY Zenon DEF UnattributedIsAmbiguous
  <2>3. UnattributedIsAmbiguous' <=> (~behind /\ ~renamed => Told(items', catalog))
    BY <1>0, <1>1, Zenon DEF UnattributedIsAmbiguous
  <2> HIDE DEF Told
  <2> QED  BY <2>1, <2>2, <2>3, Zenon
<1>13. SkipIsSound'
  <2>1. hash' # Cardinality(DOMAIN items')
    <3>1. hash' = hash /\ Cardinality(DOMAIN items') = k + 1
      BY <1>0, <1>4
    <3> QED  BY <1>2, <3>1
  <2> QED  BY <2>1 DEF SkipIsSound
<1> QED  BY <1>6, <1>7, <1>8, <1>9, <1>11, <1>12, <1>13
-----------------------------------------------------------------------------
(* The catalog and the issue.                                              *)

(* Unless some field was renamed, the catalog changes no name it has.      *)
LEMMA SyncKeeps ==
  ASSUME CatalogInv, SyncCatalog
  PROVE  CatalogInv'
<1> USE DEF CatalogInv
<1>0. /\ \A f \in Fields : catalog'[f] = Upserted(f)
      /\ catalog' = [f \in Fields |-> Upserted(f)] /\ pc' = "synced"
      /\ UNCHANGED <<name, values, items, idServed, renamed, behind, hash, eav, fieldPk>>
  BY DEF SyncCatalog, jiraVars
<1>1. \A f \in Fields : /\ name[f] # "" => catalog'[f] = Cut[name[f]] /\ catalog'[f] # ""
                        /\ name[f] = "" => catalog'[f] = catalog[f]
                        /\ catalog[f] # "" => catalog'[f] # ""
                        /\ Upserted(f) \in {Cut[m] : m \in AllNames} \cup {""}
  BY <1>0, NameFacts DEF Upserted, TypeOK
<1>2. ~renamed => \A f \in Fields : catalog[f] # "" => catalog'[f] = catalog[f]
  BY <1>1 DEF Named
<1>3. /\ \A n \in DOMAIN items : About(n) \in Fields /\ Text(n) \in AllNames
      /\ 1 .. hash \subseteq DOMAIN items
  BY ItemFacts
<1>4. TypeOK'
  BY <1>0, <1>1 DEF TypeOK
<1>5. Grown'
  BY <1>0 DEF Grown
<1>6. Known'
  BY <1>0, <1>1, <1>3 DEF Known, About
<1>7. Named'
  <2>1. ASSUME ~renamed, NEW n \in DOMAIN items PROVE catalog'[About(n)] \in {"", Cut[Text(n)]}
    <3>1. catalog[About(n)] \in {"", Cut[Text(n)]} /\ name[About(n)] \in {"", Text(n)}
      BY <2>1, Zenon DEF Named, About, Text
    <3>2. About(n) \in Fields
      BY <1>3
    <3>3. /\ name[About(n)] # "" => catalog'[About(n)] = Cut[name[About(n)]]
          /\ name[About(n)] = "" => catalog'[About(n)] = catalog[About(n)]
      BY <1>1, <3>2
    <3> QED  BY <3>1, <3>3
  <2> QED  BY <1>0, <1>1, <2>1 DEF Named, About, Text
<1>8. NeverMisattributed'
  BY <1>0 DEF NeverMisattributed
<1>9. UnattributedIsAmbiguous'
  <2> SUFFICES ASSUME ~behind, ~renamed, NEW n \in 1 .. hash, fieldPk[n] = NoField
               PROVE  \/ \E f \in Fields \ {About(n)} : catalog'[f] = Text(n)
                      \/ Cut[Text(n)] # Text(n) /\ ~idServed
    BY <1>0 DEF UnattributedIsAmbiguous, About, Text
  <2>1. catalog[About(n)] # ""
    BY DEF Known, About
  <2>2. CASE \E f \in Fields \ {About(n)} : catalog[f] = Text(n)
    BY <1>2, <1>3, <2>2, NameFacts
  <2> QED  BY <2>1, <2>2 DEF UnattributedIsAmbiguous, About, Text
<1>10. SkipIsSound'
  BY <1>0 DEF SkipIsSound
<1> QED  BY <1>4, <1>5, <1>6, <1>7, <1>8, <1>9, <1>10

(* An issue collected while the catalog is as Jira is has every value      *)
(* stored and every item resolved by what its field is called.             *)
LEMMA CollectKeeps ==
  ASSUME CatalogInv, CollectIssue
  PROVE  CatalogInv'
<1> USE DEF CatalogInv
<1> DEFINE k == Cardinality(DOMAIN items)
<1>0. /\ eav' = values \cap FieldPks /\ hash' = k /\ pc' = "idle"
      /\ behind' = (behind \/ \E f \in Fields : name[f] # "" /\ Upserted(f) # catalog[f])
      /\ UNCHANGED <<name, values, items, idServed, renamed, catalog>>
  BY DEF CollectIssue, jiraVars
<1>1. PICK pks \in [DOMAIN items -> Fields \cup {NoField}] :
         (\A n \in DOMAIN items : pks[n] \in Resolve(items[n])) /\ fieldPk' = pks
  BY DEF CollectIssue
<1>2. /\ k \in Nat /\ k <= MaxItems /\ DOMAIN items = 1 .. k
      /\ \A n \in DOMAIN items : About(n) \in Fields /\ Text(n) \in AllNames
  BY ItemFacts
<1> HIDE DEF k
<1>3. ASSUME ~behind'
      PROVE  /\ ~behind /\ \A f \in Fields : name[f] # "" => catalog[f] = Cut[name[f]] /\ catalog[f] # ""
             /\ \A n \in DOMAIN items : About(n) \in FieldPks
  <2>1. ~behind /\ \A f \in Fields : name[f] # "" => catalog[f] = Cut[name[f]]
    BY <1>0, <1>3 DEF Upserted
  <2>2. \A f \in Fields : name[f] # "" => catalog[f] # ""
    BY <2>1, NameFacts DEF TypeOK
  <2>3. \A n \in DOMAIN items : About(n) \in FieldPks
    BY <1>2, <2>1, <2>2 DEF Known, About, FieldPks
  <2> QED  BY <2>1, <2>2, <2>3
<1>4. TypeOK'
  <2>1. behind' \in BOOLEAN
    BY <1>0
  <2>2. eav' \subseteq Fields /\ hash' \in 0 .. MaxItems
    <3>1. eav' \subseteq Fields /\ hash' = k
      BY <1>0, Zenon DEF FieldPks
    <3> QED  BY <1>2, <3>1, BoundAssumption
  <2>3. DOMAIN fieldPk' = 1 .. hash' /\ \A n \in 1 .. hash' : fieldPk'[n] \in Fields \cup {NoField}
    BY <1>0, <1>1, <1>2
  <2> QED  BY <1>0, <2>1, <2>2, <2>3 DEF TypeOK
<1>5. Grown'
  <2>1. hash' = k /\ items' = items /\ values' = values /\ name' = name
    BY <1>0
  <2>2. hash' <= Cardinality(DOMAIN items')
    BY <1>2, <2>1 DEF k
  <2> QED  BY <2>1, <2>2 DEF Grown
<1>6. Known'
  BY <1>0, <1>2, <1>3 DEF Known, About, FieldPks
<1>7. Named'
  BY <1>0 DEF Named
<1>8. ASSUME ~behind', ~renamed, NEW n \in DOMAIN items
      PROVE  About(n) \in FieldPks /\ catalog[About(n)] = Cut[Text(n)]
  BY <1>2, <1>3, <1>8 DEF Named, FieldPks, About, Text
<1>9. NeverMisattributed'
  <2> SUFFICES ASSUME ~behind', idServed \/ ~renamed, NEW n \in DOMAIN items
               PROVE  \/ pks[n] \in {About(n), NoField}
                      \/ ~idServed /\ pks[n] = Text(n)
    BY <1>0, <1>1, <1>2 DEF NeverMisattributed, About, Text
  <2>1. About(n) \in FieldPks
    BY <1>3
  <2>2. CASE idServed
    BY <1>1, <2>1, <2>2, Resolved DEF About
  <2>3. CASE ~idServed /\ pks[n] \in FieldNames(Text(n))
    <3>1. catalog[pks[n]] = Text(n) /\ \A g \in FieldPks \ {pks[n]} : catalog[g] # Text(n)
      BY <2>3 DEF FieldNames
    <3>2. catalog[About(n)] = Cut[Text(n)]
      BY <1>8, <2>3
    <3>3. Cut[Text(n)] = Text(n)
      <4>1. pks[n] \in Fields /\ catalog[pks[n]] \in {Cut[m] : m \in AllNames} \cup {""}
        BY <2>3 DEF FieldNames, FieldPks, TypeOK
      <4>2. PICK m \in AllNames : Text(n) = Cut[m]
        BY <1>2, <3>1, <4>1, NameFacts
      <4> QED  BY <1>2, <4>2, CutAssumption
    <3> QED  BY <2>1, <3>1, <3>2, <3>3
  <2>4. CASE ~idServed /\ pks[n] \notin FieldNames(Text(n))
    BY <1>1, <2>4, Resolved DEF Text
  <2> QED  BY <2>2, <2>3, <2>4
<1>10. UnattributedIsAmbiguous'
  <2> SUFFICES ASSUME ~behind', ~renamed, NEW n \in DOMAIN items, pks[n] = NoField
               PROVE  \/ \E f \in Fields \ {About(n)} : catalog[f] = Text(n)
                      \/ Cut[Text(n)] # Text(n) /\ ~idServed
    BY <1>0, <1>1, <1>2 DEF UnattributedIsAmbiguous, About, Text
  <2>1. About(n) \in FieldPks /\ catalog[About(n)] = Cut[Text(n)]
    BY <1>8
  <2>2. \A f \in FieldPks : f \in Fields /\ f # NoField
    BY NameFacts DEF FieldPks
  <2>3. ~idServed /\ FieldNames(Text(n)) = {}
    <3>1. About(n) # NoField /\ NoField \notin FieldNames(Text(n)) /\ (Text(n) \in FieldPks => Text(n) # NoField)
      BY <2>1, <2>2 DEF FieldNames
    <3> QED  BY <1>1, <2>1, <3>1, Resolved DEF About, Text
  <2>4. Cut[Text(n)] = Text(n) => \E g \in FieldPks \ {About(n)} : catalog[g] = Text(n)
    BY <2>1, <2>3 DEF FieldNames
  <2> QED  BY <2>2, <2>3, <2>4
<1>11. SkipIsSound'
  <2> SUFFICES ASSUME ~behind' PROVE values \subseteq FieldPks
    BY <1>0 DEF SkipIsSound
  <2>1. \A f \in values : f \in Fields /\ name[f] # ""
    BY DEF Grown, TypeOK
  <2> QED  BY <1>3, <2>1 DEF FieldPks
<1> QED  BY <1>4, <1>5, <1>6, <1>7, <1>9, <1>10, <1>11

LEMMA InvNext == CatalogInv /\ [Next]_vars => CatalogInv'
<1> SUFFICES ASSUME CatalogInv, [Next]_vars PROVE CatalogInv'
  OBVIOUS
<1>1. ASSUME UNCHANGED <<name, values, items, idServed, renamed, catalog, behind, hash, eav, fieldPk>>,
             pc' \in {"idle", "synced"}
      PROVE  CatalogInv'
  <2>1. TypeOK'
    BY <1>1 DEF CatalogInv, TypeOK
  <2>2. Grown' /\ Known' /\ Named'
    BY <1>1 DEF CatalogInv, Grown, Known, Named
  <2>3. NeverMisattributed' /\ UnattributedIsAmbiguous' /\ SkipIsSound'
    BY <1>1 DEF CatalogInv, NeverMisattributed, UnattributedIsAmbiguous, SkipIsSound
  <2> QED  BY <2>1, <2>2, <2>3 DEF CatalogInv
<1>2. CASE PassIssue
  BY <1>1, <1>2 DEF PassIssue, jiraVars
<1>3. CASE UNCHANGED vars
  BY <1>1, <1>3 DEF vars, jiraVars, CatalogInv, TypeOK
<1> QED  BY <1>2, <1>3, CreateKeeps, RenameKeeps, DeleteKeeps, EditKeeps, SyncKeeps, CollectKeeps
         DEF Next
-----------------------------------------------------------------------------
(* The theorems.                                                           *)

(* The inductive invariant: a catalog that was never behind knows every    *)
(* field an item is about, under the name the item bears.                  *)
THEOREM CatalogInvSafe == Spec => []CatalogInv
<1> QED  BY InvInit, InvNext, PTL DEF Spec

(* An item is attributed to its own field or to none, but for a custom     *)
(* field that bears the id of a system field (_resolve_field_pk).          *)
THEOREM NeverMisattributedSafe == Spec => []NeverMisattributed
<1>1. CatalogInv => NeverMisattributed
  BY DEF CatalogInv
<1> QED  BY <1>1, CatalogInvSafe, PTL

(* An item of a field in the catalog is left without one only where its    *)
(* string is ambiguous or was cut.                                         *)
THEOREM UnattributedIsAmbiguousSafe == Spec => []UnattributedIsAmbiguous
<1>1. CatalogInv => UnattributedIsAmbiguous
  BY DEF CatalogInv
<1> QED  BY <1>1, CatalogInvSafe, PTL

(* An issue whose hash lets it be skipped has all of its values stored     *)
(* (sync_issues.py:108-111).                                               *)
THEOREM SkipIsSoundSafe == Spec => []SkipIsSound
<1>1. CatalogInv => SkipIsSound
  BY DEF CatalogInv
<1> QED  BY <1>1, CatalogInvSafe, PTL

(* Where Jira serves ids, an item keeps the field it was attributed to,    *)
(* through renamings and full resyncs (upsert_changelog).                  *)
THEOREM AttributionIsKeptSafe == Spec => AttributionIsKept
<1> DEFINE Kept == idServed /\ ~behind =>
                      \A n \in 1 .. hash : fieldPk[n] # NoField => fieldPk'[n] = fieldPk[n]
<1>1. CatalogInv /\ [Next]_vars => [Kept]_vars
  <2> SUFFICES ASSUME CatalogInv, Next, idServed, ~behind, NEW n \in 1 .. hash, fieldPk[n] # NoField
               PROVE  fieldPk'[n] = fieldPk[n]
    OBVIOUS
  <2>1. CASE CollectIssue
    <3>1. PICK pks \in [DOMAIN items -> Fields \cup {NoField}] :
             (\A j \in DOMAIN items : pks[j] \in Resolve(items[j])) /\ fieldPk' = pks
      BY <2>1 DEF CollectIssue
    <3>2. n \in DOMAIN items /\ About(n) \in Fields
      BY ItemFacts DEF CatalogInv
    <3>3. fieldPk[n] = About(n)
      BY DEF CatalogInv, NeverMisattributed, About
    <3>4. About(n) \in FieldPks
      BY <3>2 DEF CatalogInv, Known, About, FieldPks
    <3> QED  BY <3>1, <3>2, <3>3, <3>4, Resolved DEF About
  <2>2. CASE ~CollectIssue
    BY <2>2 DEF Next, CreateField, RenameField, DeleteField, EditIssue, SyncCatalog, PassIssue
  <2> QED  BY <2>1, <2>2
<1> QED  BY <1>1, CatalogInvSafe, PTL DEF Spec, AttributionIsKept
=============================================================================
