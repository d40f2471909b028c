-------------------------- MODULE FieldProfile_proofs --------------------------
(***************************************************************************)
(* A profile is exact for any projects, issues, fields and values, however *)
(* many changes there were since the last one.                             *)
(***************************************************************************)
EXTENDS FieldProfile, FiniteSetTheorems, TLAPS

(* The inductive invariant behind them.                                    *)

(* Only fields of the catalog have values: each has a field_pk. *)
ValuesAreCataloged == \A i \in Issues, f \in Fields : value[i][f] # {} => f \in catalog

ProfileInv == TypeOK /\ ValuesAreCataloged /\ ProfileIsExact /\ NoAxisIsMissing
-----------------------------------------------------------------------------
(* The issues counted are those the property counts, and their values.     *)
LEMMA CountsAreLive ==
  ASSUME TypeOK, NEW p \in Projects, NEW f \in Fields
  PROVE  /\ Having(p, f) = Live(p, f)
         /\ CountOf(p, f).issues = Cardinality(Live(p, f))
         /\ CountOf(p, f).distinct =
               Cardinality({v \in Vals : \E i \in Live(p, f) : v \in value[i][f]})
         /\ CountOf(p, f) \in Counts /\ CountOf(p, f) # NoRow
<1> DEFINE U == UNION {value[i][f] : i \in Having(p, f)}
<1>1. Having(p, f) = Live(p, f) /\ Having(p, f) \subseteq Issues
  BY DEF Having, Counted, Live
<1>2. \A i \in Issues : value[i][f] \subseteq Vals
  BY DEF TypeOK
<1>3. U = {v \in Vals : \E i \in Live(p, f) : v \in value[i][f]} /\ U \subseteq Vals
  BY <1>1, <1>2
<1>4. /\ Cardinality(Having(p, f)) \in Nat /\ Cardinality(Issues) \in Nat
      /\ Cardinality(Having(p, f)) <= Cardinality(Issues)
  <2>1. IsFiniteSet(Issues)
    BY FieldAssumption
  <2>2. IsFiniteSet(Having(p, f)) /\ Cardinality(Having(p, f)) <= Cardinality(Issues)
    BY <1>1, <2>1, FS_Subset
  <2> QED  BY <2>1, <2>2, FS_CardinalityType
<1>5. Cardinality(U) \in Nat /\ Cardinality(Vals) \in Nat /\ Cardinality(U) <= Cardinality(Vals)
  <2>1. IsFiniteSet(Vals)
    BY FieldAssumption
  <2> HIDE DEF U
  <2>2. IsFiniteSet(U) /\ Cardinality(U) <= Cardinality(Vals)
    BY <1>3, <2>1, FS_Subset
  <2> QED  BY <2>1, <2>2, FS_CardinalityType
<1>6. CountOf(p, f) = [issues |-> Cardinality(Having(p, f)), distinct |-> Cardinality(U)]
  BY DEF CountOf
<1> HIDE DEF U
<1> QED  BY <1>1, <1>3, <1>4, <1>5, <1>6 DEF Counts, NoRow

(* What the three statements make of a row, the last of them first.        *)
LEMMA Profiled ==
  ASSUME TypeOK, ValuesAreCataloged, ProfileFields, NEW p \in Projects, NEW f \in Fields
  PROVE  /\ profile'[p][f] \in {CountOf(p, f), [issues |-> 0, distinct |-> 0], NoRow}
         /\ Live(p, f) # {} => profile'[p][f] = CountOf(p, f)
<1> DEFINE old == Reset(profile)[p][f]
           eav == MergeEav(Reset(profile))[p][f]
<1>1. old \in {[issues |-> 0, distinct |-> 0], NoRow}
  BY DEF Reset
<1>2. eav = IF f \in EavFields /\ Having(p, f) # {} THEN CountOf(p, f) ELSE old
  BY DEF MergeEav
<1>3. profile'[p][f] = IF f \in Columns \cap catalog /\ Counted(p) # {} THEN CountOf(p, f) ELSE eav
  BY DEF ProfileFields, MergeColumns
<1> HIDE DEF old, eav
<1>4. Having(p, f) = Live(p, f)
  BY CountsAreLive
<1>5. Live(p, f) # {} => Counted(p) # {} /\ f \in catalog
  BY DEF Live, Counted, ValuesAreCataloged
<1>6. f \in Columns \/ f \in EavFields
  BY DEF Fields
<1>7. profile'[p][f] \in {CountOf(p, f), [issues |-> 0, distinct |-> 0], NoRow}
  BY <1>1, <1>2, <1>3
<1>8. Live(p, f) # {} => profile'[p][f] = CountOf(p, f)
  BY <1>2, <1>3, <1>4, <1>5, <1>6
<1> QED  BY <1>7, <1>8

(* A row that a profile leaves counts what is there: a row set to zero     *)
(* belongs to a field without values.                                      *)
LEMMA ProfileExact ==
  ASSUME TypeOK, ValuesAreCataloged, ProfileFields
  PROVE  TypeOK' /\ ValuesAreCataloged' /\ ProfileIsExact' /\ NoAxisIsMissing'
<1> DEFINE Zero == [issues |-> 0, distinct |-> 0]
<1>0. UNCHANGED <<project, deleted, value, catalog, changes>> /\ profiled' = TRUE
  BY DEF ProfileFields
<1>1. \A p \in Projects, f \in Fields :
        /\ profile'[p][f] \in {CountOf(p, f), Zero, NoRow}
        /\ Live(p, f) # {} => profile'[p][f] = CountOf(p, f)
  BY Profiled
<1>2. Zero \in Counts
  BY FieldAssumption, FS_CardinalityType DEF Counts
<1>3. TypeOK'
  <2>1. profile' \in [Projects -> [Fields -> Counts \cup {NoRow}]]
    <3>1. \A p \in Projects, f \in Fields : profile'[p][f] \in Counts \cup {NoRow}
      BY <1>1, <1>2, CountsAreLive
    <3>2. profile' = [p \in Projects |-> [f \in Fields |-> profile'[p][f]]]
      BY DEF ProfileFields, MergeColumns
    <3> QED  BY <3>1, <3>2
  <2> QED  BY <1>0, <2>1 DEF TypeOK
<1>4. ValuesAreCataloged'
  BY <1>0 DEF ValuesAreCataloged
<1>5. \A p \in Projects, f \in Fields : Live(p, f)' = Live(p, f)
  BY <1>0 DEF Live
<1>6. ProfileIsExact'
  <2> SUFFICES ASSUME NEW p \in Projects, NEW f \in Fields, profile'[p][f] # NoRow
               PROVE  /\ profile'[p][f].issues = Cardinality(Live(p, f))
                      /\ profile'[p][f].distinct =
                            Cardinality({v \in Vals : \E i \in Live(p, f) : v \in value[i][f]})
    BY <1>0, <1>5 DEF ProfileIsExact
  <2>1. CASE profile'[p][f] = CountOf(p, f)
    BY <2>1, CountsAreLive
  <2>2. CASE profile'[p][f] = Zero /\ Live(p, f) = {}
    <3>1. {v \in Vals : \E i \in Live(p, f) : v \in value[i][f]} = {}
      BY <2>2
    <3>2. Cardinality({}) = 0
      BY FS_EmptySet
    <3> QED  BY <2>2, <3>1, <3>2
  <2> QED  BY <1>1, <2>1, <2>2
<1>7. NoAxisIsMissing'
  <2> SUFFICES ASSUME NEW p \in Projects, NEW f \in Dimensions, Live(p, f) # {}
               PROVE  profile'[p][f] # NoRow
    <3>1. \A p \in Projects, f \in Dimensions : f \in Fields
      BY FieldAssumption
    <3> QED  BY <1>5, <3>1 DEF NoAxisIsMissing, AxisCandidates
  <2>1. f \in Fields
    BY FieldAssumption
  <2> QED  BY <1>1, <2>1, CountsAreLive
<1> QED  BY <1>3, <1>4, <1>6, <1>7

LEMMA InvInit == Init => ProfileInv
<1> SUFFICES ASSUME Init PROVE ProfileInv
  OBVIOUS
<1>1. TypeOK
  <2>1. Cardinality({}) = 0 /\ \A i \in Issues, f \in Columns : value[i][f] = {}
    BY FS_EmptySet DEF Init, Fields
  <2>2. 0 \in 0 .. MaxChanges
    BY FieldAssumption
  <2>3. \A i \in Issues, f \in Columns : Cardinality(value[i][f]) <= 1
    BY <2>1
  <2>4. value \in [Issues -> [Fields -> SUBSET Vals]]
    BY DEF Init
  <2> QED  BY <2>2, <2>3, <2>4 DEF Init, TypeOK
<1>2. \A p \in Projects, f \in Fields : Live(p, f) = {}
  BY DEF Init, Live
<1>3. Dimensions \subseteq Fields
  BY FieldAssumption
<1> QED  BY <1>1, <1>2, <1>3
         DEF Init, ProfileInv, ValuesAreCataloged, ProfileIsExact, NoAxisIsMissing

LEMMA InvNext == ProfileInv /\ [Next]_vars => ProfileInv'
<1> SUFFICES ASSUME ProfileInv, [Next]_vars PROVE ProfileInv'
  OBVIOUS
<1>0. TypeOK /\ ValuesAreCataloged /\ ProfileIsExact /\ NoAxisIsMissing
  BY DEF ProfileInv
<1>1. ASSUME TypeOK', ValuesAreCataloged', profiled' = FALSE PROVE ProfileInv'
  BY <1>1 DEF ProfileInv, ProfileIsExact, NoAxisIsMissing
<1>2. Changing => changes' \in 0 .. MaxChanges /\ profiled' = FALSE
  <2>1. Changing => changes' \in 0 .. MaxChanges
    <3>1. changes \in 0 .. MaxChanges
      BY <1>0, Zenon DEF TypeOK
    <3>2. Changing => changes < MaxChanges /\ changes' = changes + 1
      BY Zenon DEF Changing
    <3> QED  BY <3>1, <3>2, FieldAssumption
  <2>2. Changing => profiled' = FALSE
    BY Zenon DEF Changing
  <2> QED  BY <2>1, <2>2, Zenon
<1>3. ASSUME NEW i \in Issues, NEW p \in Projects, NEW f \in Fields, NEW v \in Vals,
             CollectIssue(i, p, f, v)
      PROVE  ProfileInv'
  <2>1. PICK V \in {{}, {v}} \cup (IF f \in EavFields THEN {value[i][f] \cup {v}} ELSE {}) :
           value' = [value EXCEPT ![i][f] = V]
    BY <1>3 DEF CollectIssue
  <2>2. value \in [Issues -> [Fields -> SUBSET Vals]]
    BY <1>0 DEF TypeOK
  <2>3. V \in SUBSET Vals
    BY <2>1, <2>2
  <2>4. value' \in [Issues -> [Fields -> SUBSET Vals]]
    BY <2>1, <2>2, <2>3
  <2>5. \A j \in Issues, g \in Fields : value'[j][g] = IF j = i /\ g = f THEN V ELSE value[j][g]
    BY <2>1, <2>2
  <2>6. ASSUME NEW j \in Issues, NEW g \in Columns PROVE Cardinality(value'[j][g]) <= 1
    <3>1. CASE j = i /\ g = f
      <4>1. V \in {{}, {v}}
        BY <2>1, <3>1, FieldAssumption
      <4>2. Cardinality({}) = 0 /\ Cardinality({v}) = 1
        BY FS_EmptySet, FS_Singleton
      <4>3. Cardinality(V) <= 1
        BY <4>1, <4>2
      <4> QED  BY <2>5, <3>1, <4>3
    <3>2. CASE ~(j = i /\ g = f)
      BY <1>0, <2>5, <3>2 DEF Fields, TypeOK
    <3> QED  BY <3>1, <3>2
  <2>7. TypeOK'
    BY <1>0, <1>2, <1>3, <2>4, <2>6 DEF CollectIssue, TypeOK
  <2>8. ValuesAreCataloged'
    BY <1>0, <1>3, <2>5 DEF CollectIssue, ValuesAreCataloged
  <2> QED  BY <1>1, <1>2, <1>3, <2>7, <2>8 DEF CollectIssue
<1>4. ASSUME NEW i \in Issues, MarkDeleted(i) PROVE ProfileInv'
  <2>1. TypeOK' /\ ValuesAreCataloged'
    BY <1>0, <1>2, <1>4 DEF MarkDeleted, TypeOK, ValuesAreCataloged
  <2> QED  BY <1>1, <1>2, <1>4, <2>1 DEF MarkDeleted
<1>5. ASSUME NEW f \in Fields, SyncCatalog(f) PROVE ProfileInv'
  <2>1. TypeOK' /\ ValuesAreCataloged'
    BY <1>0, <1>2, <1>5 DEF SyncCatalog, TypeOK, ValuesAreCataloged
  <2> QED  BY <1>1, <1>2, <1>5, <2>1 DEF SyncCatalog
<1>6. CASE ProfileFields
  BY <1>0, <1>6, ProfileExact DEF ProfileInv
<1>7. CASE UNCHANGED vars
  <2>1. UNCHANGED <<project, deleted, value, catalog, profile, profiled, changes>>
    BY <1>7 DEF vars
  <2>2. TypeOK' /\ ValuesAreCataloged'
    BY <1>0, <2>1 DEF TypeOK, ValuesAreCataloged
  <2>3. ProfileIsExact' /\ NoAxisIsMissing'
    <3> DEFINE Exact == \A p \in Projects, f \in Fields :
                           profile[p][f] # NoRow =>
                              /\ profile[p][f].issues = Cardinality(Live(p, f))
                              /\ profile[p][f].distinct =
                                    Cardinality({v \in Vals : \E i \in Live(p, f) : v \in value[i][f]})
               Offered == \A p \in Projects, f \in Dimensions :
                             Live(p, f) # {} => f \in AxisCandidates(p)
    <3>1. Exact' <=> Exact
      BY <2>1 DEF Live
    <3>2. Offered' <=> Offered
      BY <2>1 DEF Live, AxisCandidates
    <3>3. profiled' = profiled
      BY <2>1
    <3>4. (ProfileIsExact <=> (profiled => Exact)) /\ (NoAxisIsMissing <=> (profiled => Offered))
      BY DEF ProfileIsExact, NoAxisIsMissing
    <3>5. (ProfileIsExact' <=> (profiled' => Exact')) /\ (NoAxisIsMissing' <=> (profiled' => Offered'))
      BY DEF ProfileIsExact, NoAxisIsMissing
    <3> HIDE DEF Exact, Offered
    <3> QED  BY <1>0, <3>1, <3>2, <3>3, <3>4, <3>5, Zenon
  <2> QED  BY <2>2, <2>3 DEF ProfileInv
<1> QED  BY <1>3, <1>4, <1>5, <1>6, <1>7 DEF Next

(* The inductive invariant: types, and only fields of the catalog have     *)
(* values (replace_field_values stores none without a field_pk).           *)
THEOREM ProfileInvSafe == Spec => []ProfileInv
<1> QED  BY InvInit, InvNext, PTL DEF Spec

(* Every row of a profile is right, whatever moved, vanished or was        *)
(* emptied since the last one (profile_fields).                            *)
THEOREM ProfileIsExactSafe == Spec => []ProfileIsExact
<1>1. ProfileInv => ProfileIsExact
  BY DEF ProfileInv
<1> QED  BY <1>1, ProfileInvSafe, PTL

(* No dimension with a value in some issue of the project is missing from  *)
(* the axes offered (axis_candidates).                                     *)
THEOREM NoAxisIsMissingSafe == Spec => []NoAxisIsMissing
<1>1. ProfileInv => NoAxisIsMissing
  BY DEF ProfileInv
<1> QED  BY <1>1, ProfileInvSafe, PTL
=============================================================================
