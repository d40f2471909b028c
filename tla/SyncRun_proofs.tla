--------------------------- MODULE SyncRun_proofs ---------------------------
(***************************************************************************)
(* Proofs about SyncRun, for every instance, history of edits and schedule *)
(* of runs: its invariants first, then that it implements Mirror, and what *)
(* Mirror in turn promises.                                                *)
(***************************************************************************)
EXTENDS SyncRunMirror, FiniteSetTheorems, TLAPS

(* How late a search may see an edit for the overlap to make up for it. *)
Punctual == Lag <= Overlap + 1

(* No watermark is nearer to the newest time of Jira than the overlap, and *)
(* a project is searched from its watermark or from the beginning.         *)
Clocked == /\ \A i \in Issues : updated[i] <= clock
           /\ Overlap <= clock /\ maxUpdated <= clock
           /\ \A p \in Projects : db.wm[p] + Overlap <= clock
           /\ ~dry /\ pc \in InTheRun => since \in {Never, db.wm[cur]}

(* After a search the issues of its answer are stored as Jira has them,    *)
(* unless an edit overtook them or is recent enough for the overlap.       *)
Swept == pc \in {"history", "first_done", "mark"} =>
            \A i \in Matches(cur, since) \ overtaken :
                <<i, updated[i]>> \notin Unparsable =>
                    db.stored[i].upd = updated[i] \/ updated[i] + Overlap >= maxUpdated

WatermarkInv == IInv /\ Clocked /\ Swept /\ WatermarkCovers
-----------------------------------------------------------------------------
(* The circumstance in which what is loaded is still so at the end of a    *)
(* project: Jira changes only between runs.                                *)
Undisturbed == ~LiveEdits

(* Past the catalog step the names and kinds of a run are those of Jira.   *)
Named == /\ ~dry /\ pc \in {"loop"} \cup InTheRun => db.key = keyOf /\ db.kind = kindOf
         /\ pc \in InTheRun => fieldKind = kindOf

(* What was loaded is what Jira has, under its present key and kind. *)
Current == ~dry => \A i \in changed : db.stored[i] = Fetched(i)

(* Nothing is overtaken, and a full resync has loaded all that parses.     *)
Calm == /\ Named /\ Current /\ overtaken = {}
        /\ full /\ pc \in {"history", "first_done", "mark"} =>
              \A i \in Matches(cur, since) : <<i, updated[i]>> \notin Unparsable => i \in changed

CalmInv == IInv /\ Calm
-----------------------------------------------------------------------------
(* Requests are queued only while a run stands between its catalog and its *)
(* projects, and an issue Jira does not have is not stored.                *)
Queued == /\ pc # "loop" => pend = {}
          /\ \A i \in Issues : updated[i] = 0 => db.stored[i] = NoRow

(* What a dry run queues, it does not request: it relies on the flags.     *)
OldDebt == dry => \A i \in Issues :
              Readable(i) /\ i \notin missed /\ Outdated(i, enabled) => db.flag[ProjectOf[i]]

CatalogInv == CalmInv /\ Queued /\ OldDebt /\ CatalogDebt
-----------------------------------------------------------------------------
(* NextWatermark and NVL give a time again. *)
LEMMA WatermarkType ==
  ASSUME NEW max \in Nat, NEW previous \in Nat, NEW old \in Nat,
         max = Never \/ max > Overlap
  PROVE  Nvl(NextWatermark(max, previous), old) \in Nat
BY ClockAssumption DEF Nvl, NextWatermark, Never

(* What a page stores are rows. *)
LEMMA FetchedType ==
  ASSUME TypeOK, pc \in InTheRun, NEW i \in Issues
  PROVE  Fetched(i) \in Rows
BY ProjectAssumption DEF TypeOK, Fetched, Rows

(* The tables a transaction may turn into. *)
LEMMA TablesType ==
  ASSUME NEW t \in Tables, NEW u,
         \/ \E r \in [Issues -> Rows] :
               \/ u = [t EXCEPT !.stored = r]
               \/ u = [t EXCEPT !.hist = r]
               \/ u = [t EXCEPT !.done = r]
         \/ \E k \in [Projects -> Names], v \in Kinds :
               u = [t EXCEPT !.key = k, !.kind = v]
         \/ \E p \in Projects, b \in BOOLEAN, w \in Nat :
               \/ u = [t EXCEPT !.flag[p] = b]
               \/ u = [t EXCEPT !.wm[p] = w, !.flag[p] = b]
  PROVE  u \in Tables
<1>1. ASSUME NEW r \in [Issues -> Rows],
             \/ u = [t EXCEPT !.stored = r]
             \/ u = [t EXCEPT !.hist = r]
             \/ u = [t EXCEPT !.done = r]
      PROVE  u \in Tables
  BY <1>1 DEF Tables
<1>2. ASSUME NEW k \in [Projects -> Names], NEW v \in Kinds,
             u = [t EXCEPT !.key = k, !.kind = v]
      PROVE  u \in Tables
  BY <1>2 DEF Tables
<1>3. ASSUME NEW p \in Projects, NEW b \in BOOLEAN, u = [t EXCEPT !.flag[p] = b]
      PROVE  u \in Tables
  BY <1>3 DEF Tables
<1>4. ASSUME NEW p \in Projects, NEW b \in BOOLEAN, NEW w \in Nat,
             u = [t EXCEPT !.wm[p] = w, !.flag[p] = b]
      PROVE  u \in Tables
  <2>1. [t.wm EXCEPT ![p] = w] \in [Projects -> Nat]
    BY DEF Tables
  <2>2. [t.flag EXCEPT ![p] = b] \in [Projects -> BOOLEAN]
    BY DEF Tables
  <2> QED  BY <1>4, <2>1, <2>2 DEF Tables
<1> QED  BY <1>1, <1>2, <1>3, <1>4

(* Types and time stamps hold initially. *)
LEMMA TypeInit == Init => TypeOK /\ Stamps
<1> SUFFICES ASSUME Init PROVE TypeOK /\ Stamps
  OBVIOUS
<1>1. NoRow \in Rows
  BY DEF NoRow, Rows, Never
<1>2. db \in Tables
  BY <1>1, CatalogAssumption DEF Init, Tables, Never
<1>3. tx \in Tables
  BY <1>2 DEF Init
<1> QED
  BY <1>2, <1>3, ClockAssumption, CatalogAssumption DEF Init, TypeOK, Stamps, InTheRun, Never

(* No step of Jira, of the administrator or of a run breaks them. *)
LEMMA TypeStep == TypeOK /\ Stamps /\ [Next]_vars => (TypeOK /\ Stamps)'
<1> SUFFICES ASSUME TypeOK, Stamps, [Next]_vars PROVE TypeOK' /\ Stamps'
  OBVIOUS
<1> USE DEF InTheRun, Never
<1>1. CASE \E i \in Issues : EditIssue(i)
  <2>1. PICK i \in Issues : EditIssue(i)
    BY <1>1
  <2>2. PICK t \in (clock - Lag + 1) .. (clock + 1) :
           /\ t > updated[i] /\ t > Overlap
           /\ updated' = [updated EXCEPT ![i] = t]
           /\ clock' = IF t > clock THEN t ELSE clock
    BY <2>1 DEF EditIssue
  <2>3. t \in Nat /\ t > Overlap
    <3>1. clock \in Nat
      BY DEF TypeOK
    <3> QED  BY <2>2, <3>1, ClockAssumption
  <2>4. /\ updated' \in [Issues -> Nat] /\ clock' \in Nat
        /\ \A j \in Issues : updated'[j] = 0 \/ updated'[j] > Overlap
    BY <2>2, <2>3 DEF TypeOK, Stamps
  <2>5. overtaken' \subseteq Issues
    <3>1. Read' \subseteq Issues
      BY DEF Read, Matches
    <3> QED  BY <2>1, <3>1 DEF EditIssue, TypeOK
  <2> QED
    BY <2>1, <2>4, <2>5 DEF TypeOK, Stamps, EditIssue, runVars, searchVars
<1>2. CASE \E p \in Projects : RenameProject(p) \/ SetProjectEnabled(p)
  BY <1>2 DEF TypeOK, Stamps, RenameProject, SetProjectEnabled, jiraVars, runVars,
              searchVars, faultVars, lossVars
<1>3. CASE ChangeKind
  BY <1>3 DEF TypeOK, Stamps, ChangeKind, runVars, searchVars, faultVars, lossVars
<1>4. CASE \E d \in BOOLEAN, s \in Scopes : StartRun(d, s)
  <2>1. PICK d \in BOOLEAN, s \in Scopes : StartRun(d, s)
    BY <1>4
  <2>2. s \subseteq Projects
    BY DEF Scopes
  <2> QED
    BY <2>1, <2>2 DEF TypeOK, Stamps, StartRun, jiraVars, searchVars, faultVars, lossVars
<1>5. CASE SyncCatalog
  <2>1. tx' \in Tables /\ db' \in Tables
    BY <1>5, TablesType DEF TypeOK, SyncCatalog, Commit
  <2>2. pend' \subseteq Projects
    BY <1>5 DEF TypeOK, SyncCatalog, OwedResync, RenamedSince
  <2> QED
    BY <1>5, <2>1, <2>2 DEF TypeOK, Stamps, SyncCatalog, jiraVars, searchVars, faultVars, lossVars
<1>6. CASE \E p \in Projects : RequestFullResync(p)
  <2>1. tx' \in Tables /\ db' \in Tables
    BY <1>6, TablesType DEF TypeOK, RequestFullResync, Commit
  <2> QED
    BY <1>6, <2>1 DEF TypeOK, Stamps, RequestFullResync, jiraVars, searchVars, faultVars, lossVars
<1>7. CASE \E p \in Projects : BeginProject(p)
  <2>1. PICK p \in Projects : BeginProject(p)
    BY <1>7
  <2>2. tx.flag[p] \in BOOLEAN /\ tx.wm[p] \in Nat
    BY DEF TypeOK, Tables
  <2> QED
    BY <2>1, <2>2 DEF TypeOK, Stamps, BeginProject, jiraVars, faultVars, lossVars
<1>8. CASE SyncPage
  <2> DEFINE found  == Matches(cur, since)
             page   == PageAt(found, startAt)
             parsed == {i \in page : ~Skips(i) /\ <<i, updated[i]>> \notin Unparsable}
             rows   == [i \in Issues |-> IF i \in parsed THEN Fetched(i) ELSE tx.stored[i]]
  <2>1. parsed \subseteq Issues
    BY DEF PageAt, Matches
  <2>2. rows \in [Issues -> Rows]
    <3>1. \A i \in Issues : Fetched(i) \in Rows
      BY <1>8, FetchedType DEF SyncPage
    <3>2. \A i \in Issues : tx.stored[i] \in Rows
      BY DEF TypeOK, Tables
    <3> QED  BY <3>1, <3>2
  <2>3. tx' = [tx EXCEPT !.stored = rows] /\ db' = IF dry THEN db ELSE tx'
    BY <1>8 DEF SyncPage, Commit
  <2>4. tx' \in Tables /\ db' \in Tables
    BY <2>2, <2>3, TablesType DEF TypeOK
  <2>5. /\ maxUpdated' \in Nat
        /\ maxUpdated' = Never \/ maxUpdated' > Overlap
    <3>1. maxUpdated' \in {maxUpdated} \cup {updated[i] : i \in parsed}
      BY <1>8 DEF SyncPage, Greatest
    <3>2. \A i \in parsed : updated[i] \in Nat /\ updated[i] > 0
      BY DEF PageAt, Matches, TypeOK
    <3> QED  BY <3>1, <3>2, <2>1 DEF TypeOK, Stamps
  <2>6. changed' \subseteq Issues /\ left' \subseteq changed'
    BY <1>8, <2>1 DEF SyncPage, TypeOK
  <2>7. startAt' \in Nat /\ pc' \in {"pages", "dry_done", "history"}
    <3>1. startAt' = startAt + PageSize /\ pc' \in {"pages", AfterSearch}
      BY <1>8 DEF SyncPage
    <3>2. startAt \in Nat
      BY DEF TypeOK
    <3> QED  BY <3>1, <3>2, PagingAssumption DEF AfterSearch
  <2>8. UNCHANGED <<jiraVars, enabled, dry, todo, pend, cur, full, since, fieldKind,
                    failures, crashes, torn>> /\ pc = "pages"
    BY <1>8 DEF SyncPage
  <2>9. missed' \subseteq Issues /\ overtaken' \subseteq Issues
    BY <1>8 DEF SyncPage, TypeOK
  <2> HIDE DEF found, page, parsed, rows
  <2> QED
    BY <2>4, <2>5, <2>6, <2>7, <2>8, <2>9 DEF TypeOK, Stamps, jiraVars
<1>9. CASE EmptyPage
  BY <1>9 DEF TypeOK, Stamps, EmptyPage, AfterSearch, jiraVars, faultVars, lossVars
<1>10. CASE DryRunDone
  BY <1>10 DEF TypeOK, Stamps, DryRunDone, ForgetProject, jiraVars, faultVars, lossVars
<1>11. CASE DeriveHistory
  <2>1. tx' \in Tables /\ db' \in Tables
    <3>1. PICK c \in Chunks(left) :
             Commit([tx EXCEPT !.hist =
                [i \in Issues |-> IF i \in c THEN tx.stored[i] ELSE tx.hist[i]]])
      BY <1>11 DEF DeriveHistory
    <3>2. [i \in Issues |-> IF i \in c THEN tx.stored[i] ELSE tx.hist[i]] \in [Issues -> Rows]
      BY DEF TypeOK, Tables
    <3> QED  BY <3>1, <3>2, TablesType DEF TypeOK, Commit
  <2> QED
    BY <1>11, <2>1 DEF TypeOK, Stamps, DeriveHistory, jiraVars, faultVars, lossVars
<1>12. CASE UpdateFirstDoneAt
  <2>1. tx' \in Tables /\ db' \in Tables
    <3>1. PICK c \in Chunks(left) :
             Commit([tx EXCEPT !.done =
                [i \in Issues |-> IF i \in c THEN tx.hist[i] ELSE tx.done[i]]])
      BY <1>12 DEF UpdateFirstDoneAt
    <3>2. [i \in Issues |-> IF i \in c THEN tx.hist[i] ELSE tx.done[i]] \in [Issues -> Rows]
      BY DEF TypeOK, Tables
    <3> QED  BY <3>1, <3>2, TablesType DEF TypeOK, Commit
  <2> QED
    BY <1>12, <2>1 DEF TypeOK, Stamps, UpdateFirstDoneAt, jiraVars, faultVars, lossVars
<1>13. CASE FinishProject
  <2>1. tx.wm[cur] \in Nat /\ (tx.flag[cur] /\ ~full) \in BOOLEAN /\ cur \in Projects
    BY <1>13 DEF TypeOK, Tables, FinishProject
  <2>2. Nvl(NextWatermark(maxUpdated, since), tx.wm[cur]) \in Nat
    BY <2>1, WatermarkType DEF TypeOK, Stamps
  <2>3. tx' \in Tables /\ db' \in Tables
    BY <1>13, <2>1, <2>2, TablesType DEF TypeOK, FinishProject, Commit
  <2> QED
    BY <1>13, <2>3 DEF TypeOK, Stamps, FinishProject, ForgetProject, jiraVars, faultVars, lossVars
<1>14. CASE ProjectFails \/ AuthFails
  <2>1. [db EXCEPT !.flag[cur] = TRUE] \in Tables
    BY <1>14, TablesType DEF TypeOK, ProjectFails, AuthFails
  <2>2. db' \in Tables /\ tx' \in Tables
    BY <1>14, <2>1 DEF TypeOK, ProjectFails, AuthFails, MarkFailed, Commit
  <2>a. failures' \in Nat
    <3>1. failures \in Nat
      BY DEF TypeOK
    <3> QED  BY <1>14, <3>1 DEF ProjectFails, AuthFails
  <2>3. CASE ProjectFails
    BY <2>2, <2>a, <2>3 DEF TypeOK, Stamps, ProjectFails, ForgetProject, jiraVars, lossVars
  <2>4. CASE AuthFails
    BY <2>2, <2>a, <2>4 DEF TypeOK, Stamps, AuthFails, EndRun, ForgetProject, jiraVars,
                            lossVars
  <2> QED  BY <1>14, <2>3, <2>4
<1>15. CASE CatalogFails \/ Crash \/ FinishRun
  <2>1. db' \in Tables /\ tx' \in Tables
    BY <1>15 DEF TypeOK, CatalogFails, Crash, FinishRun
  <2>2. failures' \in Nat /\ crashes' \in Nat
    <3>1. failures \in Nat /\ crashes \in Nat
      BY DEF TypeOK
    <3> QED  BY <1>15, <3>1 DEF CatalogFails, Crash, FinishRun, faultVars, lossVars
  <2>3. EndRun /\ UNCHANGED <<jiraVars, enabled>>
    BY <1>15 DEF CatalogFails, Crash, FinishRun
  <2>4. torn' \subseteq Issues /\ missed' \subseteq Issues /\ UNCHANGED overtaken
    <3>1. torn \subseteq Issues /\ missed \subseteq Issues /\ changed \subseteq Issues
      BY DEF TypeOK
    <3> QED  BY <1>15, <3>1 DEF CatalogFails, Crash, FinishRun, faultVars, lossVars
  <2> QED
    BY <2>1, <2>2, <2>3, <2>4 DEF TypeOK, Stamps, EndRun, ForgetProject, jiraVars
<1>16. CASE UNCHANGED vars
  BY <1>16 DEF TypeOK, Stamps, vars, jiraVars, runVars, searchVars, faultVars, lossVars
<1> QED
  BY <1>1, <1>2, <1>3, <1>4, <1>5, <1>6, <1>7, <1>8, <1>9, <1>10, <1>11, <1>12, <1>13,
     <1>14, <1>15, <1>16 DEF Next, Step

(* Every variable keeps its type, in any circumstances: the watermark in   *)
(* particular never falls below NULL (next_watermark, sync_issues.py:45).  *)
THEOREM TypeCorrect == Spec => []TypeOK
BY TypeInit, TypeStep, PTL DEF Spec

(* The answers of a search are totally ordered. *)
LEMMA OrderTotal ==
  ASSUME TypeOK
  PROVE  /\ \A i \in Issues : ~Before(i, i)
         /\ \A i, j \in Issues : i # j => Before(i, j) \/ Before(j, i)
         /\ \A i, j, k \in Issues : Before(i, j) /\ Before(j, k) => Before(i, k)
<1>1. \A i \in Issues : i \in Nat /\ updated[i] \in Nat
  BY IssuesAssumption DEF TypeOK
<1> QED  BY <1>1 DEF Before

(* A later issue has a higher place. *)
LEMMA RankStrict ==
  ASSUME TypeOK, NEW S \in SUBSET Issues, NEW i \in S, NEW j \in S, Before(j, i)
  PROVE  /\ Rank(i, S) \in Nat /\ Rank(j, S) \in Nat
         /\ Rank(j, S) < Rank(i, S)
<1> DEFINE T == {x \in S : Before(x, j)}
           U == {x \in S : Before(x, i)}
<1>1. IsFiniteSet(S)
  BY IssuesAssumption, FS_Subset
<1>2. IsFiniteSet(T) /\ IsFiniteSet(U)
  BY <1>1, FS_Subset
<1>3. T \in SUBSET U /\ T # U
  <2>1. j \in U /\ j \notin T
    BY OrderTotal
  <2> QED  BY <2>1, OrderTotal
<1>4. Cardinality(T) \in Nat /\ Cardinality(U) \in Nat
  BY <1>2, FS_CardinalityType
<1>5. Cardinality(T) <= Cardinality(U) /\ Cardinality(U) # Cardinality(T)
  BY <1>2, <1>3, FS_Subset
<1> QED  BY <1>4, <1>5 DEF Rank

(* Every place is below the total. *)
LEMMA RankBound ==
  ASSUME TypeOK, NEW S \in SUBSET Issues, NEW i \in S
  PROVE  /\ Rank(i, S) \in Nat /\ Cardinality(S) \in Nat
         /\ Rank(i, S) < Cardinality(S)
<1> DEFINE T == {x \in S : Before(x, i)}
<1>1. IsFiniteSet(S) /\ IsFiniteSet(T)
  BY IssuesAssumption, FS_Subset
<1>2. T \in SUBSET S /\ T # S
  BY OrderTotal
<1>3. Cardinality(T) \in Nat /\ Cardinality(S) \in Nat
  BY <1>1, FS_CardinalityType
<1>4. Cardinality(T) <= Cardinality(S) /\ Cardinality(S) # Cardinality(T)
  BY <1>1, <1>2, FS_Subset
<1> QED  BY <1>3, <1>4 DEF Rank

(* A page that starts short of the total has issues on it: no place is empty. *)
LEMMA PageNotEmpty ==
  ASSUME TypeOK, NEW S \in SUBSET Issues, NEW k \in Nat, k < Cardinality(S)
  PROVE  PageAt(S, k) # {}
<1> SUFFICES ASSUME PageAt(S, k) = {} PROVE FALSE
  OBVIOUS
<1> DEFINE n == Cardinality(S)
           T == (0 .. (n - 1)) \ {k}
           f == [i \in S |-> Rank(i, S)]
<1>1. IsFiniteSet(S)
  BY IssuesAssumption, FS_Subset
<1>2. n \in Nat
  BY <1>1, FS_CardinalityType
<1>3. IsFiniteSet(T) /\ Cardinality(T) = n - 1
  <2>1. IsFiniteSet(0 .. (n - 1)) /\ Cardinality(0 .. (n - 1)) = n
    <3> HIDE DEF n
    <3>1. 0 \in Int /\ n - 1 \in Int
      BY <1>2
    <3>2. IsFiniteSet(0 .. (n - 1))
      BY <3>1, FS_Interval
    <3>3. Cardinality(0 .. (n - 1)) = IF 0 > n - 1 THEN 0 ELSE n - 1 - 0 + 1
      BY <3>1, FS_Interval, Zenon
    <3> QED  BY <3>2, <3>3, <1>2
  <2>2. k \in 0 .. (n - 1)
    BY <1>2
  <2> QED  BY <2>1, <2>2, FS_RemoveElement
<1>4. f \in [S -> T]
  <2>1. ASSUME NEW i \in S PROVE Rank(i, S) \in T
    <3>1. Rank(i, S) \in Nat /\ Rank(i, S) < n
      BY RankBound
    <3>2. Rank(i, S) # k
      BY <3>1, PagingAssumption DEF PageAt
    <3> QED  BY <3>1, <3>2, <1>2
  <2> QED  BY <2>1
<1>5. Cardinality(T) < Cardinality(S)
  BY <1>2, <1>3
<1>6. PICK x, y \in S : x # y /\ f[x] = f[y]
  <2> HIDE DEF T, f
  <2> QED  BY <1>1, <1>3, <1>4, <1>5, FS_PigeonHole
<1>7. Rank(x, S) = Rank(y, S)
  BY <1>6
<1>8. Before(x, y) \/ Before(y, x)
  BY <1>6, OrderTotal
<1> QED
  <2>1. CASE Before(x, y)
    <3>1. Rank(x, S) \in Nat /\ Rank(y, S) \in Nat /\ Rank(x, S) < Rank(y, S)
      BY <2>1, RankStrict
    <3> QED  BY <3>1, <1>7
  <2>2. CASE Before(y, x)
    <3>1. Rank(x, S) \in Nat /\ Rank(y, S) \in Nat /\ Rank(y, S) < Rank(x, S)
      BY <2>2, RankStrict
    <3> QED  BY <3>1, <1>7
  <2> QED  BY <1>8, <2>1, <2>2

(* A search from the epoch matches every issue of the project. *)
LEMMA FullSearch ==
  ASSUME TypeOK, NEW p \in Projects
  PROVE  Matches(p, Never) = {i \in Issues : ProjectOf[i] = p /\ updated[i] > 0}
<1>1. JqlStart(Never) = 0
  BY ClockAssumption DEF JqlStart, Never
<1>2. \A i \in Issues : updated[i] \in Nat
  BY DEF TypeOK
<1> QED  BY <1>1, <1>2 DEF Matches

(* What the rest of a search needs of the answer, while Jira stands still. *)
LEMMA SameAnswer ==
  ASSUME UNCHANGED <<updated, cur, since>>
  PROVE  /\ Matches(cur, since)' = Matches(cur, since)
         /\ \A i : Rank(i, Matches(cur, since))' = Rank(i, Matches(cur, since))
         /\ UNCHANGED startAt => Read' = Read
BY DEF Matches, JqlStart, Rank, Before, Read

(* Whoever leaves the answer and the run alone leaves what it has covered. *)
LEMMA SameCoverage ==
  ASSUME Coverage,
         UNCHANGED <<updated, pc, dry, cur, since, full, startAt, changed, overtaken, db>>
  PROVE  Coverage'
<1>1. Matches(cur, since)' = Matches(cur, since) /\ Read' = Read
  BY SameAnswer
<1>2. /\ \A i \in Issues : Taken(i)' <=> Taken(i)
      /\ \A i \in Issues : Fresh(db', i) <=> Fresh(db, i)
      /\ \A i : Readable(i)' <=> Readable(i)
  BY DEF Taken, Fresh, Readable
<1>3. Read \subseteq Issues
  BY DEF Read, Matches
<1> QED  BY <1>1, <1>2, <1>3 DEF Coverage

(* The issues a page stores. *)
Parsed == {i \in PageAt(Matches(cur, since), startAt) :
             ~Skips(i) /\ <<i, updated[i]>> \notin Unparsable}

(* What a page does to the tables and to the search. *)
LEMMA PageDoes ==
  ASSUME IInv, SyncPage
  PROVE  /\ pc = "pages" /\ cur \in Projects /\ db \in Tables /\ startAt \in Nat
         /\ UNCHANGED <<jiraVars, enabled, dry, pend, cur, full, since, fieldKind, torn>>
         /\ Parsed \subseteq Issues
         /\ \A i \in Parsed : ProjectOf[i] = cur /\ updated[i] > 0
         /\ db'.hist = db.hist /\ db'.done = db.done
         /\ db'.wm = db.wm /\ db'.flag = db.flag /\ db'.key = db.key /\ db'.kind = db.kind
         /\ \A i \in Issues :
               db'.stored[i] = IF ~dry /\ i \in Parsed THEN Fetched(i) ELSE db.stored[i]
         /\ dry => db' = db
         /\ ~dry => tx = db /\ tx' = db'
         /\ overtaken' = IF dry THEN overtaken ELSE overtaken \ Parsed
         /\ missed' = IF dry THEN missed ELSE missed \ Parsed
         /\ changed' = changed \cup Parsed
         /\ startAt' = startAt + PageSize
         /\ IF startAt + PageSize < Cardinality(Matches(cur, since))
            THEN pc' = "pages"
            ELSE pc' = AfterSearch /\ left' = changed'
<1>1. /\ pc = "pages" /\ cur \in Projects /\ db \in Tables /\ startAt \in Nat
      /\ ~dry => tx = db
  BY DEF SyncPage, IInv, TypeOK, InTheRun, Committed
<1>2. Parsed \subseteq Issues /\ \A i \in Parsed : ProjectOf[i] = cur /\ updated[i] > 0
  BY DEF Parsed, PageAt, Matches
<1>3. /\ Commit([tx EXCEPT !.stored =
             [i \in Issues |-> IF i \in Parsed THEN Fetched(i) ELSE tx.stored[i]]])
      /\ overtaken' = (IF dry THEN overtaken ELSE overtaken \ Parsed)
      /\ missed' = (IF dry THEN missed ELSE missed \ Parsed)
      /\ changed' = changed \cup Parsed
  BY DEF SyncPage, Parsed
<1>4. /\ UNCHANGED <<jiraVars, enabled, dry, pend, cur, full, since, fieldKind, torn>>
      /\ startAt' = startAt + PageSize
      /\ IF startAt + PageSize < Cardinality(Matches(cur, since))
         THEN pc' = "pages"
         ELSE pc' = AfterSearch /\ left' = changed'
  BY DEF SyncPage
<1>5. CASE dry
  BY <1>1, <1>2, <1>3, <1>4, <1>5 DEF Commit
<1>6. CASE ~dry
  <2>1. /\ db'.hist = db.hist /\ db'.done = db.done /\ tx' = db'
        /\ db'.wm = db.wm /\ db'.flag = db.flag /\ db'.key = db.key /\ db'.kind = db.kind
        /\ \A i \in Issues : db'.stored[i] = IF i \in Parsed THEN Fetched(i) ELSE db.stored[i]
    BY <1>1, <1>3, <1>6 DEF Commit, Tables
  <2> QED  BY <2>1, <1>1, <1>2, <1>3, <1>4, <1>6
<1> QED  BY <1>5, <1>6

(* After a page the search has taken what it had and the page: the rest is *)
(* stored already, beyond the parser, or has been overtaken.               *)
LEMMA PageTakes ==
  ASSUME IInv, SyncPage, ~dry, NEW i \in Matches(cur, since) \ overtaken',
         <<i, updated[i]>> \notin Unparsable,
         Rank(i, Matches(cur, since)) < startAt + PageSize
  PROVE  Taken(i)'
<1> DEFINE found == Matches(cur, since)
<1>1. i \in Issues
  BY DEF Matches
<1>2. CASE i \in Parsed
  <2>1. db'.stored[i] = Fetched(i) /\ i \in changed' /\ UNCHANGED updated
    BY <1>1, <1>2, PageDoes DEF jiraVars
  <2> QED  BY <2>1 DEF Taken, Fetched
<1>3. CASE i \notin Parsed
  <2>1. /\ db'.stored[i] = db.stored[i] /\ i \notin overtaken
        /\ UNCHANGED <<updated, full>> /\ changed \subseteq changed'
    BY <1>1, <1>3, PageDoes DEF jiraVars
  <2>2. Taken(i)
    <3>1. Rank(i, found) \in Nat /\ startAt \in Nat /\ pc = "pages"
      <4>1. found \in SUBSET Issues
        BY DEF Matches
      <4> QED  BY <4>1, RankBound, PageDoes DEF IInv
    <3>2. CASE Rank(i, found) < startAt
      BY <3>1, <3>2, <2>1 DEF IInv, Coverage, Read
    <3>3. CASE startAt <= Rank(i, found)
      <4>1. ~full /\ tx.stored[i].upd = updated[i]
        BY <1>3, <3>3 DEF Parsed, PageAt, Skips, SameHash
      <4> QED  BY <4>1 DEF Taken, IInv, Committed
    <3> QED  BY <3>1, <3>2, <3>3
  <2> QED  BY <2>1, <2>2 DEF Taken
<1> QED  BY <1>2, <1>3

(* So the last page leaves nothing of the answer out. *)
LEMMA LastPageTakes ==
  ASSUME IInv, SyncPage, ~dry, pc' # "pages",
         NEW i \in Matches(cur, since) \ overtaken', <<i, updated[i]>> \notin Unparsable
  PROVE  Taken(i)'
<1> DEFINE found == Matches(cur, since)
<1>1. found \in SUBSET Issues
  BY DEF Matches
<1>2. Rank(i, found) \in Nat /\ Cardinality(found) \in Nat /\ Rank(i, found) < Cardinality(found)
  BY <1>1, RankBound DEF IInv
<1>3. startAt + PageSize \in Nat /\ ~(startAt + PageSize < Cardinality(found))
  BY PageDoes, PagingAssumption
<1>4. Rank(i, found) < startAt + PageSize
  BY <1>2, <1>3
<1> QED  BY <1>4, PageTakes

(* A page is empty only if the whole answer is. *)
LEMMA EmptyAnswer ==
  ASSUME IInv, EmptyPage
  PROVE  Matches(cur, since) = {}
<1> DEFINE found == Matches(cur, since)
<1> SUFFICES ASSUME NEW i \in found PROVE FALSE
  OBVIOUS
<1>1. pc = "pages" /\ PageAt(found, startAt) = {} /\ found \in SUBSET Issues
  BY DEF EmptyPage, Matches
<1>2. startAt \in Nat
  BY DEF IInv, TypeOK
<1>3. Rank(i, found) \in Nat /\ Cardinality(found) \in Nat /\ Rank(i, found) < Cardinality(found)
  BY <1>1, RankBound DEF IInv
<1>4. startAt < Cardinality(found)
  BY <1>1, <1>2, <1>3 DEF IInv, Coverage
<1> QED  BY <1>1, <1>2, <1>4, PageNotEmpty DEF IInv

(* The inductive invariant holds initially. *)
LEMMA InvInit == Init => IInv
<1> SUFFICES ASSUME Init PROVE IInv
  OBVIOUS
<1>1. TypeOK /\ Stamps
  BY TypeInit
<1>2. \A i \in Issues : Fresh(db, i)
  BY DEF Init, Fresh
<1> QED
  BY <1>1, <1>2 DEF Init, IInv, Committed, DryPath, Existing, Coverage, Derived, HistoryDebt

(* An edit, even during a search: what it brings behind the offset unread  *)
(* counts as overtaken, and nothing else of the answer changes place       *)
(* unread.                                                                 *)
LEMMA InvEdit ==
  ASSUME IInv, TypeOK', Stamps', NEW i \in Issues, EditIssue(i)
  PROVE  IInv'
<1>1. PICK t \in Int : t > updated[i] /\ updated' = [updated EXCEPT ![i] = t]
  <2>1. clock \in Nat
    BY DEF IInv, TypeOK
  <2>2. PICK t \in (clock - Lag + 1) .. (clock + 1) :
           t > updated[i] /\ updated' = [updated EXCEPT ![i] = t]
    BY DEF EditIssue
  <2>3. t \in Int
    BY <2>1, <2>2, ClockAssumption
  <2> QED  BY <2>2, <2>3
<1>2. /\ UNCHANGED <<db, tx, pc, dry, cur, full, since, startAt, maxUpdated, changed, left, torn>>
      /\ overtaken' = IF pc = "pages" /\ ~dry
                      THEN overtaken \cup {j \in Read' : j = i \/ j \notin Read}
                      ELSE overtaken
  BY DEF EditIssue, runVars, searchVars
<1>3. \A j \in Issues : /\ updated[j] \in Nat /\ updated'[j] \in Nat /\ updated'[j] >= updated[j]
                        /\ j # i => updated'[j] = updated[j]
  <2>1. updated \in [Issues -> Nat] /\ updated' \in [Issues -> Nat]
    BY DEF IInv, TypeOK
  <2>2. \A j \in Issues : updated'[j] = IF j = i THEN t ELSE updated[j]
    BY <1>1, <2>1
  <2> QED  BY <1>1, <2>1, <2>2
<1>4. \A j \in Issues : Fresh(db', j) <=> Fresh(db, j)
  BY <1>2 DEF Fresh
<1>5. HistoryDebt'
  BY <1>2, <1>4 DEF IInv, HistoryDebt, Readable
<1>6. Existing'
  <2>1. \A j \in changed : j \in Issues
    BY DEF IInv, TypeOK
  <2>2. \A j \in changed : ProjectOf[j] = cur /\ updated'[j] > 0
    BY <2>1, <1>3 DEF IInv, Existing
  <2>3. \A j \in Issues : updated'[j] = 0 => Fresh(db, j)
    BY <1>3 DEF IInv, Existing
  <2> QED  BY <1>2, <1>4, <2>2, <2>3 DEF IInv, Existing
<1>7. Coverage'
  <2>1. ASSUME pc = "pages", ~dry, NEW j \in Read' \ overtaken', <<j, updated'[j]>> \notin Unparsable
        PROVE  Taken(j)'
    <3>1. j # i /\ j \in Read \ overtaken /\ j \in Issues
      BY <2>1, <1>2 DEF Read, Matches
    <3>2. updated'[j] = updated[j]
      BY <3>1, <1>3
    <3>3. Taken(j)
      BY <2>1, <3>1, <3>2 DEF IInv, Coverage
    <3> QED  BY <3>2, <3>3, <1>2 DEF Taken
  <2>2. ASSUME startAt > 0, pc = "pages" PROVE startAt < Cardinality(Matches(cur, since)')
    <3>1. PICK S, T \in SUBSET Issues : S = Matches(cur, since) /\ T = Matches(cur, since)'
      BY DEF Matches
    <3>2. S \subseteq T
      <4>1. JqlStart(since) \in Int /\ JqlStart(since)' = JqlStart(since)
        <5>1. since \in Nat /\ since' = since
          BY <1>2 DEF IInv, TypeOK
        <5>2. since % Minute \in Nat
          BY <5>1, ClockAssumption
        <5> QED  BY <5>1, <5>2 DEF JqlStart
      <4> QED  BY <3>1, <4>1, <1>2, <1>3 DEF Matches
    <3>3. IsFiniteSet(S) /\ IsFiniteSet(T)
      BY IssuesAssumption, FS_Subset
    <3>4. /\ Cardinality(S) \in Nat /\ Cardinality(T) \in Nat /\ Cardinality(S) <= Cardinality(T)
          /\ startAt \in Nat
      BY <3>2, <3>3, FS_Subset, FS_CardinalityType DEF IInv, TypeOK
    <3>5. startAt < Cardinality(S)
      BY <2>2, <3>1 DEF IInv, Coverage
    <3> QED  BY <3>1, <3>4, <3>5
  <2>3. ASSUME full, pc \in {"history", "first_done", "mark"}, NEW j \in Issues \ overtaken',
               ProjectOf[j] = cur, Readable(j), ~Fresh(db, j)
        PROVE  j \in changed
    BY <2>3, <1>2 DEF IInv, Coverage
  <2> QED  BY <2>1, <2>2, <2>3, <1>2, <1>4 DEF IInv, Coverage, Readable
<1> QED
  BY <1>2, <1>5, <1>6, <1>7 DEF IInv, Committed, DryPath, Derived

(* A step that leaves the tables and the place in a project alone, or that *)
(* ends a project or a run without touching rows or flags, keeps it.       *)
LEMMA InvIdle ==
  ASSUME IInv, TypeOK', Stamps',
         pc' \in {"idle", "catalog", "loop"}, changed' = {}, full' = FALSE,
         pc \in {"idle", "catalog", "loop", "dry_done"}, UNCHANGED <<updated, torn, overtaken>>,
         db'.stored = db.stored, db'.hist = db.hist, db'.done = db.done,
         \A p \in Projects : db.flag[p] => db'.flag[p],
         (~dry' \/ pc' = "idle") => tx' = db'
  PROVE  IInv'
<1>1. \A i \in Issues : Fresh(db', i) <=> Fresh(db, i)
  BY DEF Fresh
<1>2. HistoryDebt'
  BY <1>1, ProjectAssumption DEF IInv, HistoryDebt, Readable
<1>3. Existing'
  BY <1>1 DEF IInv, Existing
<1> QED
  BY <1>2, <1>3 DEF IInv, Committed, DryPath, Coverage, Derived

(* So does every step of a project that fails. *)
LEMMA InvFailed ==
  ASSUME IInv, TypeOK', Stamps',
         pc' \in {"idle", "loop"}, changed' = {}, full' = FALSE,
         pc \in {"pages", "history", "first_done", "mark"},
         UNCHANGED <<updated, torn, overtaken>>,
         db' = IF dry THEN db ELSE [db EXCEPT !.flag[cur] = TRUE],
         (~dry' \/ pc' = "idle") => tx' = db'
  PROVE  IInv'
<1>1. cur \in Projects /\ db \in Tables
  BY DEF IInv, TypeOK, InTheRun
<1>2. /\ db'.stored = db.stored /\ db'.hist = db.hist /\ db'.done = db.done
      /\ \A p \in Projects : db'.flag[p] = (db.flag[p] \/ (~dry /\ p = cur))
  BY <1>1 DEF Tables
<1>3. \A i \in Issues : Fresh(db', i) <=> Fresh(db, i)
  BY <1>2 DEF Fresh
<1>4. HistoryDebt'
  <2>1. ASSUME NEW i \in Issues \ (torn \cup overtaken), Readable(i), ~Fresh(db, i)
        PROVE  db'.flag[ProjectOf[i]]
    <3>1. ProjectOf[i] \in Projects
      BY ProjectAssumption
    <3>2. CASE db.flag[ProjectOf[i]]
      BY <3>1, <3>2, <1>2
    <3>3. CASE ~dry /\ i \in changed
      BY <3>1, <3>3, <1>2 DEF IInv, Existing
    <3> QED  BY <2>1, <3>2, <3>3 DEF IInv, HistoryDebt
  <2> QED  BY <2>1, <1>3 DEF HistoryDebt, Readable
<1>5. Existing'
  BY <1>3 DEF IInv, Existing
<1> QED
  BY <1>4, <1>5 DEF IInv, Committed, DryPath, Coverage, Derived

(* The death of the process keeps it too: what it had loaded and not       *)
(* derived is torn, and nothing else.                                      *)
LEMMA InvCrash ==
  ASSUME IInv, TypeOK', Stamps', Crash
  PROVE  IInv'
<1>1. /\ tx' = db' /\ pc' = "idle" /\ changed' = {} /\ full' = FALSE
      /\ UNCHANGED <<updated, db, overtaken>>
      /\ torn' = torn \cup {i \in changed : ~dry /\ ~Fresh(db, i)}
  BY DEF Crash, EndRun, ForgetProject, jiraVars
<1>2. HistoryDebt'
  <2>1. ASSUME NEW i \in Issues \ (torn' \cup overtaken), Readable(i), ~Fresh(db, i)
        PROVE  db.flag[ProjectOf[i]]
    BY <2>1, <1>1 DEF IInv, HistoryDebt
  <2> QED  BY <2>1, <1>1 DEF HistoryDebt, Readable, Fresh
<1>3. Existing'
  BY <1>1 DEF IInv, Existing, Fresh
<1> QED
  BY <1>1, <1>2, <1>3 DEF IInv, Committed, DryPath, Coverage, Derived

(* A project begins with every debt flagged and nothing read. *)
LEMMA InvBegin ==
  ASSUME IInv, TypeOK', Stamps', NEW p \in Projects, BeginProject(p)
  PROVE  IInv'
<1>1. /\ UNCHANGED <<updated, db, tx, dry, torn, overtaken>> /\ pc = "loop" /\ pc' = "pages"
      /\ changed' = {} /\ startAt' = 0 /\ cur' = p /\ (full' => since' = Never)
  BY DEF BeginProject, jiraVars, faultVars, lossVars
<1>2. HistoryDebt' /\ Existing'
  BY <1>1 DEF IInv, HistoryDebt, Existing, Fresh, Readable
<1>3. Coverage'
  <2>1. Read' = {}
    <3> SUFFICES ASSUME NEW i \in Read' PROVE FALSE
      OBVIOUS
    <3>1. PICK S \in SUBSET Issues : S = Matches(cur, since)' /\ i \in S
      BY DEF Read, Matches
    <3>2. Rank(i, S) \in Nat
      BY <3>1, RankBound DEF IInv
    <3>3. Rank(i, Matches(cur, since))' = Rank(i, S)
      BY <1>1, <3>1 DEF Rank, Before
    <3> QED  BY <3>2, <3>3, <1>1 DEF Read
  <2> QED  BY <1>1, <2>1 DEF Coverage
<1> QED
  BY <1>1, <1>2, <1>3 DEF IInv, Committed, DryPath, Derived

(* A page stores rows of its own issues only, and the last one of a full   *)
(* resync leaves no stale row of the project behind.                       *)
LEMMA InvPage ==
  ASSUME IInv, TypeOK', Stamps', SyncPage
  PROVE  IInv'
<1> DEFINE found == Matches(cur, since)
<1>1. UNCHANGED <<updated, cur, full, since, dry, torn>> /\ pc = "pages" /\ cur \in Projects
  BY PageDoes DEF jiraVars
<1>2. /\ pc' \in {"pages", AfterSearch} /\ startAt' = startAt + PageSize
      /\ changed' = changed \cup Parsed /\ changed' \subseteq Issues
      /\ pc' # "pages" => left' = changed'
  BY PageDoes DEF TypeOK
<1>3. \A i \in Issues : dry \/ i \notin Parsed => (Fresh(db', i) <=> Fresh(db, i))
  BY PageDoes DEF Fresh
<1>4. HistoryDebt'
  <2>1. ASSUME NEW i \in Issues \ (torn \cup overtaken'), Readable(i), ~Fresh(db', i)
        PROVE  db'.flag[ProjectOf[i]] \/ (~dry /\ i \in changed')
    <3>1. db'.flag = db.flag
      BY PageDoes
    <3>2. CASE i \in Parsed /\ ~dry
      BY <3>2, <1>2
    <3>3. CASE i \notin Parsed \/ dry
      <4>1. ~Fresh(db, i) /\ i \notin overtaken
        BY <2>1, <3>3, <1>3, PageDoes
      <4> QED  BY <2>1, <4>1, <3>1, <1>2 DEF IInv, HistoryDebt
    <3> QED  BY <3>2, <3>3
  <2>2. ~dry => pc' \in {"pages", "history"}
    BY <1>2 DEF AfterSearch
  <2> QED  BY <2>1, <2>2, <1>1 DEF HistoryDebt, Readable
<1>5. Existing'
  <2>1. \A i \in changed' : ProjectOf[i] = cur /\ updated[i] > 0
    BY <1>2, PageDoes DEF IInv, Existing
  <2>2. ASSUME NEW i \in Issues, updated[i] = 0 PROVE Fresh(db', i)
    <3>1. i \notin Parsed
      BY <2>2, PageDoes
    <3> QED  BY <3>1, <2>2, <1>3 DEF IInv, Existing
  <2>3. pc' \notin {"idle", "catalog", "loop"}
    BY <1>2 DEF AfterSearch
  <2> QED  BY <2>1, <2>2, <2>3, <1>1 DEF Existing
<1>6. Coverage'
  <2>1. /\ Matches(cur, since)' = found
        /\ \A i : Rank(i, Matches(cur, since))' = Rank(i, found)
    BY <1>1, SameAnswer
  <2>2. Read' = {i \in found : Rank(i, found) < startAt + PageSize}
    BY <2>1, <1>2 DEF Read
  <2>3. ASSUME ~dry, NEW i \in Read' \ overtaken', <<i, updated[i]>> \notin Unparsable
        PROVE  Taken(i)'
    BY <2>2, <2>3, PageTakes
  <2>4. pc' = "pages" => startAt + PageSize < Cardinality(found)
    BY PageDoes DEF AfterSearch
  <2>5. ASSUME full, pc' = "history", NEW i \in Issues \ overtaken',
               ProjectOf[i] = cur, Readable(i), ~Fresh(db', i)
        PROVE  i \in changed'
    <3>1. updated[i] \in Nat /\ updated[i] # 0
      BY <2>5, <1>1, <1>5 DEF Existing, IInv, TypeOK
    <3>2. i \in found
      BY <2>5, <3>1, <1>1, FullSearch DEF IInv, Coverage
    <3>3. ~dry /\ pc' # "pages" /\ <<i, updated[i]>> \notin Unparsable
      BY <2>5, <1>2 DEF AfterSearch, Readable
    <3>4. Taken(i)'
      BY <2>5, <3>2, <3>3, LastPageTakes
    <3> QED  BY <2>5, <3>4, <1>1 DEF Taken
  <2>6. /\ full' => since' = Never
        /\ pc' \in {"pages", "dry_done", "history"}
    BY <1>1, <1>2 DEF IInv, Coverage, AfterSearch
  <2> QED  BY <2>1, <2>3, <2>4, <2>5, <2>6, <1>1, <1>2 DEF Coverage, Readable
<1>7. Derived'
  BY <1>2 DEF Derived, AfterSearch
<1>8. Committed' /\ DryPath'
  <2>1. ~dry => tx' = db'
    BY PageDoes
  <2> QED  BY <2>1, <1>1, <1>2 DEF Committed, DryPath, AfterSearch
<1> QED
  BY <1>4, <1>5, <1>6, <1>7, <1>8 DEF IInv

(* An empty page ends a full resync of a project without issues only. *)
LEMMA InvEmptyPage ==
  ASSUME IInv, TypeOK', Stamps', EmptyPage
  PROVE  IInv'
<1>1. /\ pc = "pages" /\ pc' = AfterSearch /\ left' = changed
      /\ UNCHANGED <<updated, cur, full, since, dry, db, tx, changed, torn, overtaken>>
      /\ TypeOK /\ cur \in Projects
  BY DEF IInv, TypeOK, InTheRun, EmptyPage, jiraVars, faultVars, lossVars
<1>2. Coverage'
  <2>1. ASSUME full, NEW i \in Issues, ProjectOf[i] = cur, ~Fresh(db, i) PROVE FALSE
    <3>1. updated[i] \in Nat /\ updated[i] # 0
      BY <2>1 DEF Existing, IInv, TypeOK
    <3>2. i \in Matches(cur, since)
      BY <2>1, <3>1, <1>1, FullSearch DEF IInv, Coverage
    <3> QED  BY <3>2, EmptyAnswer
  <2>2. pc' # "pages"
    BY <1>1 DEF AfterSearch
  <2> QED  BY <2>1, <2>2, <1>1 DEF IInv, Coverage, Fresh
<1>3. HistoryDebt'
  BY <1>1 DEF IInv, HistoryDebt, Fresh, AfterSearch, Readable
<1>4. Existing' /\ Derived' /\ Committed' /\ DryPath'
  BY <1>1 DEF IInv, Existing, Derived, Committed, DryPath, AfterSearch, Fresh
<1> QED
  BY <1>2, <1>3, <1>4 DEF IInv

(* A chunk of histories makes its issues derived and no other one stale. *)
LEMMA InvDerive ==
  ASSUME IInv, TypeOK', Stamps', DeriveHistory
  PROVE  IInv'
<1>1. PICK c \in Chunks(left) :
         /\ Commit([tx EXCEPT !.hist =
               [i \in Issues |-> IF i \in c THEN tx.stored[i] ELSE tx.hist[i]]])
         /\ pc' = IF left = c THEN "first_done" ELSE "history"
         /\ left' = IF left = c THEN changed ELSE left \ c
  BY DEF DeriveHistory
<1>2. /\ pc = "history" /\ ~dry /\ tx = db /\ db \in Tables
      /\ UNCHANGED <<updated, cur, full, since, startAt, dry, changed, torn, overtaken>>
      /\ left \subseteq changed /\ changed \subseteq Issues /\ c \subseteq left
  BY DEF DeriveHistory, IInv, TypeOK, Committed, DryPath, Chunks, jiraVars,
         faultVars, lossVars
<1>3. /\ tx' = db' /\ db'.stored = db.stored /\ db'.done = db.done /\ db'.flag = db.flag
      /\ \A i \in Issues : db'.hist[i] = IF i \in c THEN db.stored[i] ELSE db.hist[i]
  BY <1>1, <1>2 DEF Commit, Tables
<1>4. \A i \in Issues : i \notin c => (Fresh(db', i) <=> Fresh(db, i))
  BY <1>3 DEF Fresh
<1>5. HistoryDebt'
  <2>1. ASSUME NEW i \in Issues \ (torn \cup overtaken), Readable(i), ~Fresh(db', i)
        PROVE  db'.flag[ProjectOf[i]] \/ i \in changed'
    BY <2>1, <1>2, <1>3, <1>4 DEF IInv, HistoryDebt
  <2> QED  BY <2>1, <1>1, <1>2 DEF HistoryDebt, Readable
<1>6. Existing'
  <2>1. \A i \in Issues : updated[i] = 0 => Fresh(db', i)
    BY <1>2, <1>4 DEF IInv, Existing
  <2> QED  BY <2>1, <1>1, <1>2 DEF IInv, Existing
<1>7. Coverage'
  <2>1. ASSUME full, NEW i \in Issues \ overtaken, ProjectOf[i] = cur, Readable(i), ~Fresh(db', i)
        PROVE  i \in changed
    BY <2>1, <1>2, <1>4 DEF IInv, Coverage
  <2> QED  BY <2>1, <1>1, <1>2 DEF IInv, Coverage, Readable
<1>8. Derived'
  <2>1. \A i \in changed \ (left \ c) : db'.hist[i] = db'.stored[i]
    BY <1>2, <1>3 DEF IInv, Derived
  <2> QED  BY <2>1, <1>1, <1>2 DEF Derived
<1>9. Committed' /\ DryPath'
  <2>1. pc' # "dry_done"
    BY <1>1
  <2> QED  BY <2>1, <1>2, <1>3 DEF Committed, DryPath
<1> QED
  BY <1>5, <1>6, <1>7, <1>8, <1>9 DEF IInv

(* Likewise a chunk of first_done_at. *)
LEMMA InvFirstDone ==
  ASSUME IInv, TypeOK', Stamps', UpdateFirstDoneAt
  PROVE  IInv'
<1>1. PICK c \in Chunks(left) :
         /\ Commit([tx EXCEPT !.done =
               [i \in Issues |-> IF i \in c THEN tx.hist[i] ELSE tx.done[i]]])
         /\ pc' = IF left = c THEN "mark" ELSE "first_done"
         /\ left' = left \ c
         /\ torn' = torn \ c
  BY DEF UpdateFirstDoneAt
<1>2. /\ pc = "first_done" /\ ~dry /\ tx = db /\ db \in Tables
      /\ UNCHANGED <<updated, cur, full, since, startAt, dry, changed, overtaken>>
      /\ left \subseteq changed /\ changed \subseteq Issues /\ c \subseteq left
  BY DEF UpdateFirstDoneAt, IInv, TypeOK, Committed, DryPath, Chunks, jiraVars,
         faultVars, lossVars
<1>3. /\ tx' = db' /\ db'.stored = db.stored /\ db'.hist = db.hist /\ db'.flag = db.flag
      /\ \A i \in Issues : db'.done[i] = IF i \in c THEN db.hist[i] ELSE db.done[i]
  BY <1>1, <1>2 DEF Commit, Tables
<1>4. /\ \A i \in changed : db'.hist[i] = db'.stored[i]
      /\ \A i \in changed \ left' : db'.done[i] = db'.stored[i]
  BY <1>1, <1>2, <1>3 DEF IInv, Derived
<1>5. \A i \in Issues : i \notin c => (Fresh(db', i) <=> Fresh(db, i))
  BY <1>3 DEF Fresh
<1>6. Derived'
  <2>1. pc' = "mark" => \A i \in changed : Fresh(db', i)
    BY <1>1, <1>2, <1>4 DEF Fresh
  <2> QED  BY <2>1, <1>1, <1>2, <1>4 DEF Derived
<1>7. HistoryDebt'
  <2>1. ASSUME NEW i \in Issues \ (torn' \cup overtaken), Readable(i), ~Fresh(db', i)
        PROVE  db'.flag[ProjectOf[i]] \/ (pc' = "first_done" /\ i \in changed')
    <3>1. i \notin c
      BY <2>1, <1>1, <1>2, <1>4 DEF Fresh
    <3>2. db.flag[ProjectOf[i]] \/ i \in changed
      BY <2>1, <3>1, <1>1, <1>5 DEF IInv, HistoryDebt
    <3>3. pc' = "mark" => i \notin changed
      BY <2>1, <1>1, <1>2, <1>4 DEF Fresh
    <3> QED  BY <3>2, <3>3, <1>1, <1>2, <1>3
  <2> QED  BY <2>1, <1>2 DEF HistoryDebt, Readable
<1>8. Existing'
  <2>1. \A i \in Issues : updated[i] = 0 => Fresh(db', i)
    BY <1>2, <1>5 DEF IInv, Existing
  <2> QED  BY <2>1, <1>1, <1>2 DEF IInv, Existing
<1>9. Coverage'
  <2>1. ASSUME full, NEW i \in Issues \ overtaken, ProjectOf[i] = cur, Readable(i), ~Fresh(db', i)
        PROVE  i \in changed
    BY <2>1, <1>2, <1>5 DEF IInv, Coverage
  <2> QED  BY <2>1, <1>1, <1>2 DEF IInv, Coverage, Readable
<1>10. Committed' /\ DryPath'
  <2>1. pc' # "dry_done"
    BY <1>1
  <2> QED  BY <2>1, <1>2, <1>3 DEF Committed, DryPath
<1> QED
  BY <1>6, <1>7, <1>8, <1>9, <1>10 DEF IInv

(* A request is withdrawn only by a full resync, which has loaded all that *)
(* was stale in the project.                                               *)
LEMMA InvFinish ==
  ASSUME IInv, TypeOK', Stamps', FinishProject
  PROVE  IInv'
<1>1. /\ pc = "mark" /\ pc' = "loop" /\ ~dry /\ tx = db /\ db \in Tables
      /\ cur \in Projects /\ changed' = {} /\ full' = FALSE
      /\ UNCHANGED <<updated, dry, torn, overtaken>>
  BY DEF FinishProject, ForgetProject, IInv, TypeOK, Committed, DryPath, InTheRun, jiraVars,
         faultVars, lossVars
<1>2. /\ tx' = db' /\ db'.stored = db.stored /\ db'.hist = db.hist /\ db'.done = db.done
      /\ \A p \in Projects : db'.flag[p] = (db.flag[p] /\ ~(p = cur /\ full))
  BY <1>1 DEF FinishProject, Commit, Tables
<1>3. \A i \in Issues : Fresh(db', i) <=> Fresh(db, i)
  BY <1>2 DEF Fresh
<1>4. HistoryDebt'
  <2>1. ASSUME NEW i \in Issues \ (torn \cup overtaken), Readable(i), ~Fresh(db, i)
        PROVE  db'.flag[ProjectOf[i]]
    <3>1. ProjectOf[i] \in Projects /\ db.flag[ProjectOf[i]]
      BY <2>1, <1>1, ProjectAssumption DEF IInv, HistoryDebt
    <3>2. ~(ProjectOf[i] = cur /\ full)
      BY <2>1, <1>1 DEF IInv, Coverage, Derived
    <3> QED  BY <3>1, <3>2, <1>2
  <2> QED  BY <2>1, <1>1, <1>3 DEF HistoryDebt, Readable
<1>5. Existing'
  BY <1>1, <1>3 DEF IInv, Existing
<1> QED
  BY <1>1, <1>2, <1>4, <1>5 DEF IInv, Committed, DryPath, Coverage, Derived

(* The invariant is inductive: whatever Jira, the administrator and the    *)
(* machine do meanwhile.                                                   *)
LEMMA InvStep == IInv /\ [Next]_vars => IInv'
<1> SUFFICES ASSUME IInv, [Next]_vars PROVE IInv'
  OBVIOUS
<1>1. TypeOK' /\ Stamps'
  BY TypeStep DEF IInv
<1>2. CASE \E i \in Issues : EditIssue(i)
  BY <1>1, <1>2, InvEdit
<1>3. CASE \/ \E p \in Projects : RenameProject(p) \/ SetProjectEnabled(p)
           \/ ChangeKind \/ UNCHANGED vars
  <2>1. UNCHANGED <<updated, db, tx, pc, dry, cur, full, since, startAt, changed, left, torn,
                    overtaken>>
    BY <1>3 DEF RenameProject, ChangeKind, SetProjectEnabled, vars, jiraVars, runVars,
                searchVars, faultVars, lossVars
  <2>2. Coverage'
    BY <2>1, SameCoverage DEF IInv
  <2> QED
    BY <1>1, <2>1, <2>2 DEF IInv, Committed, DryPath, Existing, Derived, HistoryDebt,
                            Fresh, Readable
<1>4. CASE \E d \in BOOLEAN, s \in Scopes : StartRun(d, s)
  <2>1. /\ pc = "idle" /\ pc' = "catalog"
        /\ UNCHANGED <<updated, db, tx, full, changed, torn, overtaken>>
    BY <1>4 DEF StartRun, jiraVars, searchVars, faultVars, lossVars
  <2>2. full' = FALSE /\ changed' = {} /\ tx = db
    BY <2>1 DEF IInv, Existing, TypeOK, Committed
  <2> QED  BY <1>1, <2>1, <2>2, InvIdle
<1>5. CASE Crash
  BY <1>1, <1>5, InvCrash
<1>6. CASE SyncPage
  BY <1>1, <1>6, InvPage
<1>7. CASE EmptyPage
  BY <1>1, <1>7, InvEmptyPage
<1>8. CASE DeriveHistory
  BY <1>1, <1>8, InvDerive
<1>9. CASE UpdateFirstDoneAt
  BY <1>1, <1>9, InvFirstDone
<1>10. CASE FinishProject
  BY <1>1, <1>10, InvFinish
<1>11. CASE \E p \in Projects : BeginProject(p)
  BY <1>1, <1>11, InvBegin
<1>12. CASE SyncCatalog
  <2>1. /\ pc = "catalog" /\ pc' = "loop" /\ tx \in Tables
        /\ UNCHANGED <<updated, full, changed, dry, torn, overtaken>>
        /\ Commit([tx EXCEPT !.key = keyOf, !.kind = kindOf])
    BY <1>12 DEF SyncCatalog, IInv, TypeOK, jiraVars, searchVars,
                faultVars, lossVars
  <2>2. full' = FALSE /\ changed' = {}
    BY <2>1 DEF IInv, Existing, TypeOK
  <2>3. /\ db'.stored = db.stored /\ db'.hist = db.hist /\ db'.done = db.done
        /\ db'.flag = db.flag /\ (~dry' => tx' = db')
    BY <2>1 DEF Commit, IInv, Committed, Tables
  <2> QED  BY <1>1, <2>1, <2>2, <2>3, InvIdle
<1>13. CASE \E p \in Projects : RequestFullResync(p)
  <2>1. PICK p \in Projects : RequestFullResync(p)
    BY <1>13
  <2>2. /\ pc = "loop" /\ pc' = "loop" /\ tx \in Tables
        /\ UNCHANGED <<updated, full, changed, dry, torn, overtaken>>
        /\ Commit([tx EXCEPT !.flag[p] = TRUE])
    BY <2>1 DEF RequestFullResync, IInv, TypeOK, jiraVars, searchVars,
                faultVars, lossVars
  <2>3. full' = FALSE /\ changed' = {}
    BY <2>2 DEF IInv, Existing, TypeOK
  <2>4. /\ db'.stored = db.stored /\ db'.hist = db.hist /\ db'.done = db.done
        /\ \A r \in Projects : db.flag[r] => db'.flag[r]
        /\ ~dry' => tx' = db'
    BY <2>2 DEF Commit, IInv, Committed, Tables
  <2> QED  BY <1>1, <2>2, <2>3, <2>4, InvIdle
<1>14. CASE CatalogFails \/ DryRunDone
  <2>1. /\ pc \in {"catalog", "dry_done"} /\ pc' \in {"idle", "loop"}
        /\ changed' = {} /\ full' = FALSE /\ UNCHANGED <<updated, db, torn, overtaken>>
        /\ tx' = db'
    BY <1>14 DEF CatalogFails, DryRunDone, EndRun, ForgetProject, jiraVars, faultVars, lossVars
  <2> QED  BY <1>1, <2>1, InvIdle
<1>15. CASE ProjectFails \/ AuthFails
  <2>1. /\ pc \in {"pages", "history", "first_done", "mark"} /\ pc' \in {"idle", "loop"}
        /\ changed' = {} /\ full' = FALSE /\ UNCHANGED <<updated, torn, overtaken>>
    BY <1>15 DEF ProjectFails, AuthFails, EndRun, ForgetProject, jiraVars, faultVars, lossVars
  <2>2. /\ db' = IF dry THEN db ELSE [db EXCEPT !.flag[cur] = TRUE]
        /\ (~dry' \/ pc' = "idle") => tx' = db'
    <3>1. CASE ProjectFails
      BY <3>1 DEF ProjectFails, MarkFailed, Commit
    <3>2. CASE AuthFails
      BY <3>2 DEF AuthFails
    <3> QED  BY <1>15, <3>1, <3>2
  <2> QED  BY <1>1, <2>1, <2>2, InvFailed
<1>16. CASE FinishRun
  <2>1. /\ pc = "loop" /\ pc' = "idle" /\ changed' = {} /\ full' = FALSE
        /\ UNCHANGED <<updated, torn, overtaken>> /\ db' = db /\ tx' = db'
    BY <1>16 DEF FinishRun, EndRun, ForgetProject, jiraVars, faultVars, lossVars, IInv, Committed
  <2> QED  BY <1>1, <2>1, InvIdle
<1> QED
  BY <1>2, <1>3, <1>4, <1>5, <1>6, <1>7, <1>8, <1>9, <1>10, <1>11, <1>12, <1>13, <1>14,
     <1>15, <1>16 DEF Next, Step

(* What a run knows of the tables is always true, whatever fails, dies or  *)
(* is edited meanwhile: a search leaves no place out but by an edit, and   *)
(* what was loaded is followed up.                                         *)
THEOREM InvSafe == Spec => []IInv
<1>1. Init => IInv
  BY InvInit
<1>2. IInv /\ [Next]_vars => IInv'
  BY InvStep
<1> QED  BY <1>1, <1>2, PTL DEF Spec

(* No issue that can be parsed has a stale history without a resync being  *)
(* requested or its derivation being under way, but for those a process    *)
(* had in hand when it died, or an edit took from under a search, and that *)
(* no run has worked off since (R31, runner.py:111-134).                   *)
THEOREM HistoryDebtSafe == Spec => []HistoryDebt
<1>1. IInv => HistoryDebt
  BY DEF IInv
<1> QED  BY <1>1, InvSafe, PTL

(* Which steps write what: only the end of a project withdraws requests    *)
(* and writes a watermark, only a page stores rows, and only the catalog   *)
(* step writes the catalog.                                                *)
LEMMA TablesKept ==
  ASSUME IInv, [Next]_vars
  PROVE  /\ ~FinishProject => db'.wm = db.wm /\ \A p \in Projects : db.flag[p] => db'.flag[p]
         /\ ~SyncPage => db'.stored = db.stored
         /\ ~SyncCatalog => db'.key = db.key /\ db'.kind = db.kind
<1>1. (~dry => tx = db) /\ db \in Tables
  BY DEF IInv, Committed, TypeOK
<1>2. CASE \/ \E i \in Issues : EditIssue(i)
           \/ \E r \in Projects : RenameProject(r) \/ SetProjectEnabled(r)
           \/ ChangeKind
           \/ \E d \in BOOLEAN, s \in Scopes : StartRun(d, s)
           \/ \E r \in Projects : BeginProject(r)
           \/ EmptyPage \/ DryRunDone \/ CatalogFails \/ Crash \/ UNCHANGED vars
  BY <1>2 DEF EditIssue, RenameProject, SetProjectEnabled, ChangeKind, StartRun, BeginProject,
              EmptyPage, DryRunDone, CatalogFails, Crash, vars
<1>3. CASE SyncCatalog
  BY <1>1, <1>3 DEF SyncCatalog, Commit, Tables
<1>4. CASE \E r \in Projects : RequestFullResync(r)
  BY <1>1, <1>4 DEF RequestFullResync, Commit, Tables
<1>5. CASE SyncPage
  BY <1>1, <1>5 DEF SyncPage, Commit, Tables
<1>6. CASE DeriveHistory \/ UpdateFirstDoneAt
  BY <1>1, <1>6 DEF DeriveHistory, UpdateFirstDoneAt, Commit, Tables
<1>7. CASE ProjectFails \/ AuthFails
  BY <1>1, <1>7 DEF ProjectFails, AuthFails, MarkFailed, Commit, Tables
<1>8. CASE FinishRun
  BY <1>1, <1>8 DEF FinishRun
<1>9. CASE FinishProject
  <2>1. pc = "mark" /\ ~dry
    BY <1>9 DEF FinishProject, IInv, DryPath
  <2> QED  BY <1>1, <1>9, <2>1 DEF FinishProject, Commit, Tables
<1> QED  BY <1>2, <1>3, <1>4, <1>5, <1>6, <1>7, <1>8, <1>9 DEF Next, Step

(* What the end of a project leaves, and which requests it withdraws. *)
LEMMA FinishLeaves ==
  ASSUME IInv, FinishProject
  PROVE  /\ pc = "mark" /\ ~dry /\ tx = db /\ db \in Tables /\ cur \in Projects
         /\ db'.stored = db.stored /\ db'.hist = db.hist /\ db'.done = db.done
         /\ db'.key = db.key /\ db'.kind = db.kind
         /\ \A p \in Projects :
               /\ db'.flag[p] = (db.flag[p] /\ ~(p = cur /\ full))
               /\ db'.wm[p] = IF p = cur
                              THEN Nvl(NextWatermark(maxUpdated, since), db.wm[cur])
                              ELSE db.wm[p]
<1>1. pc = "mark" /\ ~dry /\ tx = db /\ db \in Tables /\ cur \in Projects
  BY DEF FinishProject, IInv, Committed, DryPath, TypeOK, InTheRun
<1> QED  BY <1>1 DEF FinishProject, Commit, Tables

(* The names and kinds of a run under way are those of Jira, which does    *)
(* not change them meanwhile.                                              *)
LEMMA NamedStep ==
  ASSUME Undisturbed, IInv, Named, [Next]_vars
  PROVE  Named'
<1> USE DEF InTheRun
<1>1. CASE \/ \E i \in Issues : EditIssue(i)
           \/ \E p \in Projects : RenameProject(p)
           \/ ChangeKind
           \/ \E d \in BOOLEAN, s \in Scopes : StartRun(d, s)
  <2>1. pc' \in {"idle", "catalog"}
    BY <1>1 DEF EditIssue, RenameProject, ChangeKind, StartRun, MayEdit, Undisturbed, runVars
  <2> QED  BY <2>1 DEF Named
<1>2. CASE \/ \E p \in Projects : SetProjectEnabled(p)
           \/ UNCHANGED vars
  BY <1>2 DEF SetProjectEnabled, vars, jiraVars, runVars, searchVars, Named
<1>3. CASE SyncCatalog
  <2>1. ~dry => db' = [tx EXCEPT !.key = keyOf, !.kind = kindOf] /\ tx \in Tables
    BY <1>3 DEF SyncCatalog, Commit, IInv, TypeOK
  <2>2. ~dry => db'.key = keyOf /\ db'.kind = kindOf
    BY <2>1 DEF Tables
  <2> QED  BY <1>3, <2>2 DEF SyncCatalog, Named, jiraVars
<1>4. CASE \/ CatalogFails \/ AuthFails \/ FinishRun \/ Crash
  BY <1>4 DEF CatalogFails, AuthFails, FinishRun, Crash, EndRun, Named
<1>5. CASE \/ \E p \in Projects : RequestFullResync(p) \/ BeginProject(p)
           \/ SyncPage \/ EmptyPage \/ DryRunDone \/ DeriveHistory \/ UpdateFirstDoneAt
           \/ FinishProject \/ ProjectFails
  <2>1. /\ UNCHANGED <<jiraVars, dry>> /\ pc \in {"loop"} \cup InTheRun
        /\ pc' \in InTheRun => fieldKind' = kindOf
    BY <1>5 DEF RequestFullResync, BeginProject, SyncPage, EmptyPage, DryRunDone,
       DeriveHistory, UpdateFirstDoneAt, FinishProject, ProjectFails, Named
  <2>2. ~dry => tx = db /\ db \in Tables
    BY DEF IInv, Committed, TypeOK
  <2>3. ~dry => db'.key = db.key /\ db'.kind = db.kind
    <3>1. CASE \E p \in Projects : RequestFullResync(p) \/ BeginProject(p)
      BY <2>2, <3>1 DEF RequestFullResync, BeginProject, Commit, Tables
    <3>2. CASE SyncPage \/ EmptyPage \/ DryRunDone
      BY <2>2, <3>2 DEF SyncPage, EmptyPage, DryRunDone, Commit, Tables
    <3>3. CASE DeriveHistory \/ UpdateFirstDoneAt
      BY <2>2, <3>3 DEF DeriveHistory, UpdateFirstDoneAt, Commit, Tables
    <3>4. CASE FinishProject
      BY <2>2, <3>4 DEF FinishProject, Commit, Tables
    <3>5. CASE ProjectFails
      BY <2>2, <3>5 DEF ProjectFails, MarkFailed, Commit, Tables
    <3> QED  BY <1>5, <3>1, <3>2, <3>3, <3>4, <3>5
  <2> QED  BY <2>1, <2>3 DEF Named, jiraVars
<1> QED  BY <1>1, <1>2, <1>3, <1>4, <1>5 DEF Next, Step

(* Without edits during runs no issue is ever overtaken, and what is loaded*)
(* is what Jira has.                                                       *)
LEMMA CalmStep ==
  ASSUME Undisturbed, CalmInv, IInv', [Next]_vars
  PROVE  Calm'
<1> USE DEF CalmInv, Calm
<1>1. Named'
  BY NamedStep
<1>2. CASE \/ \E i \in Issues : EditIssue(i)
           \/ \E p \in Projects : RenameProject(p) \/ RequestFullResync(p) \/ BeginProject(p)
           \/ ChangeKind
           \/ \E d \in BOOLEAN, s \in Scopes : StartRun(d, s)
           \/ SyncCatalog \/ DryRunDone \/ FinishProject \/ FinishRun
           \/ CatalogFails \/ ProjectFails \/ AuthFails \/ Crash
  <2>1. /\ pc' \in {"idle", "catalog", "loop"} \/ (pc' = "pages" /\ changed' = {})
        /\ overtaken' = overtaken
    BY <1>2 DEF EditIssue, RenameProject, ChangeKind, StartRun, MayEdit, Undisturbed, SyncCatalog,
       RequestFullResync, BeginProject, DryRunDone, FinishProject, FinishRun, CatalogFails,
       ProjectFails, AuthFails, Crash, EndRun, runVars, faultVars, lossVars
  <2>2. changed' = {}
    BY <2>1 DEF IInv, Existing
  <2> QED  BY <1>1, <2>1, <2>2 DEF Current
<1>3. CASE (\E p \in Projects : SetProjectEnabled(p)) \/ UNCHANGED vars
  <2>1. UNCHANGED <<jiraVars, db, pc, dry, cur, since, full, fieldKind, changed, overtaken>>
    BY <1>3 DEF SetProjectEnabled, vars, runVars, searchVars, faultVars, lossVars
  <2>2. Matches(cur, since)' = Matches(cur, since)
    BY <2>1, SameAnswer DEF jiraVars
  <2>3. Current'
    BY <2>1 DEF Current, Fetched, jiraVars
  <2> QED  BY <1>1, <2>1, <2>2, <2>3 DEF jiraVars
<1>4. CASE SyncPage
  <2>1. overtaken' = {}
    BY <1>4, PageDoes
  <2>2. Current'
    <3> SUFFICES ASSUME ~dry, NEW i \in changed' PROVE db'.stored[i] = Fetched(i)'
      BY <1>4, PageDoes DEF Current
    <3>1. i \in Issues /\ i \in changed \cup Parsed
      BY <1>4, PageDoes DEF IInv, TypeOK
    <3>2. db'.stored[i] = IF i \in Parsed THEN Fetched(i) ELSE db.stored[i]
      BY <1>4, <3>1, PageDoes
    <3>3. Fetched(i)' = Fetched(i)
      BY <1>4, PageDoes DEF Fetched, jiraVars
    <3> QED  BY <3>1, <3>2, <3>3 DEF Current
  <2>3. ASSUME full', pc' \in {"history", "first_done", "mark"}, NEW i \in Matches(cur, since)',
               <<i, updated'[i]>> \notin Unparsable
        PROVE  i \in changed'
    <3>1. /\ Matches(cur, since)' = Matches(cur, since) /\ UNCHANGED <<updated, full, dry>>
          /\ ~dry /\ pc' # "pages"
      BY <1>4, <2>3, PageDoes, SameAnswer DEF jiraVars, AfterSearch
    <3>2. Taken(i)'
      BY <1>4, <2>1, <2>3, <3>1, LastPageTakes
    <3> QED  BY <2>3, <3>2 DEF Taken
  <2> QED  BY <1>1, <2>1, <2>2, <2>3
<1>5. CASE EmptyPage
  <2>1. UNCHANGED <<jiraVars, db, dry, cur, since, fieldKind, changed, overtaken>>
    BY <1>5 DEF EmptyPage, faultVars, lossVars
  <2>2. Matches(cur, since)' = {}
    BY <1>5, <2>1, EmptyAnswer, SameAnswer DEF jiraVars
  <2>3. Current'
    BY <2>1 DEF Current, Fetched, jiraVars
  <2> QED  BY <1>1, <2>1, <2>2, <2>3
<1>6. CASE DeriveHistory \/ UpdateFirstDoneAt
  <2>1. /\ UNCHANGED <<jiraVars, dry, cur, since, full, fieldKind, changed, overtaken>>
        /\ pc \in {"history", "first_done"}
    BY <1>6 DEF DeriveHistory, UpdateFirstDoneAt, faultVars, lossVars
  <2>2. Matches(cur, since)' = Matches(cur, since)
    BY <2>1, SameAnswer DEF jiraVars
  <2>3. Current'
    <3>1. db'.stored = db.stored
      BY <1>6, TablesKept DEF SyncPage, DeriveHistory, UpdateFirstDoneAt
    <3> QED  BY <2>1, <3>1 DEF Current, Fetched, jiraVars
  <2> QED  BY <1>1, <2>1, <2>2, <2>3 DEF jiraVars
<1> QED  BY <1>2, <1>3, <1>4, <1>5, <1>6 DEF Next, Step

(* So it is always, if Jira changes only between runs. *)
LEMMA CalmSafe ==
  ASSUME Undisturbed
  PROVE  Spec => []CalmInv
<1>1. Init => CalmInv
  BY InvInit DEF Init, CalmInv, Calm, Named, Current, InTheRun
<1>2. CalmInv /\ [Next]_vars => CalmInv'
  BY InvStep, CalmStep DEF CalmInv
<1> QED  BY <1>1, <1>2, PTL DEF Spec

(* An issue that a full resync has taken is repaired when its project ends. *)
LEMMA TakenIsRepaired ==
  ASSUME CalmInv, FinishProject, full, NEW i \in Issues,
         ProjectOf[i] = cur, updated[i] > 0, <<i, updated[i]>> \notin Unparsable
  PROVE  Repaired(db', i)
<1>1. i \in changed
  <2>1. pc = "mark" /\ cur \in Projects
    BY FinishLeaves DEF CalmInv
  <2>2. i \in Matches(cur, since)
    BY <2>1, FullSearch DEF CalmInv, IInv, Coverage
  <2> QED  BY <2>1, <2>2 DEF CalmInv, Calm
<1>2. db.stored[i] = Fetched(i) /\ Fresh(db, i)
  BY <1>1, FinishLeaves DEF CalmInv, Calm, IInv, Current, Derived
<1>3. fieldKind = db.kind /\ keyOf = db.key
  BY FinishLeaves DEF CalmInv, Calm, Named, InTheRun
<1> QED  BY <1>2, <1>3, FinishLeaves DEF CalmInv, Repaired, Fresh, Fetched

(* While Jira stands still under a run, a request is withdrawn only by a   *)
(* step after which every issue that parses is stored as Jira has it, with *)
(* its history, whatever else of the project does not parse (runner.py:106)*)
THEOREM ClearedMeansRepairedSafe ==
  ASSUME Undisturbed
  PROVE  Spec => ClearedMeansRepaired
<1> DEFINE A == \A i \in Issues :
                  ( /\ db.flag[ProjectOf[i]]
                    /\ ~db'.flag[ProjectOf[i]]
                    /\ updated[i] > 0 /\ <<i, updated[i]>> \notin Unparsable )
                  => Repaired(db', i)
<1>1. CalmInv /\ [Next]_vars => [A]_vars
  <2> SUFFICES ASSUME CalmInv, [Next]_vars, NEW i \in Issues,
                      db.flag[ProjectOf[i]], ~db'.flag[ProjectOf[i]],
                      updated[i] > 0, <<i, updated[i]>> \notin Unparsable
               PROVE  Repaired(db', i)
    OBVIOUS
  <2>1. ProjectOf[i] \in Projects
    BY ProjectAssumption
  <2>2. FinishProject
    BY <2>1, TablesKept DEF CalmInv
  <2>3. ProjectOf[i] = cur /\ full
    BY <2>1, <2>2, FinishLeaves DEF CalmInv
  <2> QED  BY <2>2, <2>3, TakenIsRepaired
<1> QED  BY <1>1, CalmSafe, PTL DEF Spec, ClearedMeansRepaired

(* What a page leaves in the tables. *)
LEMMA PageLeaves ==
  ASSUME IInv, SyncPage
  PROVE  /\ db'.wm = db.wm /\ db'.flag = db.flag /\ db'.key = db.key /\ db'.kind = db.kind
         /\ \A i \in Issues :
               \/ db'.stored[i] = db.stored[i]
               \/ ~dry /\ ProjectOf[i] = cur /\ updated[i] > 0 /\ db'.stored[i] = Fetched(i)
BY PageDoes

(* JQL never searches from later than it is told. *)
LEMMA JqlStartIsEarlier ==
  ASSUME NEW s \in Nat
  PROVE  JqlStart(s) \in Int /\ JqlStart(s) <= s
<1>1. s % Minute \in Nat
  BY ClockAssumption
<1> QED  BY <1>1 DEF JqlStart

(* The order of an answer S in which u gives the times. *)
Earlier(u, x, y) == u[x] < u[y] \/ (u[x] = u[y] /\ x < y)
Place(u, S, n)   == Cardinality({z \in S : Earlier(u, z, n)})

(* An issue of the answer that gets later lets at most one other pass the  *)
(* k-th place: of two in places below k, the first or the second was there.*)
LEMMA OnePasses ==
  ASSUME NEW u \in [Issues -> Nat], NEW v \in [Issues -> Nat], NEW i \in Issues,
         \A z \in Issues \ {i} : v[z] = u[z],
         NEW M \in SUBSET Issues, NEW N \in SUBSET Issues, M \subseteq N, N \subseteq M \cup {i},
         NEW k \in Nat, NEW x \in N, NEW y \in N, Earlier(v, x, y),
         Place(v, N, y) < k
  PROVE  \/ x # i /\ x \in M /\ Place(u, M, x) < k
         \/ y # i /\ y \in M /\ Place(u, M, y) < k
<1> DEFINE B == {z \in N : Earlier(v, z, y)}
           C(a) == {z \in M : Earlier(u, z, a)}
<1>1. \A z \in Issues : z \in Nat /\ u[z] \in Nat /\ v[z] \in Nat
  BY IssuesAssumption
<1>2. IsFiniteSet(B) /\ Cardinality(B) \in Nat /\ x \in B
  <2>1. IsFiniteSet(N)
    BY IssuesAssumption, FS_Subset
  <2> QED  BY <2>1, FS_Subset, FS_CardinalityType
<1>3. ASSUME NEW a \in M, a # i, a = x \/ a = y, NEW z \in M, z # i, Earlier(u, z, a)
      PROVE  z \in B /\ z # a
  <2>1. Earlier(v, z, a) /\ z # a
    BY <1>1, <1>3 DEF Earlier
  <2>2. Earlier(v, z, y)
    BY <1>1, <1>3, <2>1 DEF Earlier
  <2> QED  BY <2>1, <2>2
<1>4. CASE x # i
  <2>1. IsFiniteSet(B \ {x}) /\ Cardinality(B \ {x}) = Cardinality(B) - 1
    BY <1>2, FS_RemoveElement
  <2>2. IsFiniteSet((B \ {x}) \cup {i})
        /\ Cardinality((B \ {x}) \cup {i}) \in Nat
        /\ Cardinality((B \ {x}) \cup {i}) <= Cardinality(B)
    <3> DEFINE D == B \ {x}
    <3>1. IsFiniteSet(D) /\ Cardinality(D) = Cardinality(B) - 1
      BY <2>1
    <3> HIDE DEF D
    <3>2. /\ IsFiniteSet(D \cup {i})
          /\ Cardinality(D \cup {i}) = Cardinality(D) \/ Cardinality(D \cup {i}) = Cardinality(D) + 1
      BY <3>1, FS_AddElement
    <3>3. Cardinality(D \cup {i}) <= Cardinality(B) /\ Cardinality(D \cup {i}) \in Nat
      BY <1>2, <3>1, <3>2, FS_CardinalityType
    <3> QED  BY <3>2, <3>3 DEF D
  <2>3. x \in M /\ C(x) \in SUBSET ((B \ {x}) \cup {i})
    <3>1. x \in M
      BY <1>4
    <3>2. ASSUME NEW z \in M, z # i, Earlier(u, z, x) PROVE z \in B \ {x}
      BY <3>1, <3>2, <1>3, <1>4
    <3> QED  BY <3>1, <3>2
  <2>4. Cardinality(C(x)) \in Nat /\ Cardinality(C(x)) <= Cardinality((B \ {x}) \cup {i})
    BY <2>2, <2>3, FS_Subset, FS_CardinalityType
  <2>5. Place(u, M, x) < k
    BY <1>2, <2>2, <2>4 DEF Place
  <2> QED  BY <1>4, <2>3, <2>5
<1>5. CASE x = i
  <2>1. y # i /\ y \in M
    BY <1>1, <1>5 DEF Earlier
  <2>2. C(y) \in SUBSET B
    BY <1>2, <1>3, <1>5, <2>1
  <2>3. Cardinality(C(y)) \in Nat /\ Cardinality(C(y)) <= Cardinality(B)
    BY <1>2, <2>2, FS_Subset, FS_CardinalityType
  <2>4. Place(u, M, y) < k
    BY <1>2, <2>3 DEF Place
  <2> QED  BY <2>1, <2>4
<1> QED  BY <1>4, <1>5

(* However long a search and however many edits fall into it, an edit makes*)
(* it miss at most one issue: what stands behind the one edited moves      *)
(* forward by one place (paging by offset, sync_issues.py:57-73).          *)
THEOREM AnEditCostsOne == Spec => [][\A j, k \in overtaken' \ overtaken : j = k]_vars
<1>1. IInv /\ IInv' /\ [Next]_vars => [\A j, k \in overtaken' \ overtaken : j = k]_vars
  <2> SUFFICES ASSUME IInv, IInv', [Next]_vars, NEW j \in overtaken' \ overtaken,
                      NEW k \in overtaken' \ overtaken, j # k
               PROVE  FALSE
    OBVIOUS
  <2>1. PICK i \in Issues : EditIssue(i)
    BY DEF Next, Step, RenameProject, SetProjectEnabled, ChangeKind, StartRun, SyncCatalog,
       RequestFullResync, BeginProject, SyncPage, EmptyPage, DryRunDone, DeriveHistory,
       UpdateFirstDoneAt, FinishProject, FinishRun, CatalogFails, ProjectFails, AuthFails, Crash,
       vars, faultVars, lossVars
  <2>2. PICK t \in Int : t > updated[i] /\ updated' = [updated EXCEPT ![i] = t]
    <3>1. clock \in Nat
      BY DEF IInv, TypeOK
    <3>2. PICK t \in (clock - Lag + 1) .. (clock + 1) :
             t > updated[i] /\ updated' = [updated EXCEPT ![i] = t]
      BY <2>1 DEF EditIssue
    <3>3. t \in Int
      BY <3>1, <3>2, ClockAssumption
    <3> QED  BY <3>2, <3>3
  <2>3. /\ UNCHANGED <<cur, since, startAt>> /\ startAt \in Nat /\ since \in Nat
        /\ \A n \in {j, k} : n \in Read' /\ (n = i \/ n \notin Read)
    BY <2>1 DEF EditIssue, runVars, searchVars, IInv, TypeOK
  <2>4. PICK u, v \in [Issues -> Nat] : u = updated /\ v = updated'
    BY DEF IInv, TypeOK
  <2>5. PICK M, N \in SUBSET Issues : M = Matches(cur, since) /\ N = Matches(cur, since)'
    BY DEF Matches
  <2>6. \A z \in Issues \ {i} : v[z] = u[z]
    BY <2>2, <2>4
  <2>7. M \subseteq N /\ N \subseteq M \cup {i}
    <3>1. v[i] > u[i]
      BY <2>2, <2>4
    <3>2. JqlStart(since) \in Int /\ JqlStart(since)' = JqlStart(since)
      <4>1. JqlStart(since)' = JqlStart(since)
        BY <2>3 DEF JqlStart
      <4> QED  BY <2>3, <4>1, JqlStartIsEarlier
    <3> QED  BY <2>3, <2>4, <2>5, <2>6, <3>1, <3>2 DEF Matches
  <2>8. \A n \in {j, k} :
           /\ n \in N /\ Place(v, N, n) < startAt
           /\ ~(n # i /\ n \in M /\ Place(u, M, n) < startAt)
    BY <2>3, <2>4, <2>5 DEF Read, Rank, Before, Place, Earlier
  <2>9. PICK x, y \in {j, k} : Earlier(v, x, y)
    <3>1. \A z \in Issues : z \in Nat /\ v[z] \in Nat
      BY IssuesAssumption
    <3> QED  BY <2>8, <3>1 DEF Earlier
  <2>10. startAt \in Nat /\ x \in N /\ y \in N /\ Place(v, N, y) < startAt
    BY <2>3, <2>8
  <2>11. \/ x # i /\ x \in M /\ Place(u, M, x) < startAt
         \/ y # i /\ y \in M /\ Place(u, M, y) < startAt
    BY <2>6, <2>7, <2>9, <2>10, OnePasses
  <2> QED  BY <2>8, <2>11
<1> QED  BY <1>1, InvSafe, PTL DEF Spec

(* The new watermark keeps its distance from the newest time of Jira. *)
LEMMA NextWatermarkClocked ==
  ASSUME NEW c \in Nat, NEW max \in Nat, NEW previous \in Nat, NEW old \in Nat,
         max <= c, max = Never \/ max > Overlap,
         previous \in {Never, old}, old + Overlap <= c
  PROVE  Nvl(NextWatermark(max, previous), old) + Overlap <= c
BY ClockAssumption DEF Nvl, NextWatermark, Never

(* Watermarks stay behind the clock. *)
LEMMA ClockedStep ==
  ASSUME IInv, TypeOK', Clocked, [Next]_vars
  PROVE  Clocked'
<1> USE DEF InTheRun, Never
<1>1. CASE \E i \in Issues : EditIssue(i)
  <2>1. PICK i \in Issues : EditIssue(i)
    BY <1>1
  <2>2. PICK t \in (clock - Lag + 1) .. (clock + 1) :
           /\ updated' = [updated EXCEPT ![i] = t]
           /\ clock' = IF t > clock THEN t ELSE clock
    BY <2>1 DEF EditIssue
  <2>a. /\ clock \in Nat /\ updated \in [Issues -> Nat] /\ maxUpdated \in Nat
        /\ \A p \in Projects : db.wm[p] \in Nat
    BY DEF IInv, TypeOK, Tables
  <2>3. t \in Int
    BY <2>2, <2>a, ClockAssumption
  <2>4. clock' \in Int /\ clock' >= clock /\ t <= clock'
    BY <2>2, <2>3, <2>a
  <2>5. \A j \in Issues : updated'[j] <= clock'
    BY <2>2, <2>3, <2>4, <2>a DEF Clocked
  <2>6. UNCHANGED <<db, pc, dry, cur, since, maxUpdated>>
    BY <2>1 DEF EditIssue, runVars, searchVars
  <2> QED  BY <2>3, <2>4, <2>5, <2>6, <2>a, ClockAssumption DEF Clocked
<1>2. CASE \E p \in Projects : BeginProject(p)
  <2>1. PICK p \in Projects : BeginProject(p)
    BY <1>2
  <2>2. /\ UNCHANGED <<updated, clock, db, dry>> /\ cur' = p /\ maxUpdated' = 0
        /\ since' \in {Never, tx.wm[p]}
    BY <2>1 DEF BeginProject, jiraVars
  <2>3. (~dry => tx = db) /\ clock \in Nat
    BY DEF IInv, Committed, TypeOK
  <2> QED  BY <2>2, <2>3 DEF Clocked
<1>3. CASE SyncPage
  <2>1. maxUpdated' \in {maxUpdated} \cup {updated[i] : i \in Issues}
    BY <1>3 DEF SyncPage, Greatest, PageAt, Matches
  <2>2. UNCHANGED <<updated, clock, dry, cur, since>> /\ pc \in InTheRun /\ db'.wm = db.wm
    BY <1>3, PageLeaves DEF SyncPage, jiraVars
  <2> QED  BY <2>1, <2>2 DEF Clocked
<1>4. CASE FinishProject
  <2>1. /\ UNCHANGED <<updated, clock, dry>> /\ pc' = "loop" /\ maxUpdated' = 0 /\ clock \in Nat
    BY <1>4 DEF FinishProject, ForgetProject, jiraVars, IInv, TypeOK
  <2>2. \A p \in Projects : db'.wm[p] + Overlap <= clock
    <3>1. pc = "mark" /\ ~dry /\ cur \in Projects /\ db.wm[cur] \in Nat
      BY <1>4, FinishLeaves DEF Tables
    <3>2. since \in {Never, db.wm[cur]} /\ db.wm[cur] + Overlap <= clock
          /\ maxUpdated <= clock /\ maxUpdated \in Nat /\ since \in Nat
          /\ (maxUpdated = Never \/ maxUpdated > Overlap)
      BY <3>1 DEF Clocked, IInv, TypeOK, Stamps
    <3>3. Nvl(NextWatermark(maxUpdated, since), db.wm[cur]) + Overlap <= clock
      BY <2>1, <3>1, <3>2, NextWatermarkClocked
    <3> QED  BY <1>4, <3>3, FinishLeaves DEF Clocked
  <2> QED  BY <2>1, <2>2 DEF Clocked
<1>5. CASE /\ ~ \E i \in Issues : EditIssue(i)
           /\ ~ \E p \in Projects : BeginProject(p)
           /\ ~SyncPage /\ ~FinishProject
  <2>1. db'.wm = db.wm /\ UNCHANGED <<updated, clock>> /\ clock \in Nat
    BY <1>5, TablesKept DEF Next, Step, RenameProject, SetProjectEnabled, ChangeKind, StartRun,
       SyncCatalog, RequestFullResync, EmptyPage, DryRunDone, DeriveHistory,
       UpdateFirstDoneAt, FinishRun, CatalogFails, ProjectFails, AuthFails, Crash, vars,
       jiraVars, IInv, TypeOK
  <2>2. /\ maxUpdated' \in {maxUpdated, 0}
        /\ \/ pc' \notin InTheRun
           \/ pc \in InTheRun /\ UNCHANGED <<dry, cur, since>>
    BY <1>5 DEF Next, Step, RenameProject, SetProjectEnabled, ChangeKind, StartRun,
       SyncCatalog, RequestFullResync, EmptyPage, DryRunDone, DeriveHistory,
       UpdateFirstDoneAt, FinishRun, CatalogFails, ProjectFails, AuthFails, Crash, vars,
       runVars, searchVars, EndRun, ForgetProject, MarkFailed
  <2> QED  BY <2>1, <2>2 DEF Clocked
<1> QED  BY <1>1, <1>2, <1>3, <1>4, <1>5

(* What a search leaves is swept, and stays so: edits meanwhile are recent.*)
LEMMA SweptStep ==
  ASSUME Punctual, IInv, TypeOK', Clocked, Swept, [Next]_vars
  PROVE  Swept'
<1> SUFFICES ASSUME pc' \in {"history", "first_done", "mark"},
                    NEW i \in Matches(cur, since)' \ overtaken', <<i, updated'[i]>> \notin Unparsable
             PROVE  db'.stored[i].upd = updated'[i] \/ updated'[i] + Overlap >= maxUpdated'
  BY DEF Swept
<1>a. i \in Issues
  BY DEF Matches
<1>1. CASE \E j \in Issues : EditIssue(j)
  <2>1. PICK j \in Issues : EditIssue(j)
    BY <1>1
  <2>2. PICK t \in (clock - Lag + 1) .. (clock + 1) : updated' = [updated EXCEPT ![j] = t]
    BY <2>1 DEF EditIssue
  <2>3. UNCHANGED <<db, pc, cur, since, maxUpdated, overtaken>>
    BY <2>1 DEF EditIssue, runVars, searchVars
  <2>4. CASE i = j
    <3>1. clock \in Nat /\ maxUpdated \in Nat /\ maxUpdated <= clock /\ maxUpdated' = maxUpdated
      BY <2>3 DEF IInv, TypeOK, Clocked
    <3>2. updated'[i] = t
      BY <2>2, <2>4 DEF IInv, TypeOK
    <3>3. t >= clock - Lag + 1 /\ t \in Int
      BY <2>2, <3>1, ClockAssumption
    <3> QED  BY <3>1, <3>2, <3>3, ClockAssumption DEF Punctual
  <2>5. CASE i # j
    <3>1. updated'[i] = updated[i]
      BY <2>2, <2>5, <1>a DEF IInv, TypeOK
    <3>2. i \in Matches(cur, since) \ overtaken
      BY <2>3, <3>1 DEF Matches, JqlStart
    <3> QED  BY <2>3, <3>1, <3>2 DEF Swept
  <2> QED  BY <2>4, <2>5
<1>2. CASE SyncPage
  <2>1. ~dry /\ pc' # "pages" /\ UNCHANGED updated /\ Matches(cur, since)' = Matches(cur, since)
    BY <1>2, PageDoes, SameAnswer DEF AfterSearch, jiraVars
  <2>2. Taken(i)'
    BY <1>2, <2>1, LastPageTakes
  <2> QED  BY <2>2 DEF Taken
<1>3. CASE EmptyPage
  <2>1. Matches(cur, since)' = {}
    BY <1>3, EmptyAnswer, SameAnswer DEF EmptyPage, jiraVars
  <2> QED  BY <2>1
<1>4. CASE \/ \E p \in Projects : RenameProject(p) \/ SetProjectEnabled(p)
           \/ ChangeKind \/ DeriveHistory \/ UpdateFirstDoneAt \/ UNCHANGED vars
  <2>1. /\ UNCHANGED <<updated, cur, since, maxUpdated, overtaken>>
        /\ pc \in {"history", "first_done", "mark"}
    BY <1>4 DEF RenameProject, ChangeKind, SetProjectEnabled, DeriveHistory, UpdateFirstDoneAt,
       vars, jiraVars, runVars, searchVars, faultVars, lossVars
  <2>2. db'.stored = db.stored
    BY <1>4, <2>1, TablesKept DEF SyncPage
  <2>3. Matches(cur, since)' = Matches(cur, since)
    BY <2>1, SameAnswer
  <2> QED  BY <2>1, <2>2, <2>3 DEF Swept
<1>5. CASE \/ \E p \in Projects : RequestFullResync(p) \/ BeginProject(p)
           \/ \E d \in BOOLEAN, s \in Scopes : StartRun(d, s)
           \/ SyncCatalog \/ DryRunDone \/ FinishProject \/ FinishRun
           \/ CatalogFails \/ ProjectFails \/ AuthFails \/ Crash
  <2>1. pc' \in {"idle", "catalog", "loop", "pages"}
    BY <1>5 DEF StartRun, SyncCatalog, RequestFullResync, BeginProject, DryRunDone, FinishProject,
       FinishRun, CatalogFails, ProjectFails, AuthFails, Crash, EndRun
  <2> QED  BY <2>1
<1> QED  BY <1>1, <1>2, <1>3, <1>4, <1>5 DEF Next, Step

(* No watermark passes an issue that can be parsed and is not stored as    *)
(* Jira has it: late edits are within the overlap, and what a search does  *)
(* not return is before the watermark it started from.                     *)
LEMMA CoversStep ==
  ASSUME Punctual, IInv, TypeOK', Clocked, Swept, WatermarkCovers, [Next]_vars
  PROVE  WatermarkCovers'
<1> SUFFICES ASSUME NEW i \in Issues \ overtaken', 0 < updated'[i],
                    updated'[i] < JqlStart(db'.wm[ProjectOf[i]]),
                    <<i, updated'[i]>> \notin Unparsable
             PROVE  db'.stored[i].upd = updated'[i]
  BY DEF WatermarkCovers, Covered, JqlStart
<1>a. ProjectOf[i] \in Projects
  BY ProjectAssumption
<1>1. CASE \E j \in Issues : EditIssue(j)
  <2>1. PICK j \in Issues : EditIssue(j)
    BY <1>1
  <2>2. PICK t \in (clock - Lag + 1) .. (clock + 1) : updated' = [updated EXCEPT ![j] = t]
    BY <2>1 DEF EditIssue
  <2>3. db' = db /\ overtaken \subseteq overtaken'
    BY <2>1 DEF EditIssue
  <2>4. CASE i = j
    <3>1. clock \in Nat /\ db.wm[ProjectOf[i]] \in Nat /\ db.wm[ProjectOf[i]] + Overlap <= clock
      BY <1>a DEF IInv, TypeOK, Tables, Clocked
    <3>2. updated'[i] = t
      BY <2>2, <2>4 DEF IInv, TypeOK
    <3>3. /\ JqlStart(db.wm[ProjectOf[i]]) \in Int
          /\ JqlStart(db.wm[ProjectOf[i]]) <= db.wm[ProjectOf[i]]
      BY <3>1, JqlStartIsEarlier
    <3>4. t >= clock - Lag + 1 /\ t \in Int
      BY <2>2, <3>1, ClockAssumption
    <3>5. t < JqlStart(db.wm[ProjectOf[i]])
      BY <2>3, <3>2
    <3> QED  BY <3>1, <3>3, <3>4, <3>5, ClockAssumption DEF Punctual
  <2>5. CASE i # j
    <3>1. updated'[i] = updated[i]
      BY <2>2, <2>5 DEF IInv, TypeOK
    <3> QED  BY <2>3, <3>1 DEF WatermarkCovers, Covered
  <2> QED  BY <2>4, <2>5
<1>2. CASE FinishProject
  <2>1. UNCHANGED <<updated, overtaken>>
    BY <1>2 DEF FinishProject, jiraVars, faultVars, lossVars
  <2>2. CASE ProjectOf[i] # cur
    BY <1>2, <1>a, <2>1, <2>2, FinishLeaves DEF WatermarkCovers, Covered
  <2>3. CASE ProjectOf[i] = cur /\ i \in Matches(cur, since)
    <3>1. /\ pc = "mark" /\ ~dry /\ db'.stored = db.stored /\ cur \in Projects
          /\ db'.wm[cur] = Nvl(NextWatermark(maxUpdated, since), db.wm[cur])
      BY <1>2, FinishLeaves
    <3>2. since \in {Never, db.wm[cur]} /\ db.wm[cur] \in Nat
      BY <3>1 DEF Clocked, InTheRun, IInv, TypeOK, Tables
    <3>3. CASE maxUpdated = Never
      <4>1. db'.wm[cur] = db.wm[cur]
        BY <3>1, <3>2, <3>3 DEF Nvl, NextWatermark
      <4> QED  BY <2>1, <2>3, <3>1, <4>1 DEF WatermarkCovers, Covered
    <3>4. CASE maxUpdated # Never
      <4>1. maxUpdated \in Nat /\ maxUpdated > Overlap /\ updated[i] \in Nat
        BY <3>4 DEF IInv, TypeOK, Stamps
      <4>2. db'.wm[cur] = maxUpdated - Overlap /\ db'.wm[cur] \in Nat
        BY <3>1, <3>4, <4>1, ClockAssumption DEF Nvl, NextWatermark, Never
      <4>3. JqlStart(db'.wm[cur]) \in Int /\ JqlStart(db'.wm[cur]) <= db'.wm[cur]
        BY <4>2, JqlStartIsEarlier
      <4>4. ~(updated[i] + Overlap >= maxUpdated)
        BY <2>1, <2>3, <4>1, <4>2, <4>3, ClockAssumption
      <4> QED  BY <2>1, <2>3, <3>1, <4>4 DEF Swept
    <3> QED  BY <3>3, <3>4
  <2>4. CASE ProjectOf[i] = cur /\ i \notin Matches(cur, since)
    <3>1. /\ pc = "mark" /\ ~dry /\ db'.stored = db.stored
      BY <1>2, FinishLeaves
    <3>2. since \in {Never, db.wm[cur]} /\ since \in Nat /\ updated[i] \in Nat
      BY <3>1 DEF Clocked, InTheRun, IInv, TypeOK
    <3>3. JqlStart(since) \in Int /\ JqlStart(since) <= since
      BY <3>2, JqlStartIsEarlier
    <3>4. updated[i] < JqlStart(since)
      BY <2>1, <2>4, <3>2, <3>3 DEF Matches
    <3>5. since = db.wm[ProjectOf[i]]
      BY <2>4, <3>2, <3>3, <3>4 DEF Never
    <3> QED  BY <2>1, <3>1, <3>4, <3>5 DEF WatermarkCovers, Covered
  <2> QED  BY <2>2, <2>3, <2>4
<1>3. CASE SyncPage
  <2>1. UNCHANGED updated /\ db'.wm = db.wm
    BY <1>3, PageDoes DEF jiraVars
  <2>2. CASE ~dry /\ i \in Parsed
    <3>1. db'.stored[i] = Fetched(i)
      BY <1>3, <2>2, PageDoes
    <3> QED  BY <2>1, <3>1 DEF Fetched
  <2>3. CASE dry \/ i \notin Parsed
    <3>1. db'.stored[i] = db.stored[i] /\ i \notin overtaken
      BY <1>3, <2>3, PageDoes
    <3> QED  BY <2>1, <3>1 DEF WatermarkCovers, Covered
  <2> QED  BY <2>2, <2>3
<1>4. CASE ~(\E j \in Issues : EditIssue(j)) /\ ~FinishProject /\ ~SyncPage
  <2>1. UNCHANGED <<updated, overtaken>>
    BY <1>4 DEF Next, Step, RenameProject, SetProjectEnabled, ChangeKind, StartRun,
       SyncCatalog, RequestFullResync, BeginProject, EmptyPage, DryRunDone, DeriveHistory,
       UpdateFirstDoneAt, FinishRun, CatalogFails, ProjectFails, AuthFails, Crash, vars,
       jiraVars, faultVars, lossVars
  <2> QED  BY <1>4, <2>1, TablesKept DEF WatermarkCovers, Covered
<1> QED  BY <1>1, <1>2, <1>3, <1>4

(* Whatever fails, dies or is edited meanwhile, what the next search of a  *)
(* project will not return is stored, unless it does not parse or an edit  *)
(* took it from under a search: with searches not later than the overlap   *)
(* makes up for (build_jql and next_watermark, sync_issues.py:31-50).      *)
THEOREM WatermarkCoversSafe ==
  ASSUME Punctual
  PROVE  Spec => []WatermarkCovers
<1>1. Init => WatermarkInv
  <2> SUFFICES ASSUME Init PROVE WatermarkInv
    OBVIOUS
  <2>1. /\ clock = Overlap /\ maxUpdated = 0 /\ pc = "idle"
        /\ \A i \in Issues : updated[i] = 0
        /\ \A p \in Projects : db.wm[p] = 0
    BY DEF Init, Never
  <2>2. WatermarkCovers /\ Clocked /\ Swept
    BY <2>1, ClockAssumption DEF WatermarkCovers, Covered, Clocked, Swept, InTheRun
  <2> QED  BY <2>2, InvInit DEF WatermarkInv
<1>2. WatermarkInv /\ [Next]_vars => WatermarkInv'
  <2> SUFFICES ASSUME WatermarkInv, [Next]_vars PROVE WatermarkInv'
    OBVIOUS
  <2>1. IInv' /\ TypeOK'
    BY InvStep DEF WatermarkInv, IInv
  <2> QED  BY <2>1, ClockedStep, SweptStep, CoversStep DEF WatermarkInv
<1>3. WatermarkInv => WatermarkCovers
  BY DEF WatermarkInv
<1> QED  BY <1>1, <1>2, <1>3, PTL DEF Spec

(* A step that keeps the rows of an issue, the catalog and the whitelist   *)
(* makes no debt.                                                          *)
LEMMA NoNewDebt ==
  ASSUME NEW i \in Issues \ missed', Readable(i)', Outdated(i, enabled)',
         missed \subseteq missed', enabled' = enabled,
         db'.stored[i] = db.stored[i], db'.key = db.key, db'.kind = db.kind
  PROVE  i \notin missed /\ Readable(i) /\ Outdated(i, enabled)
BY DEF Outdated, Readable

(* Only a run between its catalog and its projects has requests queued.    *)
LEMMA QueuedStep ==
  ASSUME IInv, Queued, [Next]_vars
  PROVE  Queued'
<1>1. (pc # "loop" => pend = {})'
  BY DEF Queued, Next, Step, EditIssue, RenameProject, SetProjectEnabled, ChangeKind, StartRun,
     SyncCatalog, RequestFullResync, BeginProject, SyncPage, EmptyPage, DryRunDone,
     DeriveHistory, UpdateFirstDoneAt, FinishProject, FinishRun, CatalogFails, ProjectFails,
     AuthFails, Crash, vars, runVars, EndRun
<1>2. ASSUME NEW i \in Issues, updated'[i] = 0 PROVE db'.stored[i] = NoRow
  <2>1. CASE \E j \in Issues : EditIssue(j)
    <3>1. PICK j \in Issues : EditIssue(j)
      BY <2>1
    <3>2. PICK t \in (clock - Lag + 1) .. (clock + 1) :
             t > Overlap /\ updated' = [updated EXCEPT ![j] = t]
      BY <3>1 DEF EditIssue
    <3>3. clock \in Nat
      BY DEF IInv, TypeOK
    <3>4. t # 0
      BY <3>2, <3>3, ClockAssumption
    <3>5. updated[i] = 0
      BY <1>2, <3>2, <3>4 DEF IInv, TypeOK
    <3> QED  BY <3>1, <3>5 DEF EditIssue, Queued
  <2>2. CASE ~ \E j \in Issues : EditIssue(j)
    <3>1. updated' = updated
      BY <2>2 DEF Next, Step, RenameProject, SetProjectEnabled, ChangeKind, StartRun,
         SyncCatalog, RequestFullResync, BeginProject, SyncPage, EmptyPage, DryRunDone,
         DeriveHistory, UpdateFirstDoneAt, FinishProject, FinishRun, CatalogFails,
         ProjectFails, AuthFails, Crash, vars, jiraVars
    <3>2. db'.stored[i] = db.stored[i]
      <4>1. CASE SyncPage
        BY <4>1, <1>2, <3>1, PageLeaves
      <4>2. CASE ~SyncPage
        BY <4>2, TablesKept
      <4> QED  BY <4>1, <4>2
    <3> QED  BY <1>2, <3>1, <3>2 DEF Queued
  <2> QED  BY <2>1, <2>2
<1> QED  BY <1>1, <1>2 DEF Queued

(* What is outdated is flagged, or about to be by a run that may write. *)
LEMMA DebtStep ==
  ASSUME CatalogInv, CalmInv', Queued', [Next]_vars
  PROVE  OldDebt' /\ CatalogDebt'
<1> DEFINE Debt(i) == i \notin missed /\ Readable(i) /\ Outdated(i, enabled)
<1>a. \A i \in Issues : ProjectOf[i] \in Projects
  BY ProjectAssumption
<1>b. ASSUME NEW i \in Issues, Debt(i), dry \/ pc # "loop"
      PROVE  db.flag[ProjectOf[i]]
  BY <1>b DEF CatalogInv, OldDebt, CatalogDebt, Queued
<1>0. CASE \E p \in Projects : SetProjectEnabled(p)
  <2>1. /\ UNCHANGED <<db, dry, pend>>
        /\ missed' = missed \cup {i \in Issues : /\ Outdated(i, enabled')
                                                /\ ~Outdated(i, enabled)}
    BY <1>0 DEF SetProjectEnabled, runVars
  <2>2. ASSUME NEW i \in Issues, Debt(i)' PROVE Debt(i)
    BY <2>1, <2>2 DEF Outdated, Readable
  <2> QED  BY <2>1, <2>2 DEF CatalogInv, OldDebt, CatalogDebt
<1> USE DEF faultVars, lossVars
<1>1. CASE Crash
  <2>1. /\ UNCHANGED <<db, enabled>> /\ dry' = FALSE
        /\ missed' = missed \cup {i \in Issues : /\ ~dry /\ ProjectOf[i] \in pend
                                                /\ Outdated(i, enabled)}
    BY <1>1 DEF Crash, EndRun
  <2>2. ASSUME NEW i \in Issues, Debt(i)' PROVE db.flag[ProjectOf[i]]
    <3>1. Debt(i)
      BY <2>1, <2>2 DEF Outdated, Readable
    <3> QED  BY <2>1, <2>2, <3>1, <1>b DEF CatalogInv, CatalogDebt
  <2> QED  BY <2>1, <2>2 DEF OldDebt, CatalogDebt
<1>2. CASE SyncCatalog
  <2>1. /\ pc = "catalog" /\ UNCHANGED <<dry, enabled, missed>> /\ pend' = OwedResync(tx)
        /\ db' = IF dry THEN db ELSE [tx EXCEPT !.key = keyOf, !.kind = kindOf]
    BY <1>2 DEF SyncCatalog, Commit, faultVars, lossVars
  <2>2. CASE dry
    <3>1. ASSUME NEW i \in Issues, Debt(i)' PROVE db'.flag[ProjectOf[i]]
      <4>1. Debt(i)
        BY <2>1, <2>2, <3>1, NoNewDebt
      <4> QED  BY <2>1, <2>2, <4>1, <1>b
    <3> QED  BY <3>1 DEF OldDebt, CatalogDebt
  <2>3. CASE ~dry
    <3>1. tx = db /\ db \in Tables
      BY <2>3 DEF CatalogInv, CalmInv, IInv, Committed, TypeOK
    <3>2. /\ db'.stored = db.stored /\ db'.flag = db.flag /\ db'.key = keyOf /\ db'.kind = kindOf
      BY <2>1, <2>3, <3>1 DEF Tables
    <3>3. ASSUME NEW i \in Issues, Debt(i)'
          PROVE  db'.flag[ProjectOf[i]] \/ ProjectOf[i] \in pend'
      <4>1. CASE Outdated(i, enabled)
        <5>1. Debt(i)
          BY <4>1, <3>3, <2>1 DEF Readable
        <5> QED  BY <5>1, <1>b, <2>1, <3>2
      <4>2. CASE ~Outdated(i, enabled)
        <5>1. \/ db.key[ProjectOf[i]] # keyOf[ProjectOf[i]]
              \/ ProjectOf[i] \in enabled /\ db.kind # kindOf
          BY <2>1, <3>2, <3>3, <4>2 DEF Outdated
        <5> QED  BY <5>1, <1>a, <2>1, <3>1 DEF OwedResync, RenamedSince
      <4> QED  BY <4>1, <4>2
    <3> QED  BY <2>1, <2>3, <3>3 DEF OldDebt, CatalogDebt
  <2> QED  BY <2>2, <2>3
<1>3. CASE \E p \in Projects : RequestFullResync(p)
  <2>1. PICK p \in Projects : RequestFullResync(p)
    BY <1>3
  <2>2. /\ pc = "loop" /\ UNCHANGED <<dry, enabled, missed>> /\ pend' = pend \ {p}
        /\ db' = IF dry THEN db ELSE [tx EXCEPT !.flag[p] = TRUE]
    BY <2>1 DEF RequestFullResync, Commit, faultVars, lossVars
  <2>3. /\ db'.stored = db.stored /\ db'.key = db.key /\ db'.kind = db.kind
        /\ \A r \in Projects : db.flag[r] => db'.flag[r]
        /\ ~dry => db'.flag[p]
    BY <2>2 DEF CatalogInv, CalmInv, IInv, Committed, TypeOK, Tables
  <2>4. ASSUME NEW i \in Issues, Debt(i)'
        PROVE  /\ dry => db'.flag[ProjectOf[i]]
               /\ db'.flag[ProjectOf[i]] \/ ProjectOf[i] \in pend'
    <3>1. Debt(i)
      BY <2>2, <2>3, <2>4, NoNewDebt
    <3>2. dry => db'.flag[ProjectOf[i]]
      BY <1>a, <1>b, <2>3, <3>1
    <3>3. db.flag[ProjectOf[i]] \/ ProjectOf[i] \in pend
      BY <3>1 DEF CatalogInv, CatalogDebt
    <3> QED  BY <3>2, <3>3, <1>a, <2>2, <2>3
  <2> QED  BY <2>2, <2>4 DEF OldDebt, CatalogDebt
<1>4. CASE SyncPage
  <2>1. /\ pc = "pages" /\ UNCHANGED <<dry, enabled, pend>>
        /\ missed' = IF dry THEN missed ELSE missed \ Parsed
    BY <1>4, PageDoes DEF CatalogInv, CalmInv
  <2>a. \A i \in Issues : ~dry /\ i \in Parsed => db'.stored[i] = Fetched(i)
    BY <1>4, PageDoes DEF CatalogInv, CalmInv
  <2>2. ASSUME NEW i \in Issues, Debt(i)' PROVE db'.flag[ProjectOf[i]]
    <3>1. CASE i \notin missed /\ db'.stored[i] = db.stored[i]
      <4>1. Debt(i)
        BY <1>4, <2>1, <2>2, <3>1, PageLeaves DEF CatalogInv, CalmInv, Outdated, Readable
      <4> QED  BY <1>4, <2>1, <4>1, <1>b, PageLeaves DEF CatalogInv, CalmInv
    <3>2. CASE ~dry /\ db'.stored[i] = Fetched(i)
      <4>1. db.key = keyOf /\ fieldKind = db.kind
        BY <2>1, <3>2 DEF CatalogInv, CalmInv, Calm, Named, InTheRun
      <4>2. ~Outdated(i, enabled)'
        BY <1>4, <3>2, <4>1, PageLeaves DEF Outdated, Fetched, CatalogInv, CalmInv
      <4> QED  BY <2>2, <4>2
    <3>3. CASE i \in missed
      BY <2>1, <2>a, <2>2, <3>2, <3>3
    <3> QED  BY <1>4, <3>1, <3>2, <3>3, PageLeaves DEF CatalogInv, CalmInv
  <2> QED  BY <2>2 DEF OldDebt, CatalogDebt
<1>5. CASE FinishProject
  <2>1. UNCHANGED <<dry, enabled, missed, updated>> /\ pc = "mark"
    BY <1>5 DEF FinishProject, faultVars, lossVars, jiraVars
  <2>2. ASSUME NEW i \in Issues, Debt(i)' PROVE db'.flag[ProjectOf[i]]
    <3>1. Debt(i)
      BY <1>5, <2>1, <2>2, FinishLeaves, NoNewDebt DEF CatalogInv, CalmInv
    <3>2. db.flag[ProjectOf[i]]
      BY <2>1, <3>1, <1>b
    <3>3. ~(ProjectOf[i] = cur /\ full)
      <4> SUFFICES ASSUME ProjectOf[i] = cur, full PROVE FALSE
        OBVIOUS
      <4>1. updated[i] \in Nat /\ updated[i] # 0
        BY <3>1 DEF CatalogInv, Queued, Outdated, CalmInv, IInv, TypeOK
      <4>2. updated[i] > 0
        BY <4>1
      <4>3. <<i, updated[i]>> \notin Unparsable
        BY <3>1 DEF Readable
      <4>4. Repaired(db', i)
        BY <1>5, <4>2, <4>3, TakenIsRepaired DEF CatalogInv
      <4> QED  BY <2>2, <4>4 DEF Repaired, Outdated
    <3> QED  BY <1>5, <1>a, <3>2, <3>3, FinishLeaves DEF CatalogInv, CalmInv
  <2> QED  BY <2>2 DEF OldDebt, CatalogDebt
<1>6. CASE ~Crash /\ ~SyncCatalog /\ ~(\E p \in Projects : RequestFullResync(p))
           /\ ~SyncPage /\ ~FinishProject /\ ~(\E p \in Projects : SetProjectEnabled(p))
  <2>1. UNCHANGED <<enabled, missed>>
    BY <1>6 DEF Next, Step, EditIssue, RenameProject, SetProjectEnabled, ChangeKind, StartRun,
       BeginProject, EmptyPage, DryRunDone, DeriveHistory, UpdateFirstDoneAt, FinishRun,
       CatalogFails, ProjectFails, AuthFails, vars, faultVars, lossVars
  <2>2. ASSUME NEW i \in Issues, Debt(i)'
        PROVE  Debt(i) /\ (db.flag[ProjectOf[i]] => db'.flag[ProjectOf[i]])
    BY <1>6, <1>a, <2>1, <2>2, TablesKept, NoNewDebt DEF CatalogInv, CalmInv
  <2>3. \/ pend = {} \/ UNCHANGED <<pend, dry>>
    BY <1>6 DEF Next, Step, EditIssue, RenameProject, SetProjectEnabled, ChangeKind, StartRun,
       BeginProject, EmptyPage, DryRunDone, DeriveHistory, UpdateFirstDoneAt, FinishRun,
       CatalogFails, ProjectFails, AuthFails, vars, runVars, CatalogInv, Queued
  <2>4. CASE pend = {}
    BY <2>2, <2>4 DEF CatalogInv, OldDebt, CatalogDebt
  <2>5. CASE UNCHANGED <<pend, dry>>
    BY <2>2, <2>5 DEF CatalogInv, OldDebt, CatalogDebt
  <2> QED  BY <2>3, <2>4, <2>5
<1> QED  BY <1>0, <1>1, <1>2, <1>3, <1>4, <1>5, <1>6

(* While Jira stands still under a run: no row that can be parsed remains  *)
(* under an outdated key or kind without a resync of its project being     *)
(* queued or requested, whatever --project or --dry-run the runs were given*)
(* and whichever fail, but for the rows a process had yet to request when  *)
(* it died and those the whitelist let in too late (runner.py:54-65).      *)
THEOREM CatalogDebtSafe ==
  ASSUME Undisturbed
  PROVE  Spec => []CatalogDebt
<1>1. Init => CatalogInv
  <2> SUFFICES ASSUME Init PROVE CatalogInv
    OBVIOUS
  <2>1. \A i \in Issues : db.stored[i] = NoRow
    BY DEF Init
  <2>2. Queued /\ OldDebt /\ CatalogDebt
    BY <2>1 DEF Init, Queued, OldDebt, CatalogDebt, Outdated
  <2>3. CalmInv
    BY InvInit DEF Init, CalmInv, Calm, Named, Current, InTheRun
  <2> QED  BY <2>2, <2>3 DEF CatalogInv
<1>2. CatalogInv /\ [Next]_vars => CatalogInv'
  <2> SUFFICES ASSUME CatalogInv, [Next]_vars PROVE CatalogInv'
    OBVIOUS
  <2>1. CalmInv' /\ Queued'
    BY InvStep, CalmStep, QueuedStep DEF CatalogInv, CalmInv
  <2> QED  BY <2>1, DebtStep DEF CatalogInv
<1>3. CatalogInv => CatalogDebt
  BY DEF CatalogInv
<1> QED  BY <1>1, <1>2, <1>3, PTL DEF Spec

(* A dry run commits nothing, whichever of its steps fail (pool.py:29-50). *)
THEOREM DryRunSafe == Spec => DryRunLeavesNoTrace
<1>1. [Next]_vars => [dry => db' = db]_vars
  BY DEF Next, Step, EditIssue, RenameProject, SetProjectEnabled, ChangeKind, StartRun,
         SyncCatalog, RequestFullResync, BeginProject, SyncPage, EmptyPage, DryRunDone,
         DeriveHistory, UpdateFirstDoneAt, FinishProject, FinishRun, CatalogFails,
         ProjectFails, AuthFails, Crash, MarkFailed, Commit, vars
<1> QED
  BY <1>1, PTL DEF Spec, DryRunLeavesNoTrace

-----------------------------------------------------------------------------
(* SyncRun implements Mirror: every step of it is a step of Mirror or      *)
(* silent.                                                                 *)

(* Nothing has been collected in either. *)
LEMMA InitMaps == Init => Kept!Init
<1> SUFFICES ASSUME Init PROVE Kept!Init
  OBVIOUS
<1>1. \A i \in Issues : db.stored[i].upd = 0 /\ Fresh(db, i)
  BY DEF Init, NoRow, Never, Fresh
<1>2. \A r \in Projects : ~db.flag[r]
  BY DEF Init
<1>3. updated = [i \in Issues |-> 0] /\ ~Working
  BY DEF Init, Working
<1>4. torn \cup overtaken = {}
  BY DEF Init
<1> QED  BY <1>1, <1>2, <1>3, <1>4 DEF Kept!Init

(* A step that touches neither rows nor derivations nor flags, and neither *)
(* begins nor ends the work on a project, is silent.                       *)
LEMMA Silent ==
  ASSUME UNCHANGED <<updated, torn, overtaken, overtaken>>,
         db'.stored = db.stored, db'.hist = db.hist, db'.done = db.done,
         db'.flag = db.flag,
         \/ ~Working /\ ~Working'
         \/ Working /\ Working' /\ UNCHANGED <<cur, changed>>
  PROVE  UNCHANGED Kept!vars
<1>1. \A i \in Issues : Fresh(db', i) <=> Fresh(db, i)
  BY DEF Fresh
<1> QED  BY <1>1 DEF Kept!vars

(* A page that is committed loads its rows. *)
LEMMA PageMaps ==
  ASSUME IInv, SyncPage, ~dry
  PROVE  \E S \in SUBSET Issues : Kept!Load(S)
<1>0. PICK S \in SUBSET Issues : S = Parsed
  BY PageDoes
<1>1. /\ UNCHANGED <<updated, cur, dry, torn>>
      /\ \A i \in S : ProjectOf[i] = cur /\ updated[i] > 0
      /\ overtaken' = overtaken \ S /\ changed' = changed \cup S
      /\ db'.flag = db.flag
  BY <1>0, PageDoes DEF jiraVars
<1>2. \A i \in Issues : i \notin S => (Fresh(db', i) <=> Fresh(db, i))
  BY <1>0, PageDoes DEF Fresh
<1>3. \A i \in Issues :
         db'.stored[i].upd = IF i \in S THEN updated[i] ELSE db.stored[i].upd
  <2>1. \A i \in Issues : Fetched(i).upd = updated[i]
    BY DEF Fetched
  <2> QED  BY <1>0, <2>1, PageDoes
<1>4. Working /\ Working' /\ cur # Nobody
  BY <1>0, PageDoes, NobodyAssumption DEF Working, AfterSearch
<1>5. /\ (torn \cup overtaken) \ S \subseteq torn' \cup overtaken'
      /\ torn' \cup overtaken' \subseteq torn \cup overtaken
  BY <1>1
<1>6. /\ {i \in Issues : ~Fresh(db, i)} \ S \subseteq {i \in Issues : ~Fresh(db', i)}
      /\ {i \in Issues : ~Fresh(db', i)} \subseteq {i \in Issues : ~Fresh(db, i)} \cup S
  BY <1>2
<1>7. [i \in Issues |-> db'.stored[i].upd] =
         [i \in Issues |-> IF i \in S THEN updated[i]
                           ELSE [j \in Issues |-> db.stored[j].upd][i]]
  BY <1>3
<1>8. Kept!Load(S)
  BY <1>1, <1>4, <1>5, <1>6, <1>7 DEF Kept!Load, Kept!Of
<1> QED  BY <1>8

(* A chunk of histories repairs the issues whose first_done_at still holds. *)
LEMMA DeriveMaps ==
  ASSUME IInv, DeriveHistory
  PROVE  \E S \in SUBSET Issues : Kept!Derive(S)
<1>1. PICK c \in Chunks(left) :
         /\ Commit([tx EXCEPT !.hist =
               [i \in Issues |-> IF i \in c THEN tx.stored[i] ELSE tx.hist[i]]])
         /\ pc' = IF left = c THEN "first_done" ELSE "history"
  BY DEF DeriveHistory
<1>2. /\ pc = "history" /\ ~dry /\ tx = db /\ db \in Tables
      /\ UNCHANGED <<updated, cur, dry, changed, torn, overtaken>>
      /\ c \subseteq changed /\ changed \subseteq Issues
  BY DEF DeriveHistory, IInv, TypeOK, Committed, DryPath, Chunks, jiraVars, faultVars, lossVars
<1>3. /\ db'.stored = db.stored /\ db'.done = db.done /\ db'.flag = db.flag
      /\ \A i \in Issues : db'.hist[i] = IF i \in c THEN db.stored[i] ELSE db.hist[i]
  BY <1>1, <1>2 DEF Commit, Tables
<1> DEFINE S == {i \in c : Fresh(db', i)}
<1>4. \A i \in Issues : ~Fresh(db', i) <=> ~Fresh(db, i) /\ i \notin S
  BY <1>3 DEF Fresh
<1>5. Working /\ Working'
  BY <1>1, <1>2 DEF Working
<1>6. S \in SUBSET Issues /\ S \subseteq changed
  BY <1>2
<1> HIDE DEF S
<1>7. Kept!Derive(S)
  BY <1>2, <1>3, <1>4, <1>5, <1>6 DEF Kept!Derive
<1> QED  BY <1>6, <1>7

(* A chunk of first_done_at repairs all of its issues. *)
LEMMA FirstDoneMaps ==
  ASSUME IInv, UpdateFirstDoneAt
  PROVE  \E S \in SUBSET Issues : Kept!Derive(S)
<1>1. PICK c \in Chunks(left) :
         /\ Commit([tx EXCEPT !.done =
               [i \in Issues |-> IF i \in c THEN tx.hist[i] ELSE tx.done[i]]])
         /\ pc' = IF left = c THEN "mark" ELSE "first_done"
         /\ torn' = torn \ c
  BY DEF UpdateFirstDoneAt
<1>2. /\ pc = "first_done" /\ ~dry /\ tx = db /\ db \in Tables
      /\ UNCHANGED <<updated, cur, dry, changed, overtaken>>
      /\ c \subseteq changed /\ changed \subseteq Issues
  BY DEF UpdateFirstDoneAt, IInv, TypeOK, Committed, DryPath, Chunks, jiraVars, faultVars, lossVars
<1>3. /\ db'.stored = db.stored /\ db'.hist = db.hist /\ db'.flag = db.flag
      /\ \A i \in Issues : db'.done[i] = IF i \in c THEN db.hist[i] ELSE db.done[i]
  BY <1>1, <1>2 DEF Commit, Tables
<1>4. \A i \in Issues : ~Fresh(db', i) <=> ~Fresh(db, i) /\ i \notin c
  <2>1. \A i \in c : db.hist[i] = db.stored[i]
    BY <1>2 DEF IInv, Derived
  <2> QED  BY <2>1, <1>2, <1>3 DEF Fresh
<1>5. Working /\ Working'
  BY <1>1, <1>2 DEF Working
<1>6. Kept!Derive(c)
  BY <1>1, <1>2, <1>3, <1>4, <1>5 DEF Kept!Derive
<1> QED  BY <1>2, <1>6

(* A project ends with all of its work derived, and a full resync with all *)
(* of the project repaired.                                                *)
LEMMA FinishMaps ==
  ASSUME IInv, FinishProject
  PROVE  Kept!Finish
<1>1. /\ pc = "mark" /\ pc' = "loop" /\ ~dry /\ tx = db /\ db \in Tables
      /\ cur \in Projects /\ changed \subseteq Issues
      /\ UNCHANGED <<updated, dry, torn, overtaken>>
  BY DEF FinishProject, IInv, TypeOK, Committed, DryPath, InTheRun, jiraVars, faultVars, lossVars
<1>2. /\ db'.stored = db.stored /\ db'.hist = db.hist /\ db'.done = db.done
      /\ \A r \in Projects : db'.flag[r] = (db.flag[r] /\ ~(r = cur /\ full))
  BY <1>1 DEF FinishProject, Commit, Tables
<1>3. \A i \in Issues : Fresh(db', i) <=> Fresh(db, i)
  BY <1>2 DEF Fresh
<1>4. \A i \in changed : Fresh(db, i)
  BY <1>1 DEF IInv, Derived
<1>5. Working /\ ~Working' /\ cur # Nobody
  BY <1>1, NobodyAssumption DEF Working
<1>6. full => \A i \in Issues \ overtaken :
         ProjectOf[i] = cur /\ Readable(i) => Fresh(db, i)
  BY <1>1, <1>4 DEF IInv, Coverage
<1>7. CASE full
  <2>1. Kept!Repaired(cur)
    BY <1>6, <1>7 DEF Kept!Repaired, Kept!Of, Kept!Readable, Readable
  <2>2. {r \in Projects : db'.flag[r]} = {r \in Projects : db.flag[r]} \ {cur}
    BY <1>2, <1>7
  <2> QED  BY <2>1, <2>2, <1>1, <1>2, <1>3, <1>4, <1>5 DEF Kept!Finish
<1>8. CASE ~full
  <2>1. {r \in Projects : db'.flag[r]} = {r \in Projects : db.flag[r]}
    BY <1>2, <1>8
  <2> QED  BY <2>1, <1>1, <1>2, <1>3, <1>4, <1>5 DEF Kept!Finish
<1> QED  BY <1>7, <1>8

(* A project that fails is given up, and its repair requested. *)
LEMMA FailedMaps ==
  ASSUME IInv, ProjectFails \/ AuthFails
  PROVE  Kept!GiveUp \/ UNCHANGED Kept!vars
<1>1. /\ pc \in {"pages", "history", "first_done", "mark"} /\ pc' \in {"idle", "loop"}
      /\ UNCHANGED <<updated, torn, overtaken, overtaken>>
      /\ db' = IF dry THEN db ELSE [db EXCEPT !.flag[cur] = TRUE]
  BY DEF ProjectFails, AuthFails, MarkFailed, Commit, EndRun, ForgetProject, jiraVars,
     lossVars
<1>2. cur \in Projects /\ db \in Tables /\ cur # Nobody /\ ~Working'
  BY <1>1, NobodyAssumption DEF IInv, TypeOK, InTheRun, Working
<1>3. CASE dry
  BY <1>1, <1>2, <1>3, Silent DEF Working
<1>4. CASE ~dry
  <2>1. /\ db'.stored = db.stored /\ db'.hist = db.hist /\ db'.done = db.done
    BY <1>1, <1>2, <1>4 DEF Tables
  <2>5. \A r \in Projects : db'.flag[r] = (db.flag[r] \/ r = cur)
    BY <1>1, <1>2, <1>4 DEF Tables
  <2>2. \A i \in Issues : Fresh(db', i) <=> Fresh(db, i)
    BY <2>1 DEF Fresh
  <2>3. {r \in Projects : db'.flag[r]} = {r \in Projects : db.flag[r]} \cup {cur}
    BY <2>5, <1>2
  <2>4. Working
    BY <1>1, <1>4 DEF Working
  <2>6. UNCHANGED <<updated, torn, overtaken, overtaken>>
    BY <1>1
  <2> QED  BY <2>1, <2>2, <2>3, <2>4, <2>6, <1>2 DEF Kept!GiveUp
<1> QED  BY <1>3, <1>4

(* Every step of the system is a step of Mirror or silent. *)
LEMMA StepMaps ==
  ASSUME IInv, IInv', [Next]_vars
  PROVE  [Kept!Next]_(Kept!vars)
<1>1. CASE \E i \in Issues : EditIssue(i)
  <2>1. PICK i \in Issues : EditIssue(i)
    BY <1>1
  <2>2. /\ UNCHANGED <<db, pc, dry, cur, changed, torn>>
        /\ \E t : updated' = [updated EXCEPT ![i] = t] /\ t > updated[i]
        /\ overtaken' = IF pc = "pages" /\ ~dry
                        THEN overtaken \cup {j \in Read' : j = i \/ j \notin Read}
                        ELSE overtaken
    BY <2>1 DEF EditIssue, runVars, searchVars
  <2>3. /\ updated' = [updated EXCEPT ![i] = updated'[i]]
        /\ updated'[i] \in Nat /\ updated'[i] > updated[i]
    BY <2>2 DEF IInv, TypeOK
  <2>4. Working' <=> Working
    BY <2>2 DEF Working
  <2>5. overtaken \subseteq overtaken'
        /\ overtaken' \subseteq overtaken \cup Kept!Of(IF Working THEN cur ELSE Nobody)
    <3>1. \A j \in Read' : j \in Issues /\ ProjectOf[j] = cur
      BY <2>2 DEF Read, Matches
    <3> QED  BY <2>2, <3>1 DEF Working, Kept!Of
  <2>6. Kept!Change(i)
    BY <2>2, <2>3, <2>4, <2>5 DEF Kept!Change, Fresh
  <2> QED  BY <2>6 DEF Kept!Next
<1>2. CASE \/ \E p \in Projects : RenameProject(p) \/ SetProjectEnabled(p)
           \/ ChangeKind \/ UNCHANGED vars
  <2>1. UNCHANGED <<updated, torn, overtaken, db, pc, dry, cur, changed>>
    BY <1>2 DEF RenameProject, SetProjectEnabled, ChangeKind, vars, jiraVars, runVars,
                searchVars, faultVars, lossVars
  <2> QED  BY <2>1, Silent DEF Working
<1>3. CASE \/ \E d \in BOOLEAN, s \in Scopes : StartRun(d, s)
           \/ SyncCatalog \/ CatalogFails \/ FinishRun \/ DryRunDone
  <2>1. /\ pc \in {"idle", "catalog", "loop", "dry_done"}
        /\ pc' \in {"idle", "catalog", "loop"} /\ UNCHANGED <<updated, torn, overtaken, overtaken>>
    BY <1>3 DEF StartRun, SyncCatalog, CatalogFails, FinishRun, DryRunDone, EndRun,
                ForgetProject, jiraVars, faultVars, lossVars
  <2>2. CASE SyncCatalog
    <3>1. db' = IF dry THEN db ELSE [tx EXCEPT !.key = keyOf, !.kind = kindOf]
      BY <2>2 DEF SyncCatalog, Commit
    <3>2. /\ db'.stored = db.stored /\ db'.hist = db.hist /\ db'.done = db.done
          /\ db'.flag = db.flag
      BY <3>1 DEF IInv, Committed, TypeOK, Tables
    <3> QED  BY <2>1, <3>2, Silent DEF Working
  <2>3. CASE ~SyncCatalog
    <3>1. db' = db
      BY <1>3, <2>3 DEF StartRun, CatalogFails, FinishRun, DryRunDone, IInv, Committed
    <3> QED  BY <2>1, <3>1, Silent DEF Working
  <2> QED  BY <2>2, <2>3
<1>4. CASE \E p \in Projects : RequestFullResync(p)
  <2>1. PICK p \in Projects : RequestFullResync(p)
    BY <1>4
  <2>2. /\ pc = "loop" /\ UNCHANGED <<updated, torn, overtaken, pc, dry>>
        /\ db' = IF dry THEN db ELSE [tx EXCEPT !.flag[p] = TRUE]
    BY <2>1 DEF RequestFullResync, Commit, jiraVars, faultVars, lossVars
  <2>3. ~Working /\ ~Working'
    BY <2>2 DEF Working
  <2>4. CASE dry
    BY <2>2, <2>3, <2>4, Silent
  <2>5. CASE ~dry
    <3>1. /\ db'.stored = db.stored /\ db'.hist = db.hist /\ db'.done = db.done
      BY <2>2, <2>5 DEF IInv, Committed, TypeOK, Tables
    <3>5. \A r \in Projects : db'.flag[r] = (db.flag[r] \/ r = p)
      BY <2>2, <2>5 DEF IInv, Committed, TypeOK, Tables
    <3>2. \A i \in Issues : Fresh(db', i) <=> Fresh(db, i)
      BY <3>1 DEF Fresh
    <3>3. {r \in Projects : db'.flag[r]} = {r \in Projects : db.flag[r]} \cup {p}
      BY <3>5
    <3>6. UNCHANGED <<updated, torn, overtaken, overtaken>>
      BY <2>2
    <3>4. Kept!Ask(p)
      BY <3>1, <3>2, <3>3, <3>6, <2>3 DEF Kept!Ask
    <3> QED  BY <3>4 DEF Kept!Next
  <2> QED  BY <2>4, <2>5
<1>5. CASE \E p \in Projects : BeginProject(p)
  <2>1. PICK p \in Projects : BeginProject(p)
    BY <1>5
  <2>2. /\ pc = "loop" /\ pc' = "pages" /\ cur' = p /\ changed' = {}
        /\ UNCHANGED <<updated, torn, overtaken, db, dry>>
    BY <2>1 DEF BeginProject, jiraVars, faultVars, lossVars
  <2>3. CASE dry
    BY <2>2, <2>3, Silent DEF Working
  <2>4. CASE ~dry
    <3>1. ~Working /\ Working'
      BY <2>2, <2>4 DEF Working
    <3>2. Kept!Begin(p)
      BY <2>2, <3>1 DEF Kept!Begin, Fresh
    <3> QED  BY <3>2 DEF Kept!Next
  <2> QED  BY <2>3, <2>4
<1>6. CASE SyncPage
  <2>1. CASE dry
    <3>1. db' = db /\ UNCHANGED <<updated, torn, overtaken, dry>>
      BY <1>6, <2>1 DEF SyncPage, Commit, jiraVars, faultVars, lossVars
    <3> QED  BY <2>1, <3>1, Silent DEF Working
  <2>2. CASE ~dry
    BY <1>6, <2>2, PageMaps DEF Kept!Next
  <2> QED  BY <2>1, <2>2
<1>7. CASE EmptyPage
  <2>1. /\ pc = "pages" /\ pc' = AfterSearch
        /\ UNCHANGED <<updated, torn, overtaken, db, dry, cur, changed>>
    BY <1>7 DEF EmptyPage, jiraVars, faultVars, lossVars
  <2> QED  BY <2>1, Silent DEF Working, AfterSearch
<1>8. CASE DeriveHistory
  BY <1>8, DeriveMaps DEF Kept!Next
<1>9. CASE UpdateFirstDoneAt
  BY <1>9, FirstDoneMaps DEF Kept!Next
<1>10. CASE FinishProject
  BY <1>10, FinishMaps DEF Kept!Next
<1>11. CASE ProjectFails \/ AuthFails
  BY <1>11, FailedMaps DEF Kept!Next
<1>12. CASE Crash
  <2>1. pc' = "idle" /\ UNCHANGED <<updated, db, overtaken>>
    BY <1>12 DEF Crash, EndRun, jiraVars
  <2>2. torn' = torn \cup {i \in changed : ~dry /\ ~Fresh(db, i)}
    BY <1>12 DEF Crash
  <2>3. /\ changed \subseteq Issues
        /\ ~dry /\ changed # {} => Working
    BY <1>12 DEF Crash, Working, IInv, TypeOK, Existing, DryPath, InTheRun
  <2>4. Kept!Die
    <3>1. ~Working' /\ \A i \in Issues : Fresh(db', i) <=> Fresh(db, i)
      BY <2>1 DEF Working, Fresh
    <3>2. torn' \cup overtaken' = (torn \cup overtaken)
             \cup ((IF Working THEN changed ELSE {}) \cap {i \in Issues : ~Fresh(db, i)})
      BY <2>1, <2>2, <2>3 DEF Working
    <3> QED  BY <2>1, <3>1, <3>2 DEF Kept!Die
  <2> QED  BY <2>4 DEF Kept!Next
<1> QED
  BY <1>1, <1>2, <1>3, <1>4, <1>5, <1>6, <1>7, <1>8, <1>9, <1>10, <1>11, <1>12
     DEF Next, Step

(* The runs of SyncRun, with their searches, pages, batches, failures and  *)
(* deaths, are a mirror as Mirror specifies it (runner.py:67-134).         *)
THEOREM Implements == Spec => ImplementsMirror
<1>1. Init => Kept!Init
  BY InitMaps
<1>2. IInv /\ IInv' /\ [Next]_vars => [Kept!Next]_(Kept!vars)
  BY StepMaps
<1>3. Spec => []IInv
  BY InvSafe
<1> QED  BY <1>1, <1>2, <1>3, PTL DEF Spec, ImplementsMirror, Kept!Spec

(* What Mirror promises holds of the tables themselves, after every step   *)
(* of a run: no readable issue's history is behind its row, but for those  *)
(* that died with a process or that an edit overtook, unless the run under *)
(* way has it in hand or the next one will do the project again            *)
(* (runner.py:67-134).                                                     *)
THEOREM TablesKeepThePromise == Spec => []Kept!NothingForgotten
<1>1. IInv => Kept!NothingForgotten
  <2> SUFFICES ASSUME IInv, NEW i \in Issues, i \notin torn \cup overtaken,
                      ~Fresh(db, i), Kept!Readable(i)
               PROVE  \/ i \in (IF Working THEN changed ELSE {})
                      \/ ProjectOf[i] \in {r \in Projects : db.flag[r]}
    BY DEF Kept!NothingForgotten
  <2>1. ProjectOf[i] \in Projects
    BY ProjectAssumption
  <2>2. Readable(i)
    BY DEF Readable, Kept!Readable
  <2>3. \/ db.flag[ProjectOf[i]]
        \/ ~dry /\ pc \in {"pages", "history", "first_done"} /\ i \in changed
    BY <2>2 DEF IInv, HistoryDebt
  <2> QED  BY <2>1, <2>3 DEF Working
<1> QED  BY <1>1, InvSafe, PTL
-----------------------------------------------------------------------------
(* What Mirror promises holds in every one of its own behaviours.          *)

VARIABLES version, row, behind, asked, busy, work, lost

Promise == INSTANCE Mirror

(* The invariant holds before anything has been collected. *)
LEMMA MirrorInit == Promise!Init => Promise!MirrorInv
BY ProjectAssumption, NobodyAssumption DEF Promise!Init, Promise!MirrorInv, Promise!TypeOK, Promise!NothingForgotten

(* Every step keeps it: loading puts what it makes stale among the work,   *)
(* and work ends derived or with a request.                                *)
LEMMA MirrorStep ==
  ASSUME Promise!MirrorInv, [Promise!Next]_(Promise!vars)
  PROVE  Promise!MirrorInv'
<1> USE ProjectAssumption, NobodyAssumption
    DEF Promise!MirrorInv, Promise!TypeOK, Promise!NothingForgotten, Promise!Readable
<1>1. ASSUME NEW i \in Issues, Promise!Change(i) PROVE Promise!MirrorInv'
  <2>1. /\ version' \in [Issues -> Nat] /\ lost' \subseteq Issues
        /\ lost \subseteq lost' /\ UNCHANGED <<row, behind, asked, busy, work>>
    BY <1>1 DEF Promise!Change, Promise!Of
  <2> QED  BY <2>1
<1>2. ASSUME NEW p \in Projects, Promise!Ask(p) \/ Promise!Begin(p) PROVE Promise!MirrorInv'
  <2>1. CASE Promise!Ask(p)
    BY <2>1 DEF Promise!Ask
  <2>2. CASE Promise!Begin(p)
    <3>1. work = {}
      BY <2>2 DEF Promise!Begin
    <3> QED  BY <2>2, <3>1 DEF Promise!Begin
  <2> QED  BY <1>2, <2>1, <2>2
<1>3. ASSUME NEW S \in SUBSET Issues, Promise!Load(S) PROVE Promise!MirrorInv'
  BY <1>3 DEF Promise!Load, Promise!Of
<1>4. ASSUME NEW S \in SUBSET Issues, Promise!Derive(S) PROVE Promise!MirrorInv'
  BY <1>4 DEF Promise!Derive
<1>5. CASE Promise!Finish
  BY <1>5 DEF Promise!Finish, Promise!Repaired, Promise!Of
<1>6. CASE Promise!GiveUp
  BY <1>6 DEF Promise!GiveUp
<1>7. CASE Promise!Die
  BY <1>7 DEF Promise!Die
<1>8. CASE UNCHANGED Promise!vars
  BY <1>8 DEF Promise!vars
<1> QED
  BY <1>1, <1>2, <1>3, <1>4, <1>5, <1>6, <1>7, <1>8 DEF Promise!Next

(* An issue whose history is not that of its row is being worked on, or the*)
(* repair of its project is requested, or it escaped by a death or an edit *)
(* and has not been worked off since: the promise the sync run keeps by    *)
(* flag, hash and watermark (runner.py:67-134).                            *)
THEOREM NothingIsForgotten == Promise!Spec => []Promise!NothingForgotten
<1>1. Promise!Init => Promise!MirrorInv
  BY MirrorInit
<1>2. Promise!MirrorInv /\ [Promise!Next]_(Promise!vars) => Promise!MirrorInv'
  BY MirrorStep
<1>3. Promise!MirrorInv => Promise!NothingForgotten
  BY DEF Promise!MirrorInv
<1> QED  BY <1>1, <1>2, <1>3, PTL DEF Promise!Spec
=============================================================================
