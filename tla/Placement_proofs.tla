-------------------------- MODULE Placement_proofs --------------------------
(***************************************************************************)
(* Proofs about Placement, for any number of projects and issues, and for  *)
(* whatever Jira, the whitelist and the token do during a detection.       *)
(***************************************************************************)
EXTENDS Placement, TLAPS

(* Rows as the collection and the detection write them. *)
LEMMA RowTypes ==
  ASSUME TypeOK, NEW i \in Issues
  PROVE  /\ NoRow \in Rows
         /\ \A p \in Projects : Upserted(i, p) \in Rows
         /\ Touched(i) \in Rows
         /\ place[i] \in Projects => Relocated(i) \in Rows
         /\ \A v \in {"", "DELETED", "MOVED_OUT"} : [tx[i] EXCEPT !.deleted = v] \in Rows
<1>1. /\ row[i] \in Rows /\ tx[i] \in Rows /\ updated[i] \in 0 .. MaxChanges
      /\ changes \in 0 .. MaxChanges /\ 0 \in 0 .. MaxChanges
  BY BoundAssumption DEF TypeOK
<1>2. NoRow \in Rows
  BY <1>1 DEF NoRow, Rows
<1>3. \A p \in Projects : Upserted(i, p) \in Rows
  BY <1>1 DEF Upserted, Rows
<1>4. Touched(i) \in Rows
  BY <1>1 DEF Touched, Rows
<1>5. place[i] \in Projects => Relocated(i) \in Rows
  BY <1>1 DEF Relocated, Rows
<1>6. \A v \in {"", "DELETED", "MOVED_OUT"} : [tx[i] EXCEPT !.deleted = v] \in Rows
  BY <1>1 DEF Rows
<1> QED  BY <1>2, <1>3, <1>4, <1>5, <1>6

(* Types, and the rest of the invariant, hold initially. *)
LEMMA DetectInit == Init => DetectInv
<1> SUFFICES ASSUME Init PROVE DetectInv
  OBVIOUS
<1>1. NoRow \in Rows /\ 0 \in 0 .. MaxChanges /\ 0 \in 0 .. MaxFailures
  BY BoundAssumption DEF NoRow, Rows
<1>2. TypeOK
  BY <1>1 DEF Init, TypeOK, NoVerdicts, Verdicts
<1> QED
  BY <1>2 DEF Init, DetectInv, Resting, Witnessed, OnlyCleared, Asked, NoVerdicts, NoRow

(* What Jira does. *)
LEMMA JiraStep ==
  ASSUME DetectInv, Jira
  PROVE  DetectInv'
<1>1. PICK i \in Issues :
           \/ \E p \in Projects : CreateOrEdit(i, p)
           \/ \E p \in Projects \cup {Outside} : Move(i, p)
           \/ Delete(i) \/ HideOrShow(i)
  BY DEF Jira
<1>2. PICK at \in [Issues -> Projects \cup {Outside, Gone}], hid \in SUBSET Issues :
         Changes(at, hid) /\ updated' \in {updated, [updated EXCEPT ![i] = changes + 1]}
  <2>0. /\ place \in [Issues -> Projects \cup {Outside, Gone}] /\ hidden \in SUBSET Issues
        /\ \A p \in Projects \cup {Outside, Gone} :
              [place EXCEPT ![i] = p] \in [Issues -> Projects \cup {Outside, Gone}]
    BY DEF DetectInv, TypeOK
  <2>1. CASE \E p \in Projects : CreateOrEdit(i, p)
    BY <2>0, <2>1 DEF CreateOrEdit
  <2>2. CASE \E p \in Projects \cup {Outside} : Move(i, p)
    BY <2>0, <2>2 DEF Move
  <2>3. CASE Delete(i)
    BY <2>0, <2>3 DEF Delete
  <2>4. CASE HideOrShow(i)
    <3>1. (IF i \in hidden THEN hidden \ {i} ELSE hidden \cup {i}) \in SUBSET Issues
      BY <2>0
    <3> QED  BY <2>0, <2>4, <3>1 DEF HideOrShow
  <2> QED  BY <1>1, <2>1, <2>2, <2>3, <2>4
<1>3. /\ place' = at /\ hidden' = hid /\ wasHidden' = wasHidden \cup hid
      /\ stirred' = (pc # "idle")
      /\ away' = IF pc = "idle" THEN {}
                 ELSE away \cup {j \in Issues : at[j] \notin Projects \/ j \in hid}
      /\ UNCHANGED <<enabled, row, wm, tx, pc, todo, cur, candidates, verdicts, failures>>
  BY <1>2 DEF Changes, detectVars
<1>4. changes' \in 0 .. MaxChanges /\ updated' \in [Issues -> 0 .. MaxChanges]
  <2>1. changes \in 0 .. MaxChanges /\ changes < MaxChanges /\ changes' = changes + 1
        /\ updated \in [Issues -> 0 .. MaxChanges]
    BY <1>2 DEF Changes, DetectInv, TypeOK
  <2>2. changes + 1 \in 0 .. MaxChanges
    BY <2>1, BoundAssumption
  <2> QED  BY <1>2, <2>1, <2>2
<1>5. TypeOK'
  BY <1>3, <1>4 DEF DetectInv, TypeOK
<1>6. Resting' /\ OnlyCleared' /\ Asked'
  BY <1>3 DEF DetectInv, Resting, OnlyCleared, Asked
<1>7. Witnessed'
  <2>1. pc = "idle" => \A j \in Issues : verdicts[j] = ""
    BY DEF DetectInv, Resting, NoVerdicts
  <2> QED  BY <1>3, <2>1 DEF DetectInv, Witnessed
<1> QED  BY <1>5, <1>6, <1>7 DEF DetectInv

(* A collection happens between detections only. *)
LEMMA SyncStep ==
  ASSUME DetectInv, NEW p \in Projects, SyncProject(p)
  PROVE  /\ DetectInv'
         /\ \A i \in Issues : row'[i].deleted \in {"", row[i].deleted}
<1> DEFINE parsed == {i \in Found(p) : row[i].version # updated[i]}
<1>1. /\ pc = "idle" /\ tx' = row'
      /\ row' = [i \in Issues |-> CASE i \in parsed   -> Upserted(i, p)
                                    [] i \in Found(p) -> Touched(i)
                                    [] OTHER          -> row[i]]
      /\ UNCHANGED <<jiraVars, enabled, pc, todo, cur, candidates, verdicts, ghostVars,
                     changes, failures>>
  BY DEF SyncProject
<1>2. parsed \subseteq Issues /\ parsed \subseteq Found(p)
  BY DEF Found, Visible
<1>3. wm' \in [Projects -> 0 .. MaxChanges]
  <2>1. PICK t \in Newest({wm[p]} \cup {updated[i] : i \in parsed}) :
           wm' = [wm EXCEPT ![p] = t]
    BY DEF SyncProject
  <2>2. t \in 0 .. MaxChanges
    BY <2>1, <1>2 DEF Newest, DetectInv, TypeOK
  <2> QED  BY <2>1, <2>2 DEF DetectInv, TypeOK
<1>4. ASSUME NEW i \in Issues
      PROVE  row'[i] \in {Upserted(i, p), Touched(i), row[i]}
  BY <1>1
<1>5. row' \in [Issues -> Rows]
  <2>1. \A i \in Issues : row'[i] \in Rows
    BY <1>4, RowTypes DEF DetectInv, TypeOK
  <2>2. row' = [i \in Issues |-> row'[i]]
    BY <1>1
  <2> QED  BY <2>1, <2>2
<1>6. \A i \in Issues : row'[i].deleted \in {"", row[i].deleted}
  <2>1. \A i \in Issues : row[i] \in Rows
    BY DEF DetectInv, TypeOK
  <2>2. \A i \in Issues : Upserted(i, p).deleted = "" /\ Touched(i).deleted = row[i].deleted
    BY <2>1 DEF Upserted, Touched, Rows
  <2> QED  BY <1>4, <2>2
<1>7. TypeOK'
  BY <1>1, <1>3, <1>5 DEF DetectInv, TypeOK, jiraVars, ghostVars
<1>8. Resting' /\ Witnessed' /\ OnlyCleared' /\ Asked'
  BY <1>1 DEF DetectInv, Resting, Witnessed, OnlyCleared, Asked, jiraVars, ghostVars
<1> QED  BY <1>6, <1>7, <1>8 DEF DetectInv

(* A scan leaves a question about each issue shown that Jira does not have. *)
LEMMA ScanStep ==
  ASSUME DetectInv, NEW p \in Projects, Scan(p)
  PROVE  DetectInv'
<1>1. PICK live \in SUBSET Visible(p) :
         /\ live = Visible(p) \/ stirred
         /\ candidates' = Shown(tx, p) \ live
  BY DEF Scan
<1>2. /\ pc = "scan" /\ candidates = {} /\ p \in todo
      /\ todo' = todo \ {p} /\ cur' = p /\ pc' = "check"
      /\ UNCHANGED <<jiraVars, enabled, row, wm, tx, verdicts, ghostVars, changes, failures>>
  BY DEF Scan, DetectInv, Resting
<1>3. TypeOK'
  BY <1>1, <1>2 DEF DetectInv, TypeOK, Shown, jiraVars, ghostVars
<1>4. Resting' /\ Witnessed' /\ OnlyCleared'
  BY <1>2 DEF DetectInv, Resting, Witnessed, OnlyCleared, jiraVars, ghostVars
<1>5. Asked'
  <2> SUFFICES ASSUME ~stirred, NEW q \in enabled \ todo', NEW i \in Shown(tx, q)
               PROVE  i \in Visible(q) \cup candidates' \cup {j \in Issues : verdicts[j] # ""}
    BY <1>2 DEF Asked, Shown, Visible, jiraVars, ghostVars
  <2>1. CASE q = p
    BY <1>1, <2>1
  <2>2. CASE q # p
    BY <1>2, <2>2 DEF DetectInv, Asked
  <2> QED  BY <2>1, <2>2
<1> QED  BY <1>3, <1>4, <1>5 DEF DetectInv

(* A question is answered by a verdict of an issue that is out of sight, or *)
(* by showing the issue where Jira has it.                                 *)
LEMMA CheckStep ==
  ASSUME DetectInv, NEW i \in Issues, Check(i)
  PROVE  DetectInv'
<1>1. /\ pc = "check" /\ i \in candidates /\ candidates' = candidates \ {i}
      /\ UNCHANGED <<jiraVars, enabled, row, wm, pc, todo, cur, ghostVars, changes, failures>>
  BY DEF Check
<1>a. /\ tx \in [Issues -> Rows] /\ verdicts \in Verdicts
      /\ place \in [Issues -> Projects \cup {Outside, Gone}]
  BY DEF DetectInv, TypeOK
<1>2. CASE Classify(i) = "MOVED_IN"
  <2>0. place[i] \in Projects /\ i \notin hidden
    BY <1>2 DEF Classify
  <2>1. /\ place[i] \in Projects /\ i \notin hidden /\ UNCHANGED verdicts
        /\ tx' = [tx EXCEPT ![i] = Relocated(i)]
    BY <1>2, <2>0 DEF Check
  <2>2. tx' \in [Issues -> Rows]
    BY <2>1, <1>a, RowTypes DEF DetectInv
  <2>3. /\ tx'[i].project = place[i] /\ tx'[i].deleted = ""
        /\ \A j \in Issues : j # i => tx'[j] = tx[j]
    BY <2>1, <1>a DEF Relocated, Rows
  <2>4. TypeOK'
    BY <1>1, <2>1, <2>2 DEF DetectInv, TypeOK, jiraVars, ghostVars
  <2>5. Resting' /\ Witnessed' /\ OnlyCleared'
    BY <1>1, <2>1, <2>3 DEF DetectInv, Resting, Witnessed, OnlyCleared, jiraVars, ghostVars
  <2>6. Asked'
    <3> SUFFICES ASSUME ~stirred, NEW q \in enabled \ todo, NEW j \in Shown(tx', q)
                 PROVE  j \in Visible(q) \cup candidates' \cup {k \in Issues : verdicts[k] # ""}
      BY <1>1, <2>1 DEF Asked, Shown, Visible, jiraVars, ghostVars
    <3>1. CASE j = i
      BY <2>1, <2>3, <3>1 DEF Shown, Visible
    <3>2. CASE j # i
      <4>1. j \in Shown(tx, q)
        BY <2>3, <3>2 DEF Shown
      <4> QED  BY <1>1, <3>2, <4>1 DEF DetectInv, Asked
    <3> QED  BY <3>1, <3>2
  <2> QED  BY <2>4, <2>5, <2>6 DEF DetectInv
<1>3. CASE Classify(i) # "MOVED_IN"
  <2>1. /\ place[i] \notin Projects \/ i \in hidden
        /\ Classify(i) \in {"DELETED", "MOVED_OUT"}
        /\ verdicts' = [verdicts EXCEPT ![i] = Classify(i)] /\ UNCHANGED tx
    BY <1>3, PlaceAssumption DEF Check, Classify
  <2>2. /\ verdicts' \in Verdicts /\ verdicts'[i] # ""
        /\ \A j \in Issues : j # i => verdicts'[j] = verdicts[j]
    BY <2>1, <1>a DEF Verdicts
  <2>3. TypeOK'
    BY <1>1, <2>1, <2>2 DEF DetectInv, TypeOK, jiraVars, ghostVars
  <2>4. Witnessed'
    BY <1>1, <2>1, <2>2 DEF DetectInv, Witnessed, jiraVars, ghostVars
  <2>5. Resting' /\ OnlyCleared'
    BY <1>1, <2>1 DEF DetectInv, Resting, OnlyCleared
  <2>6. Asked'
    <3> SUFFICES ASSUME ~stirred, NEW q \in enabled \ todo, NEW j \in Shown(tx, q)
                 PROVE  j \in Visible(q) \cup candidates' \cup {k \in Issues : verdicts'[k] # ""}
      BY <1>1, <2>1 DEF Asked, Shown, Visible, jiraVars, ghostVars
    <3>1. j \in Visible(q) \cup candidates \cup {k \in Issues : verdicts[k] # ""}
      BY <1>1 DEF DetectInv, Asked
    <3>2. j \in Issues
      BY DEF Shown
    <3> QED  BY <1>1, <2>2, <3>1, <3>2
  <2> QED  BY <2>3, <2>4, <2>5, <2>6 DEF DetectInv
<1> QED  BY <1>2, <1>3

(* What the end of a detection leaves of an issue. *)
LEMMA Marked ==
  ASSUME DetectInv, MarkDeleted, NEW i \in Issues
  PROVE  /\ row'[i] \in Rows /\ row'[i].project = tx[i].project
         /\ row'[i].deleted = IF verdicts[i] = "" THEN tx[i].deleted ELSE verdicts[i]
<1>1. tx[i] \in Rows /\ verdicts[i] \in {"", "DELETED", "MOVED_OUT"}
  BY DEF DetectInv, TypeOK, Verdicts
<1>2. row'[i] = IF verdicts[i] = "" THEN tx[i] ELSE [tx[i] EXCEPT !.deleted = verdicts[i]]
  BY DEF MarkDeleted
<1> QED  BY <1>1, <1>2 DEF Rows

(* The two ends of a detection. *)
LEMMA EndStep ==
  ASSUME DetectInv, MarkDeleted \/ DetectFails
  PROVE  DetectInv'
<1>1. /\ MarkDeleted \/ DetectFails
      /\ tx' = row' /\ pc' = "idle" /\ Forget
      /\ UNCHANGED <<jiraVars, enabled, wm, wasHidden, changes>>
  BY DEF MarkDeleted, DetectFails
<1>2. row' \in [Issues -> Rows]
  <2>1. CASE MarkDeleted
    <3>1. \A i \in Issues : row'[i] \in Rows
      BY <2>1, Marked
    <3>2. row' = [i \in Issues |-> row'[i]]
      BY <2>1 DEF MarkDeleted
    <3> QED  BY <3>1, <3>2
  <2>2. CASE DetectFails
    BY <2>2 DEF DetectFails, DetectInv, TypeOK
  <2> QED  BY <2>1, <2>2
<1>3. failures' \in 0 .. MaxFailures
  <2>1. failures \in 0 .. MaxFailures
    BY DEF DetectInv, TypeOK
  <2>2. CASE MarkDeleted
    BY <2>1, <2>2 DEF MarkDeleted
  <2>3. CASE DetectFails
    BY <2>1, <2>3, BoundAssumption DEF DetectFails
  <2> QED  BY <1>1, <2>2, <2>3
<1>4. NoVerdicts \in Verdicts
  BY DEF NoVerdicts, Verdicts
<1>5. TypeOK'
  BY <1>1, <1>2, <1>3, <1>4 DEF DetectInv, TypeOK, Forget, jiraVars
<1> QED
  BY <1>1, <1>5 DEF DetectInv, Resting, Witnessed, OnlyCleared, Asked, Forget, NoVerdicts

(* The invariant is inductive. *)
LEMMA DetectStep == DetectInv /\ [Next]_vars => DetectInv'
<1> SUFFICES ASSUME DetectInv, [Next]_vars PROVE DetectInv'
  OBVIOUS
<1>1. CASE Jira
  BY <1>1, JiraStep
<1>2. CASE \E p \in Projects : SyncProject(p)
  BY <1>2, SyncStep
<1>3. CASE \E p \in Projects : SetProjectEnabled(p)
  <2>1. PICK p \in Projects : SetProjectEnabled(p)
    BY <1>3
  <2>2. /\ enabled' \subseteq Projects /\ changes' \in 0 .. MaxChanges
        /\ stirred' = (pc # "idle")
        /\ UNCHANGED <<jiraVars, row, wm, detectVars, away, wasHidden, failures>>
    BY <2>1, BoundAssumption DEF SetProjectEnabled, DetectInv, TypeOK
  <2>3. TypeOK'
    BY <2>2 DEF DetectInv, TypeOK, jiraVars, detectVars
  <2> QED
    BY <2>2, <2>3 DEF DetectInv, Resting, Witnessed, OnlyCleared, Asked, jiraVars, detectVars
<1>4. CASE StartDetect
  <2>1. TypeOK'
    BY <1>4 DEF StartDetect, DetectInv, TypeOK, jiraVars
  <2>2. \A i \in Issues : verdicts[i] = "" /\ tx = row
    BY <1>4 DEF StartDetect, DetectInv, Resting, NoVerdicts
  <2> QED
    BY <1>4, <2>1, <2>2 DEF StartDetect, DetectInv, Resting, Witnessed, OnlyCleared, Asked,
                            jiraVars
<1>5. CASE \E p \in Projects : Scan(p)
  BY <1>5, ScanStep
<1>6. CASE \E i \in Issues : Check(i)
  BY <1>6, CheckStep
<1>7. CASE NextProject
  <2>1. TypeOK'
    BY <1>7 DEF NextProject, DetectInv, TypeOK, jiraVars, ghostVars
  <2>2. Asked'
    <3>1. /\ Asked /\ pc # "idle"
          /\ UNCHANGED <<jiraVars, ghostVars, enabled, tx, todo, candidates, verdicts>>
      BY <1>7 DEF NextProject, DetectInv
    <3> QED  BY <3>1 DEF Asked, Shown, Visible, jiraVars, ghostVars
  <2> QED
    BY <1>7, <2>1, <2>2 DEF NextProject, DetectInv, Resting, Witnessed, OnlyCleared, jiraVars,
                            ghostVars
<1>8. CASE MarkDeleted \/ DetectFails
  BY <1>8, EndStep
<1>9. CASE UNCHANGED vars
  <2>1. TypeOK'
    <3> USE DEF vars, jiraVars, detectVars, ghostVars
    <3>1. TypeOK
      BY DEF DetectInv
    <3> QED  BY <1>9, <3>1 DEF TypeOK
  <2>2. Asked'
    BY <1>9 DEF vars, jiraVars, detectVars, ghostVars, DetectInv, Asked, Shown, Visible
  <2> QED
    BY <1>9, <2>1, <2>2 DEF vars, jiraVars, detectVars, ghostVars, DetectInv, Resting,
                            Witnessed, OnlyCleared
<1> QED
  BY <1>1, <1>2, <1>3, <1>4, <1>5, <1>6, <1>7, <1>8, <1>9 DEF Next, Detect

(* What a detection knows while Jira, the whitelist and the token's        *)
(* permissions change between any two of its calls (detect_deleted.py).    *)
THEOREM DetectInvSafe == Spec => []DetectInv
BY DetectInit, DetectStep, PTL DEF Spec

(* An issue is marked only if it was out of every project, or out of       *)
(* sight, at some instant of the detection (detect_deleted.py:50-55).      *)
THEOREM MarkedWasAwaySafe == Spec => MarkedWasAway
<1> DEFINE A == \A i \in Issues :
                  row[i].deleted = "" /\ row'[i].deleted # "" => i \in away
<1>1. DetectInv /\ [Next]_vars => [A]_vars
  <2> SUFFICES ASSUME DetectInv, [Next]_vars, NEW i \in Issues,
                      row[i].deleted = "", row'[i].deleted # ""
               PROVE  i \in away
    OBVIOUS
  <2>1. CASE MarkDeleted
    BY <2>1, Marked DEF DetectInv, OnlyCleared, Witnessed
  <2>2. CASE \E p \in Projects : SyncProject(p)
    BY <2>2, SyncStep
  <2>3. CASE ~MarkDeleted /\ ~(\E p \in Projects : SyncProject(p))
    <3>1. row' = row
      BY <2>3 DEF Next, Jira, CreateOrEdit, Move, Delete, HideOrShow, Changes,
                  SetProjectEnabled, StartDetect, Detect, Scan, Check, NextProject,
                  DetectFails, vars
    <3> QED  BY <3>1
  <2> QED  BY <2>1, <2>2, <2>3
<1> QED  BY <1>1, DetectInvSafe, PTL DEF Spec, MarkedWasAway

(* If Jira and the whitelist rest during a detection, each row it leaves   *)
(* shown in a project of the whitelist is an issue Jira has there          *)
(* (design.md 5.6, detect_deleted.py).                                     *)
THEOREM DetectionIsExactSafe == Spec => DetectionIsExact
<1> DEFINE A == MarkDeleted /\ ~stirred =>
                  \A p \in enabled : Shown(row', p) \subseteq Visible(p)
<1>1. DetectInv /\ [Next]_vars => [A]_vars
  <2> SUFFICES ASSUME DetectInv, MarkDeleted, ~stirred,
                      NEW p \in enabled, NEW i \in Shown(row', p)
               PROVE  i \in Visible(p)
    OBVIOUS
  <2>1. pc # "idle" /\ candidates = {} /\ todo = {}
    BY DEF MarkDeleted
  <2>2. i \in Issues /\ row'[i].deleted = "" /\ row'[i].project = p
    BY DEF Shown
  <2>3. verdicts[i] = "" /\ i \in Shown(tx, p)
    BY <2>2, Marked DEF Shown
  <2> QED  BY <2>1, <2>3 DEF DetectInv, Asked
<1> QED  BY <1>1, DetectInvSafe, PTL DEF Spec, DetectionIsExact
=============================================================================
