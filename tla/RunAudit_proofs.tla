--------------------------- MODULE RunAudit_proofs ---------------------------
(***************************************************************************)
(* Proofs about RunAudit, for any instances, projects and ages: AuditInv   *)
(* is inductive, and what those who watch the pipeline read follows.       *)
(***************************************************************************)
EXTENDS RunAudit, TLAPS

Statuses == {"RUNNING", "SUCCESS", "FAILED"}

(* ----------------------------------------------------------------------- *)
(* What the writes of TEST_SYNC_RUN make of what an instance is told.      *)

(* A row is what its fields say. *)
LEMMA RowFields ==
  ASSUME NEW r \in Rows
  PROVE  /\ r.inst \in Instances /\ r.key \in Keys /\ r.status \in Statuses
         /\ r.age \in 0 .. Stale + 1 /\ r.orphan \in BOOLEAN
  BY DEF Rows, Statuses

LEMMA ToldOfRows ==
  ASSUME rows \subseteq Rows, NEW i \in Instances
  PROVE  /\ \A t \in Told(i) : t.key \in Keys /\ t.status \in Statuses
         /\ \A r \in rows : Of(i, r) => \E t \in Told(i) : t.key = r.key /\ t.status = r.status
         /\ \A t \in Told(i) : \E r \in rows : Of(i, r) /\ r.key = t.key /\ r.status = t.status
<1>1. \A t \in Told(i) : \E r \in rows : Of(i, r) /\ r.key = t.key /\ r.status = t.status
  BY DEF Told
<1>2. ASSUME NEW r \in rows, Of(i, r)
      PROVE  \E t \in Told(i) : t.key = r.key /\ t.status = r.status
  <2> DEFINE t == [key |-> r.key, status |-> r.status]
  <2>1. t \in Told(i)
    BY <1>2 DEF Told
  <2> QED  BY <2>1
<1> QED  BY <1>1, <1>2, RowFields

LEMMA ClosedIsRow ==
  ASSUME NEW r \in Rows, NEW how \in {"SUCCESS", "FAILED"}
  PROVE  /\ Closed(r, how) \in Rows /\ Closed(r, how).inst = r.inst
         /\ Closed(r, how).key = r.key /\ Closed(r, how).orphan = r.orphan
         /\ Closed(r, how).status = how
<1>1. 0 \in 0 .. Stale + 1
  BY BoundAssumption
<1> DEFINE q == [r EXCEPT !.status = how]
<1>2. /\ q \in Rows /\ q.inst = r.inst /\ q.key = r.key /\ q.orphan = r.orphan
      /\ q.status = how
  BY DEF Rows
<1>3. Closed(r, how) = [q EXCEPT !.age = 0]
  BY DEF Closed, Rows
<1> HIDE DEF q
<1> QED  BY <1>1, <1>2, <1>3 DEF Rows

LEMMA FinishTells ==
  ASSUME rows \subseteq Rows, NEW i \in Instances, NEW how \in {"SUCCESS", "FAILED"},
         FinishRun(i, how)
  PROVE  /\ rows' \subseteq Rows
         /\ \A j \in Instances \ {i} : Told(j)' = Told(j)
         /\ \A t \in Told(i)' :
               \/ t.key # run[i] /\ t \in Told(i)
               \/ t.key = run[i] /\ t.status = how /\ \E u \in Told(i) : u.key = run[i]
         /\ \A u \in Told(i) :
               IF u.key = run[i] THEN \E t \in Told(i)' : t.key = run[i] ELSE u \in Told(i)'
<1> DEFINE S == {r \in rows : Current(i, r)}
<1>1. rows' = (rows \ S) \cup {Closed(r, how) : r \in S}
  BY DEF FinishRun, Updated
<1>2. \A r \in rows : r \in S <=> r.inst = i /\ ~r.orphan /\ r.key = run[i]
  BY DEF Current, Of
<1> HIDE DEF S
<1>3. \A q \in rows' : \/ q \in rows /\ q \notin S
                       \/ \E r \in S : q = Closed(r, how)
  BY <1>1
<1>4. \A r \in rows : IF r \in S THEN Closed(r, how) \in rows' ELSE r \in rows'
  BY <1>1
<1>s. S \subseteq rows
  BY DEF S
<1>5. rows' \subseteq Rows
  BY <1>3, <1>s, ClosedIsRow
<1>6. ASSUME NEW j \in Instances \ {i}
      PROVE  Told(j)' = Told(j)
  <2>1. \A q \in rows' : Of(j, q) => q \in rows
    BY <1>3, <1>2, <1>s, ClosedIsRow DEF Of
  <2>2. \A q \in rows : Of(j, q) => q \in rows'
    BY <1>4, <1>2 DEF Of
  <2> QED  BY <2>1, <2>2 DEF Told, Of
<1>7. ASSUME NEW t \in Told(i)'
      PROVE  \/ t.key # run[i] /\ t \in Told(i)
             \/ t.key = run[i] /\ t.status = how /\ \E u \in Told(i) : u.key = run[i]
  <2>1. PICK q \in rows' : Of(i, q) /\ t = [key |-> q.key, status |-> q.status]
    BY DEF Told, Of
  <2>2. CASE q \in rows /\ q \notin S
    BY <2>1, <2>2, <1>2 DEF Told, Of
  <2>3. CASE \E r \in S : q = Closed(r, how)
    <3>1. PICK r \in S : q = Closed(r, how)
      BY <2>3
    <3>2. /\ r \in rows /\ Of(i, r) /\ r.key = run[i] /\ q.key = r.key /\ q.status = how
      BY <3>1, <1>s, <1>2, ClosedIsRow DEF Of
    <3>3. [key |-> r.key, status |-> r.status] \in Told(i)
      BY <3>2 DEF Told
    <3> QED  BY <2>1, <3>2, <3>3
  <2> QED  BY <2>2, <2>3, <1>3
<1>8. ASSUME NEW u \in Told(i)
      PROVE  IF u.key = run[i] THEN \E t \in Told(i)' : t.key = run[i] ELSE u \in Told(i)'
  <2>1. PICK r \in rows : Of(i, r) /\ u = [key |-> r.key, status |-> r.status]
    BY DEF Told, Of
  <2>2. CASE u.key = run[i]
    <3>1. Closed(r, how) \in rows' /\ Of(i, Closed(r, how)) /\ Closed(r, how).key = run[i]
      BY <2>1, <2>2, <1>2, <1>4, ClosedIsRow DEF Of
    <3>2. [key |-> Closed(r, how).key, status |-> Closed(r, how).status] \in Told(i)'
      BY <3>1 DEF Told, Of
    <3> QED  BY <2>2, <3>1, <3>2
  <2>3. CASE u.key # run[i]
    BY <2>1, <2>3, <1>2, <1>4 DEF Told, Of
  <2> QED  BY <2>2, <2>3
<1> QED  BY <1>5, <1>6, <1>7, <1>8

(* The open row is told of, the rest stays. *)
LEMMA StartTells ==
  ASSUME rows \subseteq Rows, NEW i \in Instances, NEW k \in Keys,
         rows' = rows \cup {[inst |-> i, key |-> k, status |-> "RUNNING", age |-> 0,
                            orphan |-> FALSE]}
  PROVE  /\ rows' \subseteq Rows
         /\ \A j \in Instances \ {i} : Told(j)' = Told(j)
         /\ Told(i)' = Told(i) \cup {[key |-> k, status |-> "RUNNING"]}
<1> DEFINE new == [inst |-> i, key |-> k, status |-> "RUNNING", age |-> 0, orphan |-> FALSE]
<1>1. 0 \in 0 .. Stale + 1
  BY BoundAssumption
<1>2. new \in Rows
  BY <1>1 DEF Rows
<1>3. \A j \in Instances : Of(j, new) <=> j = i
  BY DEF Of
<1>4. rows' = rows \cup {new}
  OBVIOUS
<1>5. new.key = k /\ new.status = "RUNNING"
  OBVIOUS
<1> HIDE DEF new
<1> QED  BY <1>2, <1>3, <1>4, <1>5 DEF Told, Of

(* An hour later a row says what it said. *)
LEMMA HourTells ==
  ASSUME rows \subseteq Rows, Hour
  PROVE  rows' \subseteq Rows /\ \A i \in Instances : Told(i)' = Told(i)
<1> DEFINE Aged(r) == [r EXCEPT !.age = IF r.status = "RUNNING" /\ r.age <= Stale
                                        THEN r.age + 1 ELSE r.age]
<1>1. rows' = {Aged(r) : r \in rows}
  BY DEF Hour
<1>2. ASSUME NEW r \in rows
      PROVE  /\ Aged(r) \in Rows /\ Aged(r).inst = r.inst /\ Aged(r).key = r.key
             /\ Aged(r).status = r.status /\ Aged(r).orphan = r.orphan
  <2>1. /\ r \in Rows /\ r.age \in 0 .. Stale + 1
    BY RowFields
  <2> DEFINE age == IF r.status = "RUNNING" /\ r.age <= Stale THEN r.age + 1 ELSE r.age
  <2>2. age \in 0 .. Stale + 1
    BY <2>1, BoundAssumption
  <2> HIDE DEF age
  <2>3. [r EXCEPT !.age = age] \in Rows
    BY <2>1, <2>2 DEF Rows
  <2>4. Aged(r) = [r EXCEPT !.age = age]
    BY DEF age
  <2> QED  BY <2>1, <2>3, <2>4 DEF Rows
<1> HIDE DEF Aged
<1> QED  BY <1>1, <1>2 DEF Told, Of

(* Who dies leaves rows that nobody counts as his. *)
LEMMA DeathTells ==
  ASSUME rows \subseteq Rows, NEW i \in Instances, Dies(i)
  PROVE  /\ rows' \subseteq Rows /\ Told(i)' = {}
         /\ \A j \in Instances \ {i} : Told(j)' = Told(j)
<1> DEFINE S == {r \in rows : Of(i, r)}
           Left(r) == [r EXCEPT !.orphan = TRUE]
<1>1. rows' = (rows \ S) \cup {Left(r) : r \in S}
  BY DEF Dies, Updated
<1>2. \A r \in rows : Left(r) \in Rows /\ Left(r).orphan
  BY DEF Rows
<1>3. rows' \subseteq Rows
  BY <1>1, <1>2 DEF S
<1>4. \A q \in rows' : ~q.orphan <=> q \in rows /\ ~q.orphan /\ q \notin S
  BY <1>1, <1>2
<1>5. \A q \in rows : ~q.orphan /\ q.inst # i => q \in rows'
  BY <1>1 DEF S, Of
<1>6. \A q \in rows : q \in S <=> q.inst = i /\ ~q.orphan
  BY DEF S, Of
<1> HIDE DEF S, Left
<1>7. Told(i)' = {}
  BY <1>4, <1>6 DEF Told, Of
<1>8. ASSUME NEW j \in Instances \ {i}
      PROVE  Told(j)' = Told(j)
  BY <1>4, <1>5, <1>6 DEF Told, Of
<1> QED  BY <1>3, <1>7, <1>8

(* Reclaiming turns RUNNING into FAILED, and forgets closed rows of i. *)
LEMMA ReclaimTells ==
  ASSUME rows \subseteq Rows, NEW i \in Instances, ReclaimZombies(i)
  PROVE  /\ rows' \subseteq Rows
         /\ \A t \in Told(i)' : t.status = "RUNNING" /\ t \in Told(i)
         /\ \A j \in Instances \ {i} :
               /\ \A t \in Told(j)' :
                     \/ t \in Told(j)
                     \/ t.status = "FAILED" /\ \E u \in Told(j) : u.key = t.key /\ u.status = "RUNNING"
               /\ \A u \in Told(j) :
                     \/ u \in Told(j)'
                     \/ u.status = "RUNNING" /\ \E t \in Told(j)' : t.key = u.key /\ t.status = "FAILED"
<1> DEFINE S == {r \in rows : Reclaimable(r)}
           R == (rows \ S) \cup {Closed(r, "FAILED") : r \in S}
<1>1. rows' = {r \in R : r.status = "RUNNING" \/ r.inst # i}
  BY DEF ReclaimZombies, Updated
<1>2. \A r \in S : r \in rows /\ r.status = "RUNNING" /\ r \in Rows
  BY DEF Reclaimable
<1>3. \A q \in R : \/ q \in rows /\ q \notin S
                   \/ \E r \in S : q = Closed(r, "FAILED")
  OBVIOUS
<1>4. \A r \in rows : IF r \in S THEN Closed(r, "FAILED") \in R ELSE r \in R
  OBVIOUS
<1> HIDE DEF S, R
<1>5. rows' \subseteq Rows
  BY <1>1, <1>2, <1>3, ClosedIsRow
<1>6. ASSUME NEW t \in Told(i)'
      PROVE  t.status = "RUNNING" /\ t \in Told(i)
  <2>1. PICK q \in rows' : Of(i, q) /\ t = [key |-> q.key, status |-> q.status]
    BY DEF Told, Of
  <2>2. q \in R /\ q.status = "RUNNING"
    BY <2>1, <1>1 DEF Of
  <2>3. q \in rows
    BY <2>2, <1>2, <1>3, ClosedIsRow
  <2> QED  BY <2>1, <2>2, <2>3 DEF Told, Of
<1>7. ASSUME NEW j \in Instances \ {i}, NEW t \in Told(j)'
      PROVE  \/ t \in Told(j)
             \/ t.status = "FAILED" /\ \E u \in Told(j) : u.key = t.key /\ u.status = "RUNNING"
  <2>1. PICK q \in rows' : Of(j, q) /\ t = [key |-> q.key, status |-> q.status]
    BY DEF Told, Of
  <2>2. CASE q \in rows
    BY <2>1, <2>2 DEF Told, Of
  <2>3. CASE \E r \in S : q = Closed(r, "FAILED")
    <3>1. PICK r \in S : q = Closed(r, "FAILED")
      BY <2>3
    <3>2. /\ r \in rows /\ Of(j, r) /\ r.status = "RUNNING"
          /\ q.key = r.key /\ q.status = "FAILED"
      BY <2>1, <3>1, <1>2, ClosedIsRow DEF Of
    <3>3. \E u \in Told(j) : u.key = r.key /\ u.status = r.status
      BY <3>2, ToldOfRows
    <3> QED  BY <2>1, <3>2, <3>3
  <2> QED  BY <2>2, <2>3, <1>1, <1>3
<1>8. ASSUME NEW j \in Instances \ {i}, NEW u \in Told(j)
      PROVE  \/ u \in Told(j)'
             \/ u.status = "RUNNING" /\ \E t \in Told(j)' : t.key = u.key /\ t.status = "FAILED"
  <2>1. PICK r \in rows : Of(j, r) /\ u = [key |-> r.key, status |-> r.status]
    BY DEF Told, Of
  <2>2. CASE r \in S
    <3>1. /\ Closed(r, "FAILED") \in rows' /\ Of(j, Closed(r, "FAILED"))
          /\ Closed(r, "FAILED").key = r.key /\ Closed(r, "FAILED").status = "FAILED"
          /\ r.status = "RUNNING"
      BY <2>1, <2>2, <1>1, <1>2, <1>4, ClosedIsRow DEF Of
    <3> DEFINE t == [key |-> Closed(r, "FAILED").key, status |-> Closed(r, "FAILED").status]
    <3>2. t \in Told(j)'
      BY <3>1 DEF Told, Of
    <3> QED  BY <2>1, <3>1, <3>2
  <2>3. CASE r \notin S
    <3>1. r \in rows'
      BY <2>1, <2>3, <1>1, <1>4 DEF Of
    <3> QED  BY <2>1, <3>1 DEF Told, Of
  <2> QED  BY <2>2, <2>3
<1> QED  BY <1>5, <1>6, <1>7, <1>8

(* ----------------------------------------------------------------------- *)
(* The invariant of an instance, step by step.                             *)

LEMMA InstanceTypes ==
  ASSUME TypeOK, NEW i \in Instances
  PROVE  /\ phase[i] \in {"off", "before", "in", "after", "handler"}
         /\ step[i] \in Steps \cup {"END"} /\ exit[i] \in {"0", "1", "killed"}
         /\ run[i] \in Keys /\ todo[i] \subseteq Projects
         /\ scope[i] \subseteq Projects /\ NoProject \notin scope[i]
         /\ ProjectsOf[i] \subseteq Projects /\ NoProject \notin ProjectsOf[i]
         /\ \A t \in Told(i) : t.key \in Keys /\ t.status \in Statuses
  BY ToldOfRows, InstanceAssumption DEF TypeOK, Projects

(* What another instance does leaves the accounts of this one alone. *)
LEMMA Frame ==
  ASSUME NEW i \in Instances, InstanceInv(i), Told(i)' = Told(i),
         phase'[i] = phase[i], step'[i] = step[i], run'[i] = run[i], todo'[i] = todo[i], scope'[i] = scope[i],
         exit'[i] = exit[i], \A p \in ProjectsOf[i] : status'[p] = status[p]
  PROVE  InstanceInv(i)'
<1>1. \A p : On(i, p)' = On(i, p)
  BY DEF On
<1>2. PhaseInv(i)'
  BY DEF InstanceInv, PhaseInv, InTry
<1>3. RowInv(i)'
  BY DEF InstanceInv, RowInv, Open
<1>4. ProjectInv(i)'
  <2>1. \A p \in scope[i] : Settled(i, p)' <=> Settled(i, p)
    BY <1>1 DEF InstanceInv, PhaseInv, Settled, Failing
  <2>2. \A p \in scope[i] : Midway(i, p)' <=> Midway(i, p)
    BY <1>1 DEF InstanceInv, PhaseInv, Midway, Behind, Begun, Open
  <2> QED  BY <1>1, <2>1, <2>2 DEF InstanceInv, ProjectInv, InTry
<1>5. ExitInv(i)'
  BY DEF InstanceInv, ExitInv, Open
<1> QED  BY <1>2, <1>3, <1>4, <1>5 DEF InstanceInv

LEMMA StartRunStep ==
  ASSUME TypeOK, NEW i \in Instances, InstanceInv(i), StartRun(i)
  PROVE  /\ InstanceInv(i)' /\ rows' \subseteq Rows /\ run' \in [Instances -> Keys]
         /\ \A j \in Instances \ {i} : Told(j)' = Told(j)
<1>1. /\ phase[i] = "before" /\ step[i] # "END" /\ phase' = [phase EXCEPT ![i] = "in"]
      /\ UNCHANGED <<status, step, scope, daily, auth, exit, deaths>>
  BY DEF StartRun
<1>2. PICK p \in IF step[i] = "ISSUES" THEN todo[i]
                 ELSE {IF step[i] \in PerProject THEN run[i].project ELSE NoProject} :
          /\ run' = [run EXCEPT ![i] = [project |-> p, step |-> step[i]]]
          /\ todo' = [todo EXCEPT ![i] = @ \ {p}]
          /\ rows' = rows \cup {[inst |-> i, key |-> [project |-> p, step |-> step[i]],
                                 status |-> "RUNNING", age |-> 0, orphan |-> FALSE]}
  BY DEF StartRun
<1> DEFINE k == [project |-> p, step |-> step[i]]
<1>3. /\ IF step[i] \in PerProject THEN p \in scope[i] ELSE p = NoProject
      /\ step[i] \in PerProject /\ step[i] # "ISSUES" => p = run[i].project /\ p \notin todo[i]
      /\ step[i] = "ISSUES" => p \in todo[i]
  BY <1>1, <1>2 DEF InstanceInv, PhaseInv, InTry, PerProject
<1>4. k \in Keys
  BY <1>1, <1>3, InstanceTypes DEF Keys, Steps
<1>5. /\ rows' \subseteq Rows
      /\ \A j \in Instances \ {i} : Told(j)' = Told(j)
      /\ Told(i)' = Told(i) \cup {[key |-> k, status |-> "RUNNING"]}
  BY <1>2, <1>4, StartTells DEF TypeOK
<1>6. /\ phase'[i] = "in" /\ step'[i] = step[i] /\ run'[i] = k /\ todo'[i] = todo[i] \ {p} /\ scope'[i] = scope[i]
      /\ exit'[i] = exit[i] /\ run' \in [Instances -> Keys]
      /\ k.project = p /\ k.step = step[i]
  BY <1>1, <1>2, <1>4 DEF TypeOK
<1> HIDE DEF k
<1>7. \A t \in Told(i) : t.key # k
  <2>1. CASE step[i] = "CATALOG"
    BY <1>1, <2>1 DEF InstanceInv, RowInv
  <2>2. CASE step[i] = "ISSUES"
    BY <1>1, <1>3, <1>6, <2>2 DEF InstanceInv, ProjectInv, On, PerProject
  <2>3. CASE step[i] \in {"HISTORY", "FIRST_DONE"}
    <3>1. Midway(i, p)
      BY <1>1, <1>3, <2>3 DEF InstanceInv, ProjectInv, InTry, PerProject
    <3>2. step[i] \notin Begun(i)
      BY <1>1, <2>3 DEF Behind, Begun
    <3> QED  BY <1>1, <1>6, <3>1, <3>2 DEF Midway, On
  <2>4. CASE step[i] \in Daily
    BY <1>1, <1>6, <2>4 DEF InstanceInv, RowInv, Daily
  <2> QED  BY <1>1, <2>1, <2>2, <2>3, <2>4, InstanceTypes DEF Steps, PerProject
<1>8. /\ \A t \in Told(i)' : t \in Told(i) \/ (t.key = k /\ t.status = "RUNNING")
      /\ \A t \in Told(i) : t \in Told(i)'
      /\ \E t \in Told(i)' : t.key = k
  <2> DEFINE new == [key |-> k, status |-> "RUNNING"]
  <2>1. new.key = k /\ new.status = "RUNNING" /\ Told(i)' = Told(i) \cup {new}
    BY <1>5
  <2> QED  BY <2>1
<1>9. PhaseInv(i)'
  BY <1>1, <1>3, <1>6, InstanceTypes DEF InstanceInv, PhaseInv, InTry, Steps, Daily, PerProject
<1>10. RowInv(i)'
  <2>1. \A t \in Told(i) : t.status # "RUNNING"
    BY <1>1 DEF InstanceInv, RowInv, Open
  <2> QED
    BY <1>1, <1>3, <1>6, <1>8, <2>1 DEF InstanceInv, RowInv, Open, PerProject
<1>11. ProjectInv(i)'
  <2> SUFFICES ASSUME NEW q \in scope[i]
               PROVE  IF q \in todo'[i] THEN On(i, q)' = {}
                      ELSE IF InTry(i)' /\ q = run'[i].project THEN Midway(i, q)'
                      ELSE Settled(i, q)'
    BY <1>6 DEF ProjectInv
  <2>1. CASE q # p
    <3>1. On(i, q)' = On(i, q)
      BY <1>6, <1>8, <2>1 DEF On
    <3>2. Settled(i, q) => Settled(i, q)'
      BY <1>1, <3>1 DEF Settled
    <3>3. CASE step[i] \in PerProject
      BY <1>1, <1>3, <1>6, <2>1, <3>1, <3>2, <3>3 DEF InstanceInv, ProjectInv, InTry
    <3>4. CASE step[i] \notin PerProject
      BY <1>1, <1>3, <1>6, <2>1, <3>1, <3>2, <3>4 DEF InstanceInv, ProjectInv, InTry
    <3> QED  BY <3>3, <3>4
  <2>2. CASE q = p
    <3>1. step[i] \in PerProject /\ q \notin todo'[i] /\ InTry(i)' /\ q = run'[i].project
      BY <1>3, <1>6, <2>2, InstanceTypes DEF InTry
    <3>2. \E t \in On(i, q)' : t.key = run'[i] /\ t.key.step = step'[i]
      BY <1>6, <1>8, <2>2 DEF On
    <3>3. Begun(i)' = Begun(i) \cup {step[i]}
      BY <1>1, <1>6 DEF Behind, Begun
    <3>4. CASE step[i] = "ISSUES"
      <4>1. On(i, q) = {} /\ Begun(i) = {}
        BY <1>1, <1>3, <2>2, <3>4 DEF InstanceInv, ProjectInv, Behind, Begun
      <4>2. \A t \in On(i, q)' : t.key = k
        BY <1>8, <4>1 DEF On
      <4>3. \A s \in Begun(i)' : \E t \in On(i, q)' : t.key.step = s
        BY <1>6, <3>2, <3>3, <4>1
      <4>4. \A t \in On(i, q)' : t.key.step \in Begun(i)' /\ Open(i, t)'
        BY <1>6, <3>3, <4>2 DEF Open
      <4> QED  BY <1>6, <3>1, <3>2, <4>3, <4>4 DEF Midway
    <3>5. CASE step[i] # "ISSUES"
      <4>1. Midway(i, q)
        BY <1>1, <1>3, <2>2, <3>1, <3>5 DEF InstanceInv, ProjectInv, InTry
      <4>2. /\ \A s \in Begun(i) : \E t \in On(i, q) : t.key.step = s
            /\ \A t \in On(i, q) : t.key.step \in Begun(i) /\ t.status = "SUCCESS"
        BY <1>1, <4>1 DEF Midway, Open
      <4>3. /\ \A t \in On(i, q) : t \in On(i, q)'
            /\ \A t \in On(i, q)' : t \in On(i, q) \/ t.key = k
        BY <1>8 DEF On
      <4>4. \A s \in Begun(i)' : \E t \in On(i, q)' : t.key.step = s
        BY <1>6, <3>2, <3>3, <4>2, <4>3
      <4>5. \A t \in On(i, q)' : /\ t.key.step \in Begun(i)'
                                 /\ t.status = "SUCCESS" \/ Open(i, t)'
        BY <1>6, <3>3, <4>2, <4>3 DEF Open
      <4> QED  BY <1>6, <3>1, <3>2, <4>4, <4>5 DEF Midway
    <3> QED  BY <3>1, <3>4, <3>5
  <2> QED  BY <2>1, <2>2
<1>12. ExitInv(i)'
  <2>1. /\ exit[i] \in {"0", "1"}
        /\ exit[i] = "1" <=> \E t \in Told(i) : t.status = "FAILED"
    BY <1>1, InstanceTypes DEF InstanceInv, ExitInv, Open
  <2>2. (\E t \in Told(i) : t.status = "FAILED")
           <=> \E t \in Told(i)' : t.status = "FAILED" /\ ~Open(i, t)'
    BY <1>6, <1>7, <1>8 DEF Open
  <2> QED  BY <1>6, <1>8, <2>1, <2>2 DEF ExitInv
<1> QED  BY <1>5, <1>6, <1>9, <1>10, <1>11, <1>12 DEF InstanceInv

(* The project whose row is closed is told of it, the others are not. *)
LEMMA FinishOn ==
  ASSUME rows \subseteq Rows, NEW i \in Instances, NEW how \in {"SUCCESS", "FAILED"},
         FinishRun(i, how)
  PROVE  /\ \A p : p # run[i].project => On(i, p)' = On(i, p)
         /\ \A p : \A t \in On(i, p)' :
               (t.key # run[i] /\ t \in On(i, p)) \/ (t.key = run[i] /\ t.status = how)
         /\ \A p : \A u \in On(i, p) :
               IF u.key = run[i] THEN \E t \in On(i, p)' : t.key = run[i] ELSE u \in On(i, p)'
  BY FinishTells DEF On

LEMMA NextSteps ==
  ASSUME NEW i \in Instances
  PROVE  /\ LoopStep(i) \in {"ISSUES", "PROFILE", "END"}
         /\ LoopStep(i) # "ISSUES" => todo[i] = {}
         /\ step[i] = "ISSUES" => NextStep(i) = "HISTORY"
         /\ step[i] = "HISTORY" => NextStep(i) = "FIRST_DONE"
         /\ step[i] = "PROFILE" => NextStep(i) = "DETECT_DELETED"
         /\ step[i] = "DETECT_DELETED" => NextStep(i) = "END"
         /\ step[i] = "CATALOG" => NextStep(i) = LoopStep(i)
<1>1. DOMAIN Following = {"ISSUES", "HISTORY", "PROFILE", "DETECT_DELETED"}
  BY DEF Following
<1> QED  BY <1>1 DEF LoopStep, NextStep, Following

LEMMA StepDoneStep ==
  ASSUME TypeOK, NEW i \in Instances, InstanceInv(i), StepDone(i)
  PROVE  InstanceInv(i)'
<1>1. /\ phase[i] = "in" /\ FinishRun(i, "SUCCESS")
      /\ run'[i] = run[i] /\ todo'[i] = todo[i] /\ scope'[i] = scope[i] /\ exit'[i] = exit[i] /\ status' = status
      /\ IF step[i] = "FIRST_DONE" THEN phase'[i] = "after" /\ step'[i] = step[i]
                                   ELSE phase'[i] = "before" /\ step'[i] = NextStep(i)
  BY DEF StepDone, LastOfProject, TypeOK
<1>2. /\ \A t \in Told(i)' :
            \/ t.key # run[i] /\ t \in Told(i)
            \/ t.key = run[i] /\ t.status = "SUCCESS" /\ \E u \in Told(i) : u.key = run[i]
      /\ \A u \in Told(i) :
            IF u.key = run[i] THEN \E t \in Told(i)' : t.key = run[i] ELSE u \in Told(i)'
  BY <1>1, FinishTells DEF TypeOK
<1>3. /\ step[i] # "END" /\ run[i].step = step[i]
      /\ step[i] \notin PerProject => run[i].project = NoProject
      /\ step[i] \in PerProject => InTry(i)
  BY <1>1 DEF InstanceInv, PhaseInv, InTry
<1>4. PhaseInv(i)'
  BY <1>1, <1>3, NextSteps, InstanceTypes DEF InstanceInv, PhaseInv, InTry, Steps, PerProject, Daily
<1>5. RowInv(i)'
  <2>1. \A t \in Told(i)' : t.status # "RUNNING"
    BY <1>1, <1>2 DEF InstanceInv, RowInv, Open
  <2>2. \A t \in Told(i)' : IF t.key.step \in PerProject THEN t.key.project \in scope[i]
                                                        ELSE t.key.project = NoProject
    BY <1>2 DEF InstanceInv, RowInv
  <2>3. ~(phase'[i] = "before" /\ step'[i] = "CATALOG")
    <3>1. step[i] \in {"CATALOG", "ISSUES", "HISTORY", "FIRST_DONE", "PROFILE", "DETECT_DELETED"}
      BY <1>3, InstanceTypes DEF Steps, PerProject, Daily
    <3> QED  BY <1>1, <3>1, NextSteps
  <2>4. \A t \in Told(i)' : \E u \in Told(i) : u.key = t.key
    BY <1>2
  <2>5. ASSUME NEW t \in Told(i)'
        PROVE  /\ t.key.step = "PROFILE" => step'[i] \in {"DETECT_DELETED", "END"}
               /\ t.key.step = "DETECT_DELETED" => step'[i] = "END"
    BY <1>1, <1>3, <2>4, NextSteps DEF InstanceInv, RowInv
  <2>6. \A t \in Told(i)' :
           /\ IF t.key.step \in PerProject THEN t.key.project \in scope[i]
                                           ELSE t.key.project = NoProject
           /\ t.status = "RUNNING" => Open(i, t)'
    BY <2>1, <2>2
  <2> QED  BY <1>1, <2>3, <2>5, <2>6 DEF RowInv
<1>6. ProjectInv(i)'
  <2> SUFFICES ASSUME NEW q \in scope[i]
               PROVE  IF q \in todo'[i] THEN On(i, q)' = {}
                      ELSE IF InTry(i)' /\ q = run'[i].project THEN Midway(i, q)'
                      ELSE Settled(i, q)'
    BY <1>1 DEF ProjectInv
  <2>1. CASE q # run[i].project
    <3>1. On(i, q)' = On(i, q)
      BY <1>1, <2>1, FinishOn DEF TypeOK
    <3>2. Settled(i, q) => Settled(i, q)'
      BY <1>1, <3>1 DEF Settled
    <3> QED  BY <1>1, <2>1, <3>1, <3>2 DEF InstanceInv, ProjectInv
  <2>2. CASE q = run[i].project
    <3>1. step[i] \in PerProject /\ q \notin todo[i]
      BY <1>3, <2>2, InstanceTypes DEF InstanceInv, PhaseInv
    <3>2. Midway(i, q)
      BY <1>1, <1>3, <2>2, <3>1 DEF InstanceInv, ProjectInv
    <3>3. InTry(i)' /\ Begun(i)' = Begun(i)
      BY <1>1, <3>1, NextSteps DEF InTry, PerProject, Begun, Behind
    <3>4. /\ \A s \in Begun(i) : \E t \in On(i, q) : t.key.step = s
          /\ \A t \in On(i, q) : /\ t.key.step \in Begun(i)
                                 /\ t.status = "SUCCESS" \/ t.key = run[i]
          /\ \E t \in On(i, q) : t.key = run[i]
      BY <1>1, <3>2 DEF Midway, Open
    <3>5. /\ \A t \in On(i, q)' :
                (t.key # run[i] /\ t \in On(i, q)) \/ (t.key = run[i] /\ t.status = "SUCCESS")
          /\ \A u \in On(i, q) :
                IF u.key = run[i] THEN \E t \in On(i, q)' : t.key = run[i] ELSE u \in On(i, q)'
      BY <1>1, FinishOn DEF TypeOK
    <3>6. \E t \in On(i, q)' : t.key = run'[i]
      BY <1>1, <3>4, <3>5
    <3>7. \A s \in Begun(i)' : \E t \in On(i, q)' : t.key.step = s
      BY <3>3, <3>4, <3>5
    <3>8. \A t \in On(i, q)' : t.key.step \in Begun(i)' /\ t.status = "SUCCESS"
      BY <3>3, <3>4, <3>5
    <3>9. Midway(i, q)'
      BY <1>1, <3>6, <3>7, <3>8 DEF Midway
    <3> QED  BY <1>1, <2>2, <3>1, <3>3, <3>9
  <2> QED  BY <2>1, <2>2
<1>7. ExitInv(i)'
  <2>1. exit[i] = "1" <=> \E t \in Told(i) : t.status = "FAILED" /\ t.key # run[i]
    BY <1>1, InstanceTypes DEF InstanceInv, ExitInv, Open
  <2>2. (\E t \in Told(i) : t.status = "FAILED" /\ t.key # run[i])
           <=> \E t \in Told(i)' : t.status = "FAILED"
    BY <1>2
  <2> QED  BY <1>1, <2>1, <2>2 DEF InstanceInv, ExitInv, Open
<1> QED  BY <1>4, <1>5, <1>6, <1>7 DEF InstanceInv

LEMMA WatermarkStep ==
  ASSUME TypeOK, NEW i \in Instances, InstanceInv(i), WriteWatermark(i)
  PROVE  InstanceInv(i)'
<1>p. PICK p : p = run[i].project
  OBVIOUS
<1>1. /\ phase[i] = "after" /\ rows' = rows /\ status' = [status EXCEPT ![p] = "SUCCESS"]
      /\ run'[i] = run[i] /\ todo'[i] = todo[i] /\ scope'[i] = scope[i] /\ exit'[i] = exit[i]
      /\ phase'[i] = "before" /\ step'[i] = LoopStep(i)
  BY <1>p DEF WriteWatermark, TypeOK
<1>2. Told(i)' = Told(i) /\ \A q : On(i, q)' = On(i, q)
  BY <1>1 DEF Told, On, Of
<1>3. step[i] = "FIRST_DONE" /\ InTry(i) /\ p \in scope[i] \ todo[i] /\ ~InTry(i)'
  BY <1>1, <1>p, NextSteps DEF InstanceInv, PhaseInv, InTry, PerProject
<1>4. status'[p] = "SUCCESS" /\ \A q \in scope[i] : q # p => status'[q] = status[q]
  BY <1>1, <1>3, InstanceTypes DEF TypeOK
<1>5. PhaseInv(i)'
  BY <1>1, <1>3, NextSteps DEF InstanceInv, PhaseInv, InTry, PerProject, Daily
<1>6. RowInv(i)'
  BY <1>1, <1>2, <1>3, NextSteps DEF InstanceInv, RowInv, Open
<1>7. ProjectInv(i)'
  <2>1. ASSUME NEW q \in scope[i], q # p
        PROVE  IF q \in todo[i] THEN On(i, q)' = {} ELSE Settled(i, q)'
    <3>1. IF q \in todo[i] THEN On(i, q) = {} ELSE Settled(i, q)
      BY <1>1, <1>p, <2>1 DEF InstanceInv, ProjectInv
    <3> QED  BY <1>2, <1>4, <2>1, <3>1 DEF Settled, Failing
  <2>2. Settled(i, p)'
    <3>1. Midway(i, p)
      BY <1>1, <1>p, <1>3 DEF InstanceInv, ProjectInv
    <3>2. Begun(i) = PerProject
      BY <1>1 DEF Begun, Behind
    <3>3. /\ \A s \in PerProject : \E t \in On(i, p) : t.key.step = s
          /\ \A t \in On(i, p) : t.status = "SUCCESS"
      BY <1>1, <3>1, <3>2 DEF Midway, Open
    <3> QED  BY <1>2, <1>4, <3>3 DEF Settled, Failing
  <2> QED  BY <1>1, <1>3, <2>1, <2>2 DEF ProjectInv
<1>8. ExitInv(i)'
  BY <1>1, <1>2 DEF InstanceInv, ExitInv, Open
<1> QED  BY <1>5, <1>6, <1>7, <1>8 DEF InstanceInv

(* ----------------------------------------------------------------------- *)
(* Exceptions.                                                             *)

LEMMA EndSets ==
  ASSUME TypeOK, NEW i \in Instances, NEW code \in {"0", "1", "killed"}, End(i, code)
  PROVE  /\ phase'[i] = "off" /\ step'[i] = "END" /\ run'[i] = NoKey /\ todo'[i] = {}
         /\ scope'[i] = scope[i] /\ exit'[i] = code /\ ~InTry(i)'
         /\ (scope[i] \subseteq ProjectsOf[i] => PhaseInv(i)')
<1>1. /\ phase'[i] = "off" /\ step'[i] = "END" /\ run'[i] = NoKey /\ todo'[i] = {}
      /\ scope'[i] = scope[i] /\ exit'[i] = code
  BY DEF End, TypeOK
<1> QED  BY <1>1 DEF InTry, PhaseInv, PerProject

(* A run ends with its open row closed, and 1 if that says FAILED. *)
LEMMA EndedInv ==
  ASSUME TypeOK, NEW i \in Instances, NEW code \in {"0", "1"}, End(i, code),
         PhaseInv(i), RowInv(i),
         \A t \in Told(i)' : t.status # "RUNNING" /\ \E u \in Told(i) : u.key = t.key,
         code = "1" <=> Failing(Told(i)'),
         \A p \in scope[i] : (On(i, p)' = {} /\ code = "1") \/ Settled(i, p)'
  PROVE  InstanceInv(i)'
<1>1. /\ phase'[i] = "off" /\ exit'[i] = code /\ step'[i] = "END" /\ PhaseInv(i)'
      /\ scope'[i] = scope[i]
  BY EndSets DEF PhaseInv
<1>2. RowInv(i)'
  BY <1>1 DEF RowInv
<1>3. ProjectInv(i)'
  BY <1>1 DEF ProjectInv
<1>4. ExitInv(i)'
  BY <1>1 DEF ExitInv, Open, Failing
<1> QED  BY <1>1, <1>2, <1>3, <1>4 DEF InstanceInv

LEMMA CatalogRaisesStep ==
  ASSUME TypeOK, NEW i \in Instances, InstanceInv(i), CatalogRaises(i)
  PROVE  InstanceInv(i)'
<1>1. /\ phase[i] = "in" /\ step[i] = "CATALOG" /\ FinishRun(i, "FAILED") /\ End(i, "1")
      /\ status' = status
  BY DEF CatalogRaises
<1>2. /\ run[i].project = NoProject /\ ~InTry(i) /\ \E u \in Told(i) : u.key = run[i]
  BY <1>1 DEF InstanceInv, PhaseInv, ExitInv, InTry, PerProject
<1>3. /\ \A t \in Told(i)' :
            \/ t.key # run[i] /\ t \in Told(i)
            \/ t.key = run[i] /\ t.status = "FAILED" /\ \E u \in Told(i) : u.key = run[i]
      /\ \E t \in Told(i)' : t.key = run[i]
  BY <1>1, <1>2, FinishTells DEF TypeOK
<1>4. \A t \in Told(i)' : t.status # "RUNNING" /\ \E u \in Told(i) : u.key = t.key
  BY <1>3 DEF InstanceInv, RowInv, Open
<1>5. Failing(Told(i)')
  BY <1>3 DEF Failing
<1>6. ASSUME NEW p \in scope[i]
      PROVE  On(i, p)' = {} \/ Settled(i, p)'
  <2>1. On(i, p)' = On(i, p)
    <3>1. p # run[i].project
      BY <1>2, InstanceTypes
    <3>2. \A q : q # run[i].project => On(i, q)' = On(i, q)
      BY <1>1, FinishOn DEF TypeOK
    <3> QED  BY <3>1, <3>2
  <2>2. On(i, p) = {} \/ Settled(i, p)
    BY <1>1, <1>2 DEF InstanceInv, ProjectInv
  <2> QED  BY <1>1, <2>1, <2>2 DEF Settled, Failing
<1> QED  BY <1>1, <1>4, <1>5, <1>6, EndedInv DEF InstanceInv

LEMMA ProjectRaisesStep ==
  ASSUME TypeOK, NEW i \in Instances, InstanceInv(i), ProjectRaises(i)
  PROVE  /\ InstanceInv(i)' /\ status' \in [Projects -> {"", "SUCCESS", "FAILED"}]
         /\ auth' \in [Instances -> BOOLEAN]
         /\ \A q : q # run[i].project /\ q \in Projects => status'[q] = status[q]
         /\ run[i].project \in scope[i]
<1>p. PICK p : p = run[i].project
  OBVIOUS
<1>1. /\ InTry(i) /\ step[i] \in PerProject /\ rows' = rows
      /\ status' = [status EXCEPT ![p] = "FAILED"] /\ auth' \in [Instances -> BOOLEAN]
      /\ step'[i] = step[i] /\ run'[i] = run[i] /\ todo'[i] = todo[i] /\ scope'[i] = scope[i]
      /\ phase'[i] = "handler" /\ exit'[i] = "1"
  <2>1. /\ step[i] \in PerProject /\ rows' = rows
        /\ status' = [status EXCEPT ![p] = "FAILED"]
        /\ phase' = [phase EXCEPT ![i] = "handler"] /\ exit' = [exit EXCEPT ![i] = "1"]
        /\ UNCHANGED <<step, run, scope, todo>>
        /\ phase[i] \in {"in", "after"} \/ (phase[i] = "before" /\ step[i] # "ISSUES")
    BY <1>p DEF ProjectRaises
  <2>2. auth' \in [Instances -> BOOLEAN]
    <3>1. PICK a \in {FALSE, phase[i] = "in" /\ step[i] = "ISSUES"} :
                 auth' = [auth EXCEPT ![i] = a]
      BY DEF ProjectRaises
    <3>2. a \in BOOLEAN
      BY <3>1
    <3> QED  BY <3>1, <3>2 DEF TypeOK
  <2> QED  BY <2>1, <2>2 DEF TypeOK, InTry
<1>2. Told(i)' = Told(i) /\ \A q : On(i, q)' = On(i, q)
  BY <1>1 DEF Told, On, Of
<1>3. /\ p \in scope[i] \ todo[i] /\ run[i].step \in PerProject /\ InTry(i)'
      /\ phase[i] # "off"
  BY <1>p, <1>1 DEF InstanceInv, PhaseInv, InTry
<1>4. /\ status'[p] = "FAILED" /\ \A q \in Projects : q # p => status'[q] = status[q]
      /\ status' \in [Projects -> {"", "SUCCESS", "FAILED"}]
  BY <1>1, <1>3, InstanceTypes DEF TypeOK
<1>5. PhaseInv(i)'
  BY <1>p, <1>1, <1>3 DEF InstanceInv, PhaseInv, PerProject, Daily
<1>6. RowInv(i)'
  BY <1>1, <1>2, <1>3 DEF InstanceInv, RowInv, Open, PerProject
<1>7. ProjectInv(i)'
  <2>1. ASSUME NEW q \in scope[i], q # p
        PROVE  IF q \in todo[i] THEN On(i, q)' = {} ELSE Settled(i, q)'
    <3>1. IF q \in todo[i] THEN On(i, q) = {} ELSE Settled(i, q)
      BY <1>p, <1>3, <2>1 DEF InstanceInv, ProjectInv
    <3>2. status'[q] = status[q] /\ On(i, q)' = On(i, q)
      BY <1>2, <1>4, <2>1, InstanceTypes
    <3> QED  BY <3>1, <3>2 DEF Settled, Failing
  <2>2. Midway(i, p)'
    <3>1. \E t \in On(i, p) : t.key = run[i]
      BY <1>p, <1>1, <1>3 DEF InstanceInv, ProjectInv, Midway
    <3> QED  BY <1>1, <1>2, <1>4, <3>1 DEF Midway
  <2> QED  BY <1>p, <1>1, <1>3, <2>1, <2>2 DEF ProjectInv
<1>8. ExitInv(i)'
  BY <1>1, <1>3 DEF ExitInv, PerProject
<1> QED  BY <1>p, <1>1, <1>3, <1>4, <1>5, <1>6, <1>7, <1>8 DEF InstanceInv

LEMMA ProjectFailsStep ==
  ASSUME TypeOK, NEW i \in Instances, InstanceInv(i), ProjectFails(i)
  PROVE  InstanceInv(i)'
<1>1. /\ phase[i] = "handler" /\ FinishRun(i, "FAILED") /\ status' = status
      /\ \/ End(i, "1")
         \/ /\ phase'[i] = "before" /\ step'[i] = LoopStep(i) /\ run'[i] = run[i]
            /\ todo'[i] = todo[i] /\ scope'[i] = scope[i] /\ exit'[i] = exit[i]
  BY DEF ProjectFails, HandlerCloses, TypeOK
<1>p. PICK p : p = run[i].project
  OBVIOUS
<1>2. /\ step[i] \in PerProject /\ InTry(i) /\ p \in scope[i] \ todo[i]
      /\ run[i].step \in PerProject
  BY <1>1, <1>p DEF InstanceInv, PhaseInv, InTry
<1>3. /\ \A t \in Told(i)' :
            \/ t.key # run[i] /\ t \in Told(i)
            \/ t.key = run[i] /\ t.status = "FAILED" /\ \E u \in Told(i) : u.key = run[i]
      /\ \A u \in Told(i) :
            IF u.key = run[i] THEN \E t \in Told(i)' : t.key = run[i] ELSE u \in Told(i)'
  BY <1>1, FinishTells DEF TypeOK
<1>f. /\ \A q : q # run[i].project => On(i, q)' = On(i, q)
      /\ \A q : \A t \in On(i, q)' :
            (t.key # run[i] /\ t \in On(i, q)) \/ (t.key = run[i] /\ t.status = "FAILED")
      /\ \A q : \A u \in On(i, q) :
            IF u.key = run[i] THEN \E t \in On(i, q)' : t.key = run[i] ELSE u \in On(i, q)'
  BY <1>1, FinishOn DEF TypeOK
<1>4. \A t \in Told(i)' : t.status # "RUNNING" /\ \E u \in Told(i) : u.key = t.key
  BY <1>3 DEF InstanceInv, RowInv, Open
<1>5. /\ \E t \in On(i, p)' : t.status = "FAILED"
      /\ status[p] = "FAILED"
  <2>1. Midway(i, p)
    BY <1>1, <1>p, <1>2 DEF InstanceInv, ProjectInv
  <2>2. status[p] = "FAILED" /\ \E u \in On(i, p) : u.key = run[i]
    BY <1>1, <2>1 DEF Midway
  <2> QED  BY <2>2, <1>f
<1>6. Failing(Told(i)')
  BY <1>5 DEF On, Failing
<1>7. ASSUME NEW q \in scope[i]
      PROVE  IF q \in todo[i] THEN On(i, q)' = {} ELSE Settled(i, q)'
  <2>1. CASE q = p
    BY <1>1, <1>2, <1>5, <2>1 DEF Settled, Failing
  <2>2. CASE q # p
    <3>1. On(i, q)' = On(i, q)
      BY <1>p, <1>f, <2>2
    <3>2. IF q \in todo[i] THEN On(i, q) = {} ELSE Settled(i, q)
      BY <1>1, <1>p, <2>2 DEF InstanceInv, ProjectInv
    <3> QED  BY <1>1, <3>1, <3>2 DEF Settled, Failing
  <2> QED  BY <2>1, <2>2
<1>8. CASE End(i, "1")
  BY <1>4, <1>6, <1>7, <1>8, EndedInv DEF InstanceInv
<1>9. CASE /\ phase'[i] = "before" /\ step'[i] = LoopStep(i) /\ run'[i] = run[i]
           /\ todo'[i] = todo[i] /\ scope'[i] = scope[i] /\ exit'[i] = exit[i]
  <2>1. ~InTry(i)'
    BY <1>9, NextSteps DEF InTry, PerProject
  <2>2. PhaseInv(i)'
    BY <1>9, <2>1, NextSteps DEF InstanceInv, PhaseInv, Daily
  <2>3. RowInv(i)'
    <3>1. \A u \in Told(i) : u.key.step \notin Daily
      BY <1>1, <1>2 DEF InstanceInv, RowInv, PerProject, Daily
    <3>2. \A t \in Told(i)' : t.key.step \notin Daily /\ t.status # "RUNNING"
      BY <1>4, <3>1
    <3>3. \A t \in Told(i)' : IF t.key.step \in PerProject THEN t.key.project \in scope[i]
                                                          ELSE t.key.project = NoProject
      BY <1>4 DEF InstanceInv, RowInv
    <3> QED  BY <1>9, <3>2, <3>3, NextSteps DEF RowInv, Daily
  <2>4. ProjectInv(i)'
    BY <1>7, <1>9, <2>1 DEF ProjectInv
  <2>5. ExitInv(i)'
    BY <1>1, <1>6, <1>9 DEF InstanceInv, ExitInv, Open, Failing
  <2> QED  BY <2>2, <2>3, <2>4, <2>5 DEF InstanceInv
<1> QED  BY <1>1, <1>8, <1>9

LEMMA DailyRaisesStep ==
  ASSUME TypeOK, NEW i \in Instances, InstanceInv(i), DailyStepRaises(i)
  PROVE  InstanceInv(i)'
<1>1. /\ phase[i] = "in" /\ step[i] \in Daily /\ FinishRun(i, "FAILED") /\ status' = status
      /\ phase'[i] = "before" /\ step'[i] = NextStep(i) /\ run'[i] = run[i]
      /\ todo'[i] = todo[i] /\ scope'[i] = scope[i] /\ exit'[i] = "1"
  BY DEF DailyStepRaises, DailyCloses, TypeOK
<1>2. /\ run[i].project = NoProject /\ run[i].step = step[i] /\ todo[i] = {}
      /\ \E u \in Told(i) : u.key = run[i]
      /\ step'[i] = (IF step[i] = "PROFILE" THEN "DETECT_DELETED" ELSE "END")
      /\ ~InTry(i) /\ ~InTry(i)'
  BY <1>1, NextSteps DEF InstanceInv, PhaseInv, ExitInv, InTry, PerProject, Daily
<1>3. /\ \A t \in Told(i)' :
            \/ t.key # run[i] /\ t \in Told(i)
            \/ t.key = run[i] /\ t.status = "FAILED" /\ \E u \in Told(i) : u.key = run[i]
      /\ \E t \in Told(i)' : t.key = run[i]
  BY <1>1, <1>2, FinishTells DEF TypeOK
<1>4. \A t \in Told(i)' : t.status # "RUNNING" /\ \E u \in Told(i) : u.key = t.key
  BY <1>3 DEF InstanceInv, RowInv, Open
<1>5. PhaseInv(i)'
  BY <1>1, <1>2 DEF InstanceInv, PhaseInv, Daily
<1>6. RowInv(i)'
  <2>1. \A t \in Told(i)' : IF t.key.step \in PerProject THEN t.key.project \in scope[i]
                                                        ELSE t.key.project = NoProject
    BY <1>4 DEF InstanceInv, RowInv
  <2>2. ASSUME NEW t \in Told(i)'
        PROVE  /\ t.key.step = "PROFILE" => step'[i] \in {"DETECT_DELETED", "END"}
               /\ t.key.step = "DETECT_DELETED" => step'[i] = "END"
    BY <1>1, <1>2, <1>4 DEF InstanceInv, RowInv
  <2>3. step'[i] # "CATALOG"
    BY <1>2
  <2> QED  BY <1>1, <1>4, <2>1, <2>2, <2>3 DEF RowInv
<1>7. ProjectInv(i)'
  <2>1. ASSUME NEW q \in scope[i]
        PROVE  Settled(i, q)'
    <3>1. q # run[i].project
      BY <1>2, InstanceTypes
    <3>2. \A p : p # run[i].project => On(i, p)' = On(i, p)
      BY <1>1, FinishOn DEF TypeOK
    <3>3. Settled(i, q)
      BY <1>1, <1>2 DEF InstanceInv, ProjectInv
    <3> QED  BY <1>1, <3>1, <3>2, <3>3 DEF Settled, Failing
  <2> QED  BY <1>1, <1>2, <2>1 DEF ProjectInv
<1>8. ExitInv(i)'
  BY <1>1, <1>3 DEF ExitInv, Open
<1> QED  BY <1>5, <1>6, <1>7, <1>8 DEF InstanceInv

LEMMA FinishStep ==
  ASSUME TypeOK, NEW i \in Instances, InstanceInv(i), Finish(i)
  PROVE  InstanceInv(i)'
<1>1. /\ phase[i] = "before" /\ step[i] = "END" /\ End(i, exit[i])
      /\ status' = status /\ rows' = rows
  BY DEF Finish
<1>2. Told(i)' = Told(i) /\ \A q : On(i, q)' = On(i, q)
  BY <1>1 DEF Told, On, Of
<1>3. /\ exit[i] \in {"0", "1"} /\ todo[i] = {} /\ ~InTry(i)
      /\ \A t \in Told(i) : t.status # "RUNNING"
      /\ exit[i] = "1" <=> Failing(Told(i))
  BY <1>1, InstanceTypes
     DEF InstanceInv, PhaseInv, RowInv, ExitInv, Open, InTry, PerProject, Failing
<1>4. ASSUME NEW p \in scope[i]
      PROVE  Settled(i, p)'
  <2>1. Settled(i, p)
    BY <1>1, <1>3 DEF InstanceInv, ProjectInv
  <2> QED  BY <1>1, <1>2, <2>1 DEF Settled, Failing
<1> QED  BY <1>1, <1>2, <1>3, <1>4, EndedInv DEF InstanceInv, Failing

LEMMA DiesStep ==
  ASSUME TypeOK, NEW i \in Instances, InstanceInv(i), Dies(i)
  PROVE  InstanceInv(i)'
<1>1. End(i, "killed") /\ Told(i)' = {}
  BY DeathTells DEF Dies, TypeOK
<1>2. phase'[i] = "off" /\ exit'[i] = "killed" /\ step'[i] = "END" /\ PhaseInv(i)'
  BY <1>1, EndSets DEF InstanceInv, PhaseInv
<1> QED  BY <1>1, <1>2 DEF InstanceInv, RowInv, ProjectInv, ExitInv

LEMMA StartStep ==
  ASSUME TypeOK, NEW i \in Instances, InstanceInv(i), Start(i)
  PROVE  InstanceInv(i)'
<1>1. /\ phase[i] = "off" /\ ReclaimZombies(i) /\ status' = status
      /\ phase'[i] = "before" /\ step'[i] = "CATALOG" /\ run'[i] = NoKey
      /\ todo'[i] = scope'[i] /\ scope'[i] \subseteq ProjectsOf[i] /\ exit'[i] = "0"
  <2>1. PICK P \in SUBSET ProjectsOf[i] :
               scope' = [scope EXCEPT ![i] = P] /\ todo' = [todo EXCEPT ![i] = P]
    BY DEF Start
  <2> QED  BY <2>1 DEF Start, TypeOK
<1>2. Told(i)' = {}
  <2>1. \A t \in Told(i) : t.status # "RUNNING"
    BY <1>1 DEF InstanceInv, RowInv, Open
  <2>2. \A t \in Told(i)' : t.status = "RUNNING" /\ t \in Told(i)
    BY <1>1, ReclaimTells DEF TypeOK
  <2> QED  BY <2>1, <2>2
<1>3. ~InTry(i)' /\ \A p : On(i, p)' = {}
  BY <1>1, <1>2 DEF InTry, PerProject, On
<1> QED
  BY <1>1, <1>2, <1>3 DEF InstanceInv, PhaseInv, RowInv, ProjectInv, ExitInv, Daily

(* What another process reclaims is the open row at most. *)
LEMMA ReclaimFrame ==
  ASSUME TypeOK, NEW i \in Instances, NEW j \in Instances \ {i}, InstanceInv(j),
         ReclaimZombies(i), status' = status,
         phase'[j] = phase[j], step'[j] = step[j], run'[j] = run[j], todo'[j] = todo[j], scope'[j] = scope[j],
         exit'[j] = exit[j]
  PROVE  InstanceInv(j)'
<1>1. /\ \A t \in Told(j)' :
            /\ t \in Told(j) \/ (t.status = "FAILED" /\ Open(j, t))
            /\ \E u \in Told(j) : u.key = t.key
      /\ \A u \in Told(j) :
            /\ u \in Told(j)' \/ Open(j, u)
            /\ \E t \in Told(j)' : t.key = u.key
  <2>1. \A t \in Told(j) : t.status = "RUNNING" => Open(j, t)
    BY DEF InstanceInv, RowInv
  <2>2. \A t, u \in Told(j) \cup Told(j)' : t.key = u.key => (Open(j, t) <=> Open(j, u))
    BY DEF Open
  <2>3. /\ \A t \in Told(j)' :
              \/ t \in Told(j)
              \/ t.status = "FAILED" /\ \E u \in Told(j) : u.key = t.key /\ u.status = "RUNNING"
        /\ \A u \in Told(j) :
              \/ u \in Told(j)'
              \/ u.status = "RUNNING" /\ \E t \in Told(j)' : t.key = u.key /\ t.status = "FAILED"
    BY ReclaimTells DEF TypeOK
  <2> QED  BY <2>1, <2>2, <2>3
<1>2. \A t : Open(j, t)' <=> Open(j, t)
  BY DEF Open
<1>3. InTry(j)' <=> InTry(j)
  BY DEF InTry
<1>4. PhaseInv(j)'
  BY <1>3 DEF InstanceInv, PhaseInv
<1>5. RowInv(j)'
  BY <1>1, <1>2 DEF InstanceInv, RowInv
<1>6. ProjectInv(j)'
  <2>1. ASSUME NEW p, ~(phase[j] \in {"in", "handler"} /\ p = run[j].project)
        PROVE  On(j, p)' = On(j, p)
    BY <1>1, <2>1 DEF On, Open
  <2>2. ASSUME NEW p, ~(phase[j] \in {"in", "handler"} /\ p = run[j].project)
        PROVE  Settled(j, p) => Settled(j, p)'
    BY <2>1, <2>2 DEF Settled, Failing
  <2>3. ASSUME NEW p \in scope[j], phase[j] \in {"in", "handler"}, p = run[j].project
        PROVE  InTry(j) /\ p \notin todo[j]
    BY <2>3, InstanceTypes DEF InstanceInv, PhaseInv, InTry
  <2>4. ASSUME NEW p \in scope[j], Midway(j, p)
        PROVE  Midway(j, p)'
    <3>1. /\ \A t \in On(j, p)' :
                /\ t \in On(j, p) \/ Open(j, t)
                /\ \E u \in On(j, p) : u.key = t.key
          /\ \A u \in On(j, p) : \E t \in On(j, p)' : t.key = u.key
      BY <1>1 DEF On
    <3>2. Begun(j)' = Begun(j)
      BY DEF Begun, Behind
    <3> QED  BY <1>2, <2>4, <3>1, <3>2 DEF Midway
  <2>5. ASSUME NEW p \in scope[j], phase[j] # "off"
        PROVE  IF p \in todo[j] THEN On(j, p)' = {}
               ELSE IF InTry(j) /\ p = run[j].project THEN Midway(j, p)'
               ELSE Settled(j, p)'
    <3>1. IF p \in todo[j] THEN On(j, p) = {}
          ELSE IF InTry(j) /\ p = run[j].project THEN Midway(j, p) ELSE Settled(j, p)
      BY <2>5 DEF InstanceInv, ProjectInv
    <3> QED  BY <2>1, <2>2, <2>3, <2>4, <3>1
  <2>6. ASSUME NEW p \in scope[j], phase[j] = "off", exit[j] # "killed"
        PROVE  (On(j, p)' = {} /\ exit[j] = "1") \/ Settled(j, p)'
    BY <2>1, <2>2, <2>6 DEF InstanceInv, ProjectInv
  <2> QED  BY <1>3, <2>5, <2>6 DEF ProjectInv
<1>7. ExitInv(j)'
  <2>1. (\E t \in Told(j) : t.status = "FAILED" /\ ~Open(j, t))
           <=> \E t \in Told(j)' : t.status = "FAILED" /\ ~Open(j, t)
    BY <1>1
  <2> QED  BY <1>1, <1>2, <2>1 DEF InstanceInv, ExitInv
<1> QED  BY <1>4, <1>5, <1>6, <1>7 DEF InstanceInv

(* ----------------------------------------------------------------------- *)
(* All instances together.                                                 *)

LEMMA AuditInit == Init => AuditInv
<1> SUFFICES ASSUME Init  PROVE AuditInv
  OBVIOUS
<1>1. TypeOK
  <2>1. NoKey \in Keys
    BY DEF NoKey, Keys, Steps
  <2>2. 0 \in 0 .. MaxDeaths
    BY BoundAssumption
  <2> QED  BY <2>1, <2>2 DEF Init, TypeOK
<1>2. ASSUME NEW i \in Instances
      PROVE  InstanceInv(i)
  <2>1. /\ Told(i) = {} /\ phase[i] = "off" /\ step[i] = "END" /\ todo[i] = {} /\ scope[i] = {}
        /\ exit[i] = "killed" /\ ~InTry(i)
    BY <1>2 DEF Init, Told, InTry, PerProject
  <2> QED  BY <2>1 DEF InstanceInv, PhaseInv, RowInv, ProjectInv, ExitInv
<1> QED  BY <1>1, <1>2 DEF AuditInv

LEMMA KeyTypes == NoKey \in Keys /\ \A i \in Instances : ProjectsOf[i] \subseteq Projects
  BY DEF NoKey, Keys, Steps, Projects

LEMMA EndTypes ==
  ASSUME TypeOK, NEW i \in Instances, NEW code \in {"0", "1", "killed"}, End(i, code)
  PROVE  /\ phase' \in [Instances -> {"off", "before", "in", "after", "handler"}]
         /\ step' \in [Instances -> Steps \cup {"END"}] /\ run' \in [Instances -> Keys]
         /\ scope' = scope /\ todo' \in [Instances -> SUBSET Projects]
         /\ daily' \in [Instances -> BOOLEAN] /\ auth' \in [Instances -> BOOLEAN]
         /\ exit' \in [Instances -> {"0", "1", "killed"}]
         /\ \A j \in Instances \ {i} :
               /\ phase'[j] = phase[j] /\ step'[j] = step[j] /\ run'[j] = run[j]
               /\ scope'[j] = scope[j] /\ todo'[j] = todo[j] /\ exit'[j] = exit[j]
<1>1. /\ phase' = [phase EXCEPT ![i] = "off"] /\ step' = [step EXCEPT ![i] = "END"]
      /\ run' = [run EXCEPT ![i] = NoKey] /\ todo' = [todo EXCEPT ![i] = {}]
      /\ daily' = [daily EXCEPT ![i] = FALSE] /\ auth' = [auth EXCEPT ![i] = FALSE]
      /\ exit' = [exit EXCEPT ![i] = code] /\ scope' = scope
  BY DEF End
<1> QED  BY <1>1, KeyTypes DEF TypeOK

(* LoopStep and NextStep are steps. *)
LEMMA StepTypes ==
  ASSUME TypeOK, NEW i \in Instances
  PROVE  LoopStep(i) \in Steps \cup {"END"} /\ NextStep(i) \in Steps \cup {"END"}
<1>1. LoopStep(i) \in Steps \cup {"END"}
  BY DEF LoopStep, Steps, PerProject, Daily
<1>2. Following \in [{"ISSUES", "HISTORY", "PROFILE", "DETECT_DELETED"} -> Steps \cup {"END"}]
  BY DEF Following, Steps, PerProject, Daily
<1> QED  BY <1>1, <1>2 DEF NextStep

(* What a step of one instance leaves as it is. *)
Apart(i) == \A j \in Instances \ {i} :
               /\ phase'[j] = phase[j] /\ step'[j] = step[j] /\ run'[j] = run[j]
               /\ scope'[j] = scope[j] /\ todo'[j] = todo[j] /\ exit'[j] = exit[j]

LEMMA GoesTypes ==
  ASSUME AuditInv, NEW i \in Instances, Goes(i)
  PROVE  /\ TypeOK' /\ Apart(i)
         /\ \A j \in Instances \ {i} : /\ Told(j)' = Told(j)
                                       /\ \A p \in ProjectsOf[j] : status'[p] = status[p]
<1> USE DEF Apart
<1>0. TypeOK /\ InstanceInv(i) /\ i \in Instances
  BY DEF AuditInv
<1>1. CASE StartRun(i)
  <2>1. /\ phase' = [phase EXCEPT ![i] = "in"] /\ UNCHANGED <<status, step, scope, daily, auth, exit, deaths>>
        /\ \E p : todo' = [todo EXCEPT ![i] = @ \ {p}]
        /\ \E k : run' = [run EXCEPT ![i] = k]
    BY <1>1 DEF StartRun
  <2>2. /\ rows' \subseteq Rows /\ run' \in [Instances -> Keys]
        /\ \A j \in Instances \ {i} : Told(j)' = Told(j)
    BY <1>0, <1>1, StartRunStep
  <2>3. todo' \in [Instances -> SUBSET Projects]
    BY <2>1, <1>0 DEF TypeOK
  <2> QED  BY <2>1, <2>2, <2>3, <1>0 DEF TypeOK
<1>2. CASE StepDone(i)
  <2>1. /\ FinishRun(i, "SUCCESS") /\ UNCHANGED <<status, run, scope, todo, daily, auth, exit, deaths>>
        /\ \/ phase' = [phase EXCEPT ![i] = "after"] /\ step' = step
           \/ phase' = [phase EXCEPT ![i] = "before"] /\ step' = [step EXCEPT ![i] = NextStep(i)]
    BY <1>2 DEF StepDone
  <2>2. rows' \subseteq Rows /\ \A j \in Instances \ {i} : Told(j)' = Told(j)
    BY <1>0, <2>1, FinishTells DEF TypeOK
  <2> QED  BY <2>1, <2>2, <1>0, StepTypes DEF TypeOK
<1>3. CASE WriteWatermark(i)
  <2>1. /\ status' = [status EXCEPT ![run[i].project] = "SUCCESS"]
        /\ phase' = [phase EXCEPT ![i] = "before"] /\ step' = [step EXCEPT ![i] = LoopStep(i)]
        /\ UNCHANGED <<rows, run, scope, todo, daily, auth, exit, deaths>>
        /\ run[i].project \in ProjectsOf[i] /\ run[i].project \in Projects
    BY <1>0, <1>3, KeyTypes DEF WriteWatermark, InstanceInv, PhaseInv, InTry, PerProject
  <2>2. \A j : Told(j)' = Told(j)
    BY <2>1 DEF Told, Of
  <2>3. \A j \in Instances \ {i} : \A p \in ProjectsOf[j] : status'[p] = status[p]
    BY <2>1, <1>0, InstanceAssumption, KeyTypes DEF TypeOK
  <2>4. status' \in [Projects -> {"", "SUCCESS", "FAILED"}]
    BY <2>1, <1>0 DEF TypeOK
  <2>5. /\ phase' \in [Instances -> {"off", "before", "in", "after", "handler"}]
        /\ step' \in [Instances -> Steps \cup {"END"}]
    BY <2>1, <1>0, StepTypes DEF TypeOK
  <2>6. TypeOK'
    BY <2>1, <2>4, <2>5, <1>0 DEF TypeOK
  <2>7. Apart(i)
    BY <2>1, <1>0 DEF TypeOK
  <2> QED  BY <2>2, <2>3, <2>6, <2>7
<1>4. CASE CatalogRaises(i)
  <2>1. FinishRun(i, "FAILED") /\ End(i, "1") /\ UNCHANGED <<status, deaths>>
    BY <1>4 DEF CatalogRaises
  <2>2. rows' \subseteq Rows /\ \A j \in Instances \ {i} : Told(j)' = Told(j)
    BY <1>0, <2>1, FinishTells DEF TypeOK
  <2> QED  BY <2>1, <2>2, <1>0, EndTypes DEF TypeOK
<1>5. CASE ProjectRaises(i)
  <2>1. /\ phase' = [phase EXCEPT ![i] = "handler"] /\ exit' = [exit EXCEPT ![i] = "1"]
        /\ UNCHANGED <<rows, step, run, scope, todo, daily, deaths>>
    BY <1>5 DEF ProjectRaises
  <2>2. /\ status' \in [Projects -> {"", "SUCCESS", "FAILED"}]
        /\ auth' \in [Instances -> BOOLEAN]
        /\ \A q : q # run[i].project /\ q \in Projects => status'[q] = status[q]
        /\ run[i].project \in ProjectsOf[i]
    BY <1>0, <1>5, ProjectRaisesStep DEF InstanceInv, PhaseInv
  <2>3. \A j : Told(j)' = Told(j)
    BY <2>1 DEF Told, Of
  <2>4. \A j \in Instances \ {i} : \A p \in ProjectsOf[j] : status'[p] = status[p]
    BY <2>2, InstanceAssumption, KeyTypes
  <2> QED  BY <2>1, <2>2, <2>3, <2>4, <1>0 DEF TypeOK
<1>6. CASE ProjectFails(i)
  <2>1. /\ FinishRun(i, "FAILED") /\ UNCHANGED <<status, deaths>>
        /\ \/ End(i, "1")
           \/ /\ phase' = [phase EXCEPT ![i] = "before"]
              /\ step' = [step EXCEPT ![i] = LoopStep(i)]
              /\ UNCHANGED <<run, scope, todo, daily, auth, exit>>
    BY <1>6 DEF ProjectFails, HandlerCloses
  <2>2. rows' \subseteq Rows /\ \A j \in Instances \ {i} : Told(j)' = Told(j)
    BY <1>0, <2>1, FinishTells DEF TypeOK
  <2>3. CASE End(i, "1")
    BY <2>1, <2>2, <2>3, <1>0, EndTypes DEF TypeOK
  <2>4. CASE ~End(i, "1")
    BY <2>1, <2>2, <2>4, <1>0, StepTypes DEF TypeOK
  <2> QED  BY <2>3, <2>4
<1>7. CASE DailyStepRaises(i)
  <2>1. /\ FinishRun(i, "FAILED") /\ phase' = [phase EXCEPT ![i] = "before"]
        /\ step' = [step EXCEPT ![i] = NextStep(i)] /\ exit' = [exit EXCEPT ![i] = "1"]
        /\ UNCHANGED <<status, run, scope, todo, daily, auth, deaths>>
    BY <1>7 DEF DailyStepRaises, DailyCloses
  <2>2. rows' \subseteq Rows /\ \A j \in Instances \ {i} : Told(j)' = Told(j)
    BY <1>0, <2>1, FinishTells DEF TypeOK
  <2> QED  BY <2>1, <2>2, <1>0, StepTypes DEF TypeOK
<1>8. CASE Finish(i)
  <2>1. End(i, exit[i]) /\ UNCHANGED <<rows, status, deaths>> /\ exit[i] \in {"0", "1", "killed"}
    BY <1>0, <1>8, InstanceTypes DEF Finish
  <2>2. \A j : Told(j)' = Told(j)
    BY <2>1 DEF Told, Of
  <2> QED  BY <2>1, <2>2, <1>0, EndTypes DEF TypeOK
<1> QED  BY <1>1, <1>2, <1>3, <1>4, <1>5, <1>6, <1>7, <1>8 DEF Goes

LEMMA AuditStep == AuditInv /\ [Next]_vars => AuditInv'
<1> SUFFICES ASSUME AuditInv, [Next]_vars  PROVE AuditInv'
  OBVIOUS
<1>0. TypeOK /\ \A i \in Instances : InstanceInv(i)
  BY DEF AuditInv
<1>1. CASE \E i \in Instances : Goes(i)
  <2>1. PICK i \in Instances : Goes(i)
    BY <1>1
  <2>2. InstanceInv(i)'
    BY <1>0, <2>1, StartRunStep, StepDoneStep, WatermarkStep, CatalogRaisesStep, ProjectRaisesStep,
       ProjectFailsStep, DailyRaisesStep, FinishStep DEF Goes
  <2>3. TypeOK' /\ \A j \in Instances \ {i} : InstanceInv(j)'
    BY <1>0, <2>1, GoesTypes, Frame DEF Apart
  <2> QED  BY <2>2, <2>3 DEF AuditInv
<1>2. CASE \E i \in Instances : Start(i)
  <2>1. PICK i \in Instances : Start(i)
    BY <1>2
  <2>2. /\ ReclaimZombies(i) /\ UNCHANGED <<status, deaths>>
        /\ phase' = [phase EXCEPT ![i] = "before"] /\ step' = [step EXCEPT ![i] = "CATALOG"]
        /\ run' = [run EXCEPT ![i] = NoKey]
        /\ \E P \in SUBSET ProjectsOf[i] :
              scope' = [scope EXCEPT ![i] = P] /\ todo' = [todo EXCEPT ![i] = P]
        /\ auth' = [auth EXCEPT ![i] = FALSE] /\ exit' = [exit EXCEPT ![i] = "0"]
    BY <2>1 DEF Start
  <2>3. daily' \in [Instances -> BOOLEAN]
    BY <1>0, <2>1 DEF Start, TypeOK
  <2>4. "CATALOG" \in Steps /\ ProjectsOf[i] \subseteq Projects /\ NoKey \in Keys
    BY KeyTypes DEF Steps
  <2>s. /\ scope' \in [Instances -> SUBSET Projects] /\ todo' \in [Instances -> SUBSET Projects]
        /\ \A j \in Instances \ {i} : scope'[j] = scope[j] /\ todo'[j] = todo[j]
    <3>1. PICK P \in SUBSET ProjectsOf[i] :
                 scope' = [scope EXCEPT ![i] = P] /\ todo' = [todo EXCEPT ![i] = P]
      BY <2>2
    <3> QED  BY <1>0, <2>4, <3>1 DEF TypeOK
  <2>5. TypeOK'
    BY <1>0, <2>2, <2>3, <2>4, <2>s, ReclaimTells DEF TypeOK
  <2>6. InstanceInv(i)'
    BY <1>0, <2>1, StartStep
  <2>7. ASSUME NEW j \in Instances \ {i}
        PROVE  InstanceInv(j)'
    <3>1. /\ phase'[j] = phase[j] /\ step'[j] = step[j] /\ run'[j] = run[j]
          /\ scope'[j] = scope[j] /\ todo'[j] = todo[j] /\ exit'[j] = exit[j] /\ status' = status
      BY <1>0, <2>2, <2>s DEF TypeOK
    <3> QED  BY <1>0, <2>2, <3>1, ReclaimFrame
  <2> QED  BY <2>5, <2>6, <2>7 DEF AuditInv
<1>3. CASE \E i \in Instances : Dies(i)
  <2>1. PICK i \in Instances : Dies(i)
    BY <1>3
  <2>2. End(i, "killed") /\ status' = status /\ deaths' = deaths + 1 /\ deaths < MaxDeaths
    BY <2>1 DEF Dies
  <2>3. /\ rows' \subseteq Rows
        /\ \A j \in Instances \ {i} : Told(j)' = Told(j)
    BY <1>0, <2>1, DeathTells DEF TypeOK
  <2>4. deaths' \in 0 .. MaxDeaths
    <3>1. deaths \in 0 .. MaxDeaths
      BY <1>0 DEF TypeOK
    <3> QED  BY <2>2, <3>1, BoundAssumption
  <2>5. TypeOK'
    BY <1>0, <2>2, <2>3, <2>4, EndTypes DEF TypeOK
  <2>6. InstanceInv(i)'
    BY <1>0, <2>1, DiesStep
  <2>7. ASSUME NEW j \in Instances \ {i}
        PROVE  InstanceInv(j)'
    BY <1>0, <2>2, <2>3, EndTypes, Frame
  <2> QED  BY <2>5, <2>6, <2>7 DEF AuditInv
<1>4. CASE Hour
  <2>1. UNCHANGED <<status, processVars, deaths>>
    BY <1>4 DEF Hour
  <2>2. rows' \subseteq Rows
    BY <1>0, <1>4, HourTells DEF TypeOK
  <2>3. ASSUME NEW i \in Instances
        PROVE  InstanceInv(i)'
    BY <1>0, <1>4, <2>1, HourTells, Frame DEF TypeOK, processVars
  <2>4. TypeOK'
    BY <1>0, <2>1, <2>2 DEF TypeOK, processVars
  <2> QED  BY <2>3, <2>4 DEF AuditInv
<1>5. CASE UNCHANGED vars
  <2>1. UNCHANGED <<rows, status, processVars, deaths>>
    BY <1>5 DEF vars
  <2>2. TypeOK'
    BY <1>0, <2>1 DEF TypeOK, processVars
  <2>3. ASSUME NEW i \in Instances
        PROVE  InstanceInv(i)'
    <3>1. Told(i)' = Told(i)
      BY <2>1 DEF Told, Of
    <3> QED  BY <1>0, <2>1, <3>1, Frame DEF processVars
  <2> QED  BY <2>2, <2>3 DEF AuditInv
<1> QED  BY <1>1, <1>2, <1>3, <1>4, <1>5 DEF Next

(* AuditInv in every reachable state. *)
THEOREM AuditInvSafe == Spec => []AuditInv
<1> QED  BY AuditInit, AuditStep, PTL DEF Spec

(* ----------------------------------------------------------------------- *)
(* What the three accounts say of each other.                              *)

(* No path through run_instance leaves a row RUNNING but the death of the  *)
(* process, whatever runs beside it and reclaims (runner.py:136-152).      *)
THEOREM NoForgottenRunSafe == Spec => []NoForgottenRun
<1>1. ASSUME AuditInv
      PROVE  NoForgottenRun
  <2> SUFFICES ASSUME NEW r \in rows, r.status = "RUNNING", ~r.orphan
               PROVE  phase[r.inst] \in {"in", "handler"} /\ Current(r.inst, r)
    BY DEF NoForgottenRun
  <2>1. rows \subseteq Rows /\ r.inst \in Instances
    BY <1>1, RowFields DEF AuditInv, TypeOK
  <2>2. Of(r.inst, r) /\ InstanceInv(r.inst)
    BY <1>1, <2>1 DEF Of, AuditInv
  <2>3. \E t \in Told(r.inst) : t.key = r.key /\ t.status = "RUNNING"
    BY <2>1, <2>2, ToldOfRows
  <2> QED  BY <2>2, <2>3 DEF InstanceInv, RowInv, Open, Current
<1> QED  BY <1>1, AuditInvSafe, PTL

(* The rows of a run that was not killed, the last_status of its projects  *)
(* and its exit code agree, in all of AuditAgrees' ways.                   *)
THEOREM AuditAgreesSafe == Spec => []AuditAgrees
<1>1. ASSUME AuditInv
      PROVE  AuditAgrees
  <2> SUFFICES ASSUME NEW i \in Instances, phase[i] = "off", exit[i] # "killed"
               PROVE  LET mine   == {r \in rows : Of(i, r)}
                          of(p)  == {r \in mine : r.key.project = p}
                          fails(S) == \E r \in S : r.status = "FAILED"
                      IN  /\ exit[i] = "1" <=> fails(mine)
                          /\ \A p \in ProjectsOf[i] :
                               /\ fails(of(p)) => status[p] = "FAILED"
                               /\ of(p) # {} /\ status[p] = "FAILED" => fails(of(p))
                               /\ of(p) # {} /\ ~fails(of(p)) =>
                                     {r.key.step : r \in of(p)} = PerProject
                          /\ exit[i] = "0" =>
                               \A p \in scope[i] : of(p) # {} /\ status[p] = "SUCCESS"
                          /\ \A p \in ProjectsOf[i] \ scope[i] : of(p) = {}
    BY DEF AuditAgrees
  <2> DEFINE mine  == {r \in rows : Of(i, r)}
             of(p) == {r \in mine : r.key.project = p}
  <2>1. TypeOK /\ InstanceInv(i) /\ rows \subseteq Rows
    BY <1>1 DEF AuditInv, TypeOK
  <2>2. exit[i] = "1" <=> \E t \in Told(i) : t.status = "FAILED"
    BY <2>1 DEF InstanceInv, ExitInv, Open
  <2>3. (\E t \in Told(i) : t.status = "FAILED") <=> \E r \in mine : r.status = "FAILED"
    BY <2>1, ToldOfRows
  <2>4. ASSUME NEW p \in ProjectsOf[i]
        PROVE  /\ \A t \in On(i, p) : \E r \in of(p) : r.key = t.key /\ r.status = t.status
               /\ \A r \in of(p) : \E t \in On(i, p) : t.key = r.key /\ t.status = r.status
    BY <2>1, ToldOfRows DEF On
  <2>5. ASSUME NEW p \in ProjectsOf[i]
        PROVE  \A r \in of(p) : r.key.step \in PerProject
    <3>1. \A t \in On(i, p) : t.key.step \in PerProject
      BY <2>1, InstanceTypes DEF InstanceInv, RowInv, On
    <3> QED  BY <2>4, <3>1
  <2>6. ASSUME NEW p \in ProjectsOf[i]
        PROVE  \/ of(p) = {} /\ (p \in scope[i] => exit[i] = "1")
               \/ /\ status[p] = "SUCCESS" /\ ~\E r \in of(p) : r.status = "FAILED"
                  /\ \A s \in PerProject : \E r \in of(p) : r.key.step = s
               \/ status[p] = "FAILED" /\ \E r \in of(p) : r.status = "FAILED"
    <3>1. p \in scope[i] => (On(i, p) = {} /\ exit[i] = "1") \/ Settled(i, p)
      BY <2>1 DEF InstanceInv, ProjectInv
    <3>2. p \notin scope[i] => On(i, p) = {}
      BY <2>1, InstanceTypes DEF InstanceInv, RowInv, On
    <3> HIDE DEF of
    <3> QED  BY <2>4, <3>1, <3>2 DEF Settled, Failing
  <2>7. ASSUME NEW p \in ProjectsOf[i]
        PROVE  (\E r \in of(p) : r.status = "FAILED") => \E r \in mine : r.status = "FAILED"
    OBVIOUS
  <2>8. "ISSUES" \in PerProject
    BY DEF PerProject
  <2> HIDE DEF mine, of
  <2>9. ASSUME NEW p \in ProjectsOf[i]
        PROVE  /\ (\E r \in of(p) : r.status = "FAILED") => status[p] = "FAILED"
               /\ of(p) # {} /\ status[p] = "FAILED" => \E r \in of(p) : r.status = "FAILED"
               /\ of(p) # {} /\ ~(\E r \in of(p) : r.status = "FAILED") =>
                     {r.key.step : r \in of(p)} = PerProject
               /\ exit[i] = "0" /\ p \in scope[i] => of(p) # {} /\ status[p] = "SUCCESS"
    <3>1. of(p) # {} /\ ~(\E r \in of(p) : r.status = "FAILED") =>
             {r.key.step : r \in of(p)} = PerProject
      BY <2>5, <2>6
    <3> QED  BY <2>2, <2>3, <2>6, <2>7, <2>8, <3>1
  <2>10. scope[i] \subseteq ProjectsOf[i]
    BY <2>1 DEF InstanceInv, PhaseInv
  <2>11. ASSUME NEW p \in ProjectsOf[i] \ scope[i]
         PROVE  of(p) = {}
    <3>1. On(i, p) = {}
      BY <2>1, <2>11, InstanceTypes DEF InstanceInv, RowInv, On
    <3> QED  BY <2>4, <3>1
  <2> QED  BY <2>2, <2>3, <2>9, <2>10, <2>11 DEF mine, of
<1> QED  BY <1>1, AuditInvSafe, PTL

(* Only the end of a project makes it a SUCCESS, after its three steps. *)
LEMMA SuccessStep ==
  ASSUME AuditInv, [Next]_vars, NEW i \in Instances, NEW p \in ProjectsOf[i],
         status[p] # "SUCCESS", status'[p] = "SUCCESS", NEW s \in PerProject
  PROVE  \E r \in rows : Of(i, r) /\ r.key = [project |-> p, step |-> s] /\ r.status = "SUCCESS"
<1>0. TypeOK /\ rows \subseteq Rows /\ p \in Projects /\ \A j \in Instances : InstanceInv(j)
  BY KeyTypes DEF AuditInv, TypeOK
<1>1. PICK j \in Instances : WriteWatermark(j)
  <2>1. status' # status
    OBVIOUS
  <2>2. ASSUME NEW j \in Instances, ProjectRaises(j)
        PROVE  FALSE
    BY <1>0, <2>2 DEF ProjectRaises, TypeOK
  <2> QED
    BY <2>1, <2>2 DEF Next, Goes, Start, StartRun, StepDone, CatalogRaises, ProjectFails,
                      DailyStepRaises, Finish, Dies, Hour, vars
<1>2. /\ phase[j] = "after" /\ status' = [status EXCEPT ![run[j].project] = "SUCCESS"]
  BY <1>1 DEF WriteWatermark
<1>3. run[j].project = p
  BY <1>0, <1>2 DEF TypeOK
<1>4. InTry(j) /\ p \in scope[j] \ todo[j] /\ p \in ProjectsOf[j]
  BY <1>0, <1>2, <1>3 DEF InstanceInv, PhaseInv, InTry, PerProject
<1>5. j = i
  BY <1>4, InstanceAssumption
<1>6. Midway(i, p) /\ Begun(i) = PerProject
  BY <1>0, <1>2, <1>3, <1>4, <1>5 DEF InstanceInv, ProjectInv, Begun, Behind
<1>7. PICK t \in On(i, p) : t.key.step = s /\ t.status = "SUCCESS"
  BY <1>2, <1>5, <1>6 DEF Midway, Open
<1>8. PICK r \in rows : Of(i, r) /\ r.key = t.key /\ r.status = t.status
  BY <1>0, <1>7, ToldOfRows DEF On
<1>9. r.key \in Keys /\ r.key.project = p /\ r.key.step = s
  BY <1>0, <1>7, <1>8, RowFields DEF On
<1> QED  BY <1>7, <1>8, <1>9 DEF Keys

(* A project turns to SUCCESS only when its three steps have a row that    *)
(* says so, of the same instance and the same run (5.8).                   *)
THEOREM SuccessIsWholeSafe == Spec => SuccessIsWhole
<1>1. AuditInv /\ [Next]_vars =>
        [\A i \in Instances : \A p \in ProjectsOf[i] :
            status[p] # "SUCCESS" /\ status'[p] = "SUCCESS" =>
                \A s \in PerProject : \E r \in rows :
                    Of(i, r) /\ r.key = [project |-> p, step |-> s] /\ r.status = "SUCCESS"]_vars
  BY SuccessStep
<1> QED  BY <1>1, AuditInvSafe, PTL DEF Spec, SuccessIsWhole
=============================================================================
