------------------------------- MODULE RunAudit -------------------------------
(***************************************************************************)
(* The rows of TEST_SYNC_RUN and the column last_status of                 *)
(* TEST_SYNC_WATERMARK, which pipeline/runner.py and repository/sync.py    *)
(* keep for those who watch the pipeline, beside the exit code.            *)
(*                                                                         *)
(* Each instance is synced by a process of its own, one at a time under    *)
(* flock; the processes of different instances run side by side and meet   *)
(* only in reclaim_zombies.  An action is one transaction.  What the steps *)
(* do is the matter of SyncRun, FieldHistory and Placement: here a step    *)
(* succeeds or raises.  A dry run commits none of this and is left out.    *)
(***************************************************************************)
EXTENDS Integers, FiniteSets

CONSTANTS
    Instances,
    ProjectsOf,     \* the projects of each instance, enabled or not
    NoProject,      \* the project_id of a row that is not about one: NULL
    Stale,          \* older_than_hours of reclaim_zombies
    MaxDeaths       \* bound on the processes that die

Projects == UNION {ProjectsOf[i] : i \in Instances}
PerProject == {"ISSUES", "HISTORY", "FIRST_DONE"}
Daily == {"PROFILE", "DETECT_DELETED"}
Steps == {"CATALOG"} \cup PerProject \cup Daily

ASSUME InstanceAssumption ==
    /\ IsFiniteSet(Projects) /\ NoProject \notin Projects
    /\ \A i, j \in Instances : i # j => ProjectsOf[i] \cap ProjectsOf[j] = {}
ASSUME BoundAssumption == Stale \in Nat /\ MaxDeaths \in Nat

VARIABLES
    rows,       \* TEST_SYNC_RUN, less the closed rows of earlier runs
    status,     \* last_status of each project, "" for NULL or no row
    phase,      \* per instance: "off", or where its process is
    step,       \* the step it is in or about to begin, "END" after the last
    run,        \* run_id: the project and the step of the row it began last
    scope,      \* the projects the present or last run is to sync
    todo,       \* those of them still to be synced
    daily,      \* --daily
    auth,       \* whether the exception being handled is a JiraAuthError
    exit,       \* the exit code: of the last run, or what it would be now
    deaths

processVars == <<phase, step, run, scope, todo, daily, auth, exit>>
vars == <<rows, status, processVars, deaths>>

(* A row's age is counted in hours while it is RUNNING, up to past Stale.  *)
(* Two rows that agree in everything are told apart by no code.            *)
Keys == [project : Projects \cup {NoProject}, step : Steps]
Rows == [inst : Instances, key : Keys, status : {"RUNNING", "SUCCESS", "FAILED"},
         age : 0 .. Stale + 1, orphan : BOOLEAN]
NoKey == [project |-> NoProject, step |-> "CATALOG"]

TypeOK ==
    /\ rows \subseteq Rows
    /\ status \in [Projects -> {"", "SUCCESS", "FAILED"}]
    /\ phase \in [Instances -> {"off", "before", "in", "after", "handler"}]
    /\ step \in [Instances -> Steps \cup {"END"}]
    /\ run \in [Instances -> Keys]
    /\ scope \in [Instances -> SUBSET Projects] /\ todo \in [Instances -> SUBSET Projects]
    /\ daily \in [Instances -> BOOLEAN] /\ auth \in [Instances -> BOOLEAN]
    /\ exit \in [Instances -> {"0", "1", "killed"}]
    /\ deaths \in 0 .. MaxDeaths
-----------------------------------------------------------------------------
Of(i, r) == r.inst = i /\ ~r.orphan
Current(i, r) == Of(i, r) /\ r.key = run[i]

Updated(R, S, f(_)) == (R \ S) \cup {f(r) : r \in S}

(* Mutant: rows that are young are taken for those of a dead process. *)
ReclaimableYoung(r) == r.status = "RUNNING" /\ r.age < Stale

(* WHERE status = 'RUNNING' AND started_at < now - hours, of any instance. *)
Reclaimable(r) == r.status = "RUNNING" /\ r.age > Stale

Closed(r, how) == [r EXCEPT !.status = how, !.age = 0]

(* reclaim_zombies.  No last_status is ever 'RUNNING', so its second       *)
(* statement finds nothing.  What the model forgets of the earlier run of  *)
(* the instance are rows nothing reads again.                              *)
ReclaimZombies(i) ==
    LET reclaimed == Updated(rows, {r \in rows : Reclaimable(r)},
                             LAMBDA r : Closed(r, "FAILED"))
    IN  rows' = {r \in reclaimed : r.status = "RUNNING" \/ r.inst # i}

(* The process starts with its arguments and reclaims.  It will sync the   *)
(* projects that are enabled, any set of them, or with --project the one   *)
(* of that key among them, or none.                                        *)
Start(i) ==
    /\ phase[i] = "off"
    /\ ReclaimZombies(i)
    /\ phase' = [phase EXCEPT ![i] = "before"] /\ step' = [step EXCEPT ![i] = "CATALOG"]
    /\ run' = [run EXCEPT ![i] = NoKey]
    /\ \E P \in SUBSET ProjectsOf[i] :
          scope' = [scope EXCEPT ![i] = P] /\ todo' = [todo EXCEPT ![i] = P]
    /\ \E d \in BOOLEAN : daily' = [daily EXCEPT ![i] = d]
    /\ auth' = [auth EXCEPT ![i] = FALSE] /\ exit' = [exit EXCEPT ![i] = "0"]
    /\ UNCHANGED <<status, deaths>>

(* start_run: the row, and the run_id the process goes on with. *)
StartRun(i) ==
    /\ phase[i] = "before" /\ step[i] # "END"
    /\ \E p \in IF step[i] = "ISSUES" THEN todo[i]
                ELSE {IF step[i] \in PerProject THEN run[i].project ELSE NoProject} :
          LET k == [project |-> p, step |-> step[i]]
          IN  /\ run' = [run EXCEPT ![i] = k]
              /\ todo' = [todo EXCEPT ![i] = @ \ {p}]
              /\ rows' = rows \cup {[inst |-> i, key |-> k, status |-> "RUNNING",
                                     age |-> 0, orphan |-> FALSE]}
    /\ phase' = [phase EXCEPT ![i] = "in"]
    /\ UNCHANGED <<status, step, scope, daily, auth, exit, deaths>>

FinishRun(i, how) ==
    rows' = Updated(rows, {r \in rows : Current(i, r)}, LAMBDA r : Closed(r, how))

(* What comes after a project, or after the catalog. *)
LoopStep(i) == IF todo[i] # {} THEN "ISSUES" ELSE IF daily[i] THEN "PROFILE" ELSE "END"

(* Mutant: a name that test_ck_sr_step does not list. *)
NextStepUnlisted(i) == IF step[i] = "PROFILE" THEN "DETECT" ELSE LoopStep(i)

Following == [ISSUES |-> "HISTORY", HISTORY |-> "FIRST_DONE",
              PROFILE |-> "DETECT_DELETED", DETECT_DELETED |-> "END"]

NextStep(i) == IF step[i] \in DOMAIN Following THEN Following[step[i]] ELSE LoopStep(i)

(* Mutant: the watermark is written before FIRST_DONE. *)
LastOfProjectEarly(s) == s = "HISTORY"

LastOfProject(s) == s = "FIRST_DONE"

(* The step is done: SUCCESS.  After FIRST_DONE comes the watermark. *)
StepDone(i) ==
    /\ phase[i] = "in"
    /\ FinishRun(i, "SUCCESS")
    /\ IF LastOfProject(step[i])
       THEN phase' = [phase EXCEPT ![i] = "after"] /\ UNCHANGED step
       ELSE phase' = [phase EXCEPT ![i] = "before"] /\ step' = [step EXCEPT ![i] = NextStep(i)]
    /\ UNCHANGED <<status, run, scope, todo, daily, auth, exit, deaths>>

(* write_watermark, clear_full_resync, commit. *)
WriteWatermark(i) ==
    /\ phase[i] = "after"
    /\ status' = [status EXCEPT ![run[i].project] = "SUCCESS"]
    /\ phase' = [phase EXCEPT ![i] = "before"] /\ step' = [step EXCEPT ![i] = LoopStep(i)]
    /\ UNCHANGED <<rows, run, scope, todo, daily, auth, exit, deaths>>
-----------------------------------------------------------------------------
(* Exceptions.                                                             *)

End(i, code) ==
    /\ phase' = [phase EXCEPT ![i] = "off"] /\ step' = [step EXCEPT ![i] = "END"]
    /\ run' = [run EXCEPT ![i] = NoKey] /\ todo' = [todo EXCEPT ![i] = {}]
    /\ daily' = [daily EXCEPT ![i] = FALSE] /\ auth' = [auth EXCEPT ![i] = FALSE]
    /\ exit' = [exit EXCEPT ![i] = code]
    /\ UNCHANGED scope

CatalogRaises(i) ==
    /\ phase[i] = "in" /\ step[i] = "CATALOG"
    /\ FinishRun(i, "FAILED")
    /\ End(i, "1")
    /\ UNCHANGED <<status, deaths>>

(* In the try block of the project: in a step, in start_run of HISTORY or  *)
(* FIRST_DONE, or with the watermark.  request_full_resync commits what    *)
(* write_watermark wrote; only a Jira call raises a JiraAuthError.         *)
ProjectRaises(i) ==
    /\ step[i] \in PerProject
    /\ phase[i] \in {"in", "after"} \/ (phase[i] = "before" /\ step[i] # "ISSUES")
    /\ status' = [status EXCEPT ![run[i].project] = "FAILED"]
    /\ phase' = [phase EXCEPT ![i] = "handler"]
    /\ \E a \in {FALSE, phase[i] = "in" /\ step[i] = "ISSUES"} :
          auth' = [auth EXCEPT ![i] = a]
    /\ exit' = [exit EXCEPT ![i] = "1"]
    /\ UNCHANGED <<rows, step, run, scope, todo, daily, deaths>>

(* Mutant: the row is closed by the step that raised, where it had a row. *)
HandlerClosesOwn(i) ==
    IF run[i].step = step[i] THEN FinishRun(i, "FAILED") ELSE UNCHANGED rows

(* finish_run of the handler: run_id is that of the row begun last. *)
HandlerCloses(i) == FinishRun(i, "FAILED")

ProjectFails(i) ==
    /\ phase[i] = "handler"
    /\ HandlerCloses(i)
    /\ IF auth[i] THEN End(i, "1")
       ELSE /\ phase' = [phase EXCEPT ![i] = "before"]
            /\ step' = [step EXCEPT ![i] = LoopStep(i)]
            /\ UNCHANGED <<run, scope, todo, daily, auth, exit>>
    /\ UNCHANGED <<status, deaths>>

(* Mutant: before Item 10 no handler stood around the daily steps. *)
DailyClosesNot(i) == UNCHANGED rows

DailyCloses(i) == FinishRun(i, "FAILED")

DailyStepRaises(i) ==
    /\ phase[i] = "in" /\ step[i] \in Daily
    /\ DailyCloses(i)
    /\ phase' = [phase EXCEPT ![i] = "before"] /\ step' = [step EXCEPT ![i] = NextStep(i)]
    /\ exit' = [exit EXCEPT ![i] = "1"]
    /\ UNCHANGED <<status, run, scope, todo, daily, auth, deaths>>

(* run_instance returns and main makes an exit code of the summary. *)
Finish(i) ==
    /\ phase[i] = "before" /\ step[i] = "END"
    /\ End(i, exit[i])
    /\ UNCHANGED <<rows, status, deaths>>

(* The process is killed, loses its session, or raises where no handler    *)
(* stands: in start_run of any other step, or in a handler itself.         *)
Dies(i) ==
    /\ phase[i] # "off" /\ deaths < MaxDeaths
    /\ deaths' = deaths + 1
    /\ rows' = Updated(rows, {r \in rows : Of(i, r)}, LAMBDA r : [r EXCEPT !.orphan = TRUE])
    /\ End(i, "killed")
    /\ UNCHANGED status

(* An hour passes. *)
Hour ==
    /\ \E r \in rows : r.status = "RUNNING" /\ r.age <= Stale
    /\ rows' = {[r EXCEPT !.age = IF r.status = "RUNNING" /\ r.age <= Stale
                                  THEN r.age + 1 ELSE r.age] : r \in rows}
    /\ UNCHANGED <<status, processVars, deaths>>
-----------------------------------------------------------------------------
Init ==
    /\ rows = {} /\ status = [p \in Projects |-> ""]
    /\ phase = [i \in Instances |-> "off"] /\ step = [i \in Instances |-> "END"]
    /\ run = [i \in Instances |-> NoKey]
    /\ scope = [i \in Instances |-> {}] /\ todo = [i \in Instances |-> {}]
    /\ daily = [i \in Instances |-> FALSE] /\ auth = [i \in Instances |-> FALSE]
    /\ exit = [i \in Instances |-> "killed"]
    /\ deaths = 0

Goes(i) == \/ StartRun(i) \/ StepDone(i) \/ WriteWatermark(i)
           \/ CatalogRaises(i) \/ ProjectRaises(i) \/ ProjectFails(i) \/ DailyStepRaises(i)
           \/ Finish(i)

Next == \/ \E i \in Instances : Start(i) \/ Goes(i) \/ Dies(i)
        \/ Hour

Spec == Init /\ [][Next]_vars

(* Hours pass, a process that is not killed goes on, and cron starts the   *)
(* next one.                                                               *)
FairSpec == /\ Spec /\ WF_vars(Hour)
            /\ \A i \in Instances : WF_vars(Goes(i)) /\ SF_vars(Start(i))
-----------------------------------------------------------------------------
(* Properties.                                                             *)

(* A row that says RUNNING is that of the step a live process is in, or    *)
(* whose failure it is handling, unless the process died; no other path    *)
(* through run_instance leaves a row RUNNING (runner.py:136-152, Item 10). *)
NoForgottenRun ==
    \A r \in rows :
        r.status = "RUNNING" /\ ~r.orphan =>
            phase[r.inst] \in {"in", "handler"} /\ Current(r.inst, r)

(* After a run that was not killed, the three accounts of it agree: of a   *)
(* project it synced last_status is SUCCESS exactly if its three steps say *)
(* so and FAILED exactly if one of them does, and the exit code is 0       *)
(* exactly if no row of the run says FAILED.  Exit code 0 speaks of the    *)
(* projects the run was to sync: one that is disabled, or that --project   *)
(* leaves out, has no row of it and whatever last_status it had.           *)
AuditAgrees ==
    \A i \in Instances :
        phase[i] = "off" /\ exit[i] # "killed" =>
            LET mine   == {r \in rows : Of(i, r)}
                of(p)  == {r \in mine : r.key.project = p}
                fails(S) == \E r \in S : r.status = "FAILED"
            IN  /\ exit[i] = "1" <=> fails(mine)
                /\ \A p \in ProjectsOf[i] :
                     /\ fails(of(p)) => status[p] = "FAILED"
                     /\ of(p) # {} /\ status[p] = "FAILED" => fails(of(p))
                     /\ of(p) # {} /\ ~fails(of(p)) => {r.key.step : r \in of(p)} = PerProject
                /\ exit[i] = "0" => \A p \in scope[i] : of(p) # {} /\ status[p] = "SUCCESS"
                /\ \A p \in ProjectsOf[i] \ scope[i] : of(p) = {}

(* A project is told SUCCESS only when its three steps were (5.8).         *)
SuccessIsWhole ==
    [][\A i \in Instances : \A p \in ProjectsOf[i] :
          status[p] # "SUCCESS" /\ status'[p] = "SUCCESS" =>
              \A s \in PerProject : \E r \in rows :
                  Of(i, r) /\ r.key = [project |-> p, step |-> s] /\ r.status = "SUCCESS"]_vars

(* Once processes stop dying, no row they left stays RUNNING (5.10).       *)
EventuallyClosed == <>[](\A r \in rows : r.orphan => r.status # "RUNNING")
-----------------------------------------------------------------------------
(* The inductive invariant behind the three safety properties.             *)

(* What the rows of the present or last run of an instance say. *)
Told(i)    == {[key |-> r.key, status |-> r.status] : r \in {q \in rows : Of(i, q)}}
On(i, p)   == {t \in Told(i) : t.key.project = p}
Failing(T) == \E t \in T : t.status = "FAILED"

(* The try block of a project, which has the handler around it. *)
InTry(i) == /\ step[i] \in PerProject
            /\ phase[i] \in {"in", "after", "handler"} \/ (phase[i] = "before" /\ step[i] # "ISSUES")

(* The row that is still open, if any; another instance may close it too. *)
Open(i, t) == phase[i] \in {"in", "handler"} /\ t.key = run[i]

(* Which steps have a phase, and which row run_id is that of. *)
PhaseInv(i) ==
    /\ phase[i] \in {"in", "after", "handler"} => step[i] # "END"
    /\ phase[i] = "after" => step[i] = "FIRST_DONE"
    /\ phase[i] = "handler" => step[i] \in PerProject
    /\ phase[i] \in {"in", "after"} => run[i].step = step[i]
    /\ phase[i] = "in" /\ step[i] \notin PerProject => run[i].project = NoProject
    /\ InTry(i) => /\ run[i].project \in scope[i] \ todo[i] /\ run[i].step \in PerProject
                   /\ phase[i] = "before" /\ step[i] = "HISTORY" => run[i].step = "ISSUES"
                   /\ phase[i] = "before" /\ step[i] = "FIRST_DONE" => run[i].step = "HISTORY"
    /\ step[i] \in Daily \cup {"END"} => todo[i] = {}
    /\ todo[i] \subseteq scope[i] /\ scope[i] \subseteq ProjectsOf[i]

(* No row is begun twice, none is of a project outside the scope, and none *)
(* but the open one says RUNNING.                                          *)
RowInv(i) ==
    /\ \A t \in Told(i) :
          /\ IF t.key.step \in PerProject THEN t.key.project \in scope[i]
                                          ELSE t.key.project = NoProject
          /\ t.status = "RUNNING" => Open(i, t)
    /\ phase[i] = "before" /\ step[i] = "CATALOG" => Told(i) = {}
    /\ phase[i] # "off" => \A t \in Told(i) :
          /\ t.key.step = "PROFILE" =>
                \/ step[i] = "PROFILE" /\ phase[i] = "in"
                \/ step[i] \in {"DETECT_DELETED", "END"}
          /\ t.key.step = "DETECT_DELETED" =>
                \/ step[i] = "DETECT_DELETED" /\ phase[i] = "in"
                \/ step[i] = "END"

(* A project that is through is told the same by its rows and its status. *)
Settled(i, p) ==
    \/ /\ status[p] = "SUCCESS" /\ ~Failing(On(i, p))
       /\ \A s \in PerProject : \E t \in On(i, p) : t.key.step = s
    \/ status[p] = "FAILED" /\ Failing(On(i, p))

(* The steps behind the one a project is in, and that one, have each a row *)
(* and no other has; the rows closed say SUCCESS.                          *)
Behind(i) == IF phase[i] = "after" THEN PerProject
             ELSE IF step[i] = "FIRST_DONE" THEN {"ISSUES", "HISTORY"}
             ELSE IF step[i] = "HISTORY" THEN {"ISSUES"} ELSE {}

Begun(i) == Behind(i) \cup (IF phase[i] = "in" THEN {step[i]} ELSE {})

Midway(i, p) ==
    /\ \E t \in On(i, p) : t.key = run[i]
    /\ IF phase[i] = "handler" THEN status[p] = "FAILED"
       ELSE /\ \A s \in Begun(i) : \E t \in On(i, p) : t.key.step = s
            /\ \A t \in On(i, p) : /\ t.key.step \in Begun(i)
                                   /\ t.status = "SUCCESS" \/ Open(i, t)

ProjectInv(i) ==
    /\ phase[i] # "off" => \A p \in scope[i] :
          IF p \in todo[i] THEN On(i, p) = {}
          ELSE IF InTry(i) /\ p = run[i].project THEN Midway(i, p) ELSE Settled(i, p)
    /\ phase[i] = "off" /\ exit[i] # "killed" =>
          \A p \in scope[i] : (On(i, p) = {} /\ exit[i] = "1") \/ Settled(i, p)

(* The exit code remembers a failure that the rows tell of. *)
ExitInv(i) ==
    /\ phase[i] # "off" => exit[i] # "killed"
    /\ phase[i] = "in" /\ step[i] \notin PerProject => \E t \in Told(i) : t.key = run[i]
    /\ exit[i] # "killed" =>
          (exit[i] = "1" <=> \/ phase[i] = "handler"
                            \/ \E t \in Told(i) : t.status = "FAILED" /\ ~Open(i, t))

InstanceInv(i) == PhaseInv(i) /\ RowInv(i) /\ ProjectInv(i) /\ ExitInv(i)

AuditInv == TypeOK /\ \A i \in Instances : InstanceInv(i)
=============================================================================
