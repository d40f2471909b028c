-------------------------------- MODULE Doctor --------------------------------
(***************************************************************************)
(* The doctor command (doctor/jira_checks.py, doctor/db_checks.py and its  *)
(* branch of cli.py): which verdict each of the checks A1-A12 and DB1-DB8  *)
(* gives, in which order, from which answers of Jira and of Oracle, while  *)
(* others go on working in Jira.                                           *)
(*                                                                         *)
(* An action is one call of Jira with the checks decided by its answer, or *)
(* one check of the database.  What a query may answer is chosen when it   *)
(* is asked, except for the facts two checks or two calls must agree on.   *)
(***************************************************************************)
EXTENDS Integers, Sequences, FiniteSets

CONSTANTS
    Issues,         \* the issues the probed project may have, 1 .. n
    Payloads,       \* what an issue may look like: [hist, user, custom]
    Requested,      \* maxResults as the doctor asks for it
    Window,         \* the entries of a changelog a search shows
    Statements,     \* the DDL: [kind, name, of, width, remark]
    MaxChanges      \* bound on the changes in Jira

ASSUME ProbeAssumption ==
    /\ IsFiniteSet(Issues) /\ Requested \in Nat \ {0} /\ Window \in Nat /\ MaxChanges \in Nat

(* The times of a changelog, [id, time] each, do not go back. *)
ASSUME PayloadsAssumption ==
    /\ Payloads \subseteq [hist : Seq(Nat \X Nat), user : STRING, custom : BOOLEAN]
    /\ \A v \in Payloads : \A j, k \in DOMAIN v.hist : j < k => v.hist[j][2] <= v.hist[k][2]

(* The files declare six kinds of objects, columns inside CREATE TABLE only. *)
ASSUME StatementsAssumption ==
    \A s \in Statements :
        /\ s.kind \in {"table", "column", "index", "constraint", "view", "sequence"}
        /\ s.remark \in BOOLEAN
        /\ s.kind = "column" /\ ~s.remark =>
              \E t \in Statements : t.kind = "table" /\ ~t.remark /\ t.name = s.of

VARIABLES
    order,      \* Jira: the issues of the project, ORDER BY updated ASC
    payload,    \* Jira: what each issue looks like
    jira,       \* Jira: what the server does, see Servers
    changes,    \* the changes made in Jira so far
    pc,         \* the call or check that comes next
    sections,   \* what of {"db", "schema", "jira"} was asked for and is not done
    page,       \* the first page, as it was answered
    report,     \* the list of results of this section
    failed,     \* the `failed' of main
    exit,       \* the exit code, -1 while running
    applied,    \* Oracle: the width of each object that is there
    unseen,     \* the checks whose fact the answers did not show
    touched,    \* the issues changed since the first page
    told        \* did any report printed say FAIL?

jiraVars  == <<order, payload, jira>>
ghostVars == <<unseen, touched, told>>
vars == <<jiraVars, changes, pc, sections, page, report, failed, exit, applied, ghostVars>>

(* paging: is startAt honoured; cap: the largest page; inline: do searches *)
(* carry changelogs; ascending: their order; wide: how many entries of one *)
(* /issue shows.                                                           *)
Servers == [paging : BOOLEAN, cap : 1 .. Requested, inline : BOOLEAN, ascending : BOOLEAN,
            wide : {Window, Window + 1}]

Result(c, v)  == [id |-> c, verdict |-> v]
Graded(c, ok, otherwise) == Result(c, IF ok THEN "PASS" ELSE otherwise)

DbOrder   == <<"DB1", "DB2", "DB3", "DB4", "DB5", "DB6", "DB8", "DB7">>
JiraCalls == {"fields", "statuses", "projects", "search", "second", "changelog"}

Taken(issues) == {issues[k] : k \in DOMAIN issues}

NoPage == [issues |-> <<>>, total |-> 0, cap |-> 0, shown |-> <<>>]
-----------------------------------------------------------------------------
(* Jira, and the people who work in it.                                    *)

Without(i) == LET k == CHOOSE n \in DOMAIN order : order[n] = i
              IN  SubSeq(order, 1, k - 1) \o SubSeq(order, k + 1, Len(order))

(* Changes before the first page are left to the initial state. *)
MayChange(i) ==
    /\ pc \in {"second", "page", "changelog"} /\ changes < MaxChanges
    /\ \E k \in DOMAIN order : order[k] = i
    /\ changes' = changes + 1 /\ touched' = touched \cup {i}
    /\ UNCHANGED <<jira, pc, sections, page, report, failed, exit, applied, unseen, told>>

(* An issue is edited: it goes to the end of the order, and its changelog  *)
(* gets an entry.                                                          *)
Edit(i) ==
    /\ MayChange(i)
    /\ order' = Append(Without(i), i)
    /\ payload' = [payload EXCEPT ![i].hist = Append(@, <<changes + 10, changes + 10>>)]

Delete(i) ==
    /\ MayChange(i)
    /\ order' = Without(i) /\ UNCHANGED payload

Smaller(a, b) == IF a < b THEN a ELSE b

(* The issues of the page at offset k. *)
SearchAnswer(k) ==
    LET from == IF jira.paging THEN k ELSE 0
    IN  SubSeq(order, from + 1, Smaller(from + jira.cap, Len(order)))

(* The changelog of i in the order the server gives it. *)
Served(i) == LET h == payload[i].hist
                 n == Len(h)
             IN  IF jira.ascending THEN h ELSE [k \in 1 .. n |-> h[n + 1 - k]]

Prefix(s, n) == SubSeq(s, 1, Smaller(n, Len(s)))
-----------------------------------------------------------------------------
(* A report: results in the order they are appended.                       *)

Report(rs, unknown) == /\ report' = report \o rs
                       /\ unseen' = unseen \cup unknown

(* Mutant: the error is swallowed and the check forgotten. *)
DegradedSilently(c) == <<>>

(* _degrade_to_warn: the query of the check raised. *)
Degraded(c) == <<Result(c, "WARN")>>

Started == /\ report' = <<>> /\ unseen' = {} /\ touched' = {}
           /\ page' = NoPage /\ applied' = <<>>

(* main: what the command line asks for. *)
Start(s) ==
    /\ pc = "start"
    /\ "db" \in s \/ s = {"jira"}            \* --skip-schema is about db only
    /\ sections' = s
    /\ pc' = IF "db" \in s THEN "DB1" ELSE "client"
    /\ UNCHANGED <<jiraVars, changes, page, report, failed, exit, applied, ghostVars>>

Fails(rs) == {k \in DOMAIN rs : rs[k].verdict = "FAIL"}

(* Mutant: the verdict of the database is overwritten. *)
FailedOfLast(rs) == Fails(rs) # {}

(* failed |= any(...). *)
Failed(rs) == failed \/ Fails(rs) # {}

(* The section is printed and counted; the next one begins or main returns. *)
EndSection ==
    /\ pc = "report"
    /\ failed' = Failed(report)
    /\ told' = (told \/ Fails(report) # {})
    /\ LET rest == IF "db" \in sections THEN sections \ {"db", "schema"} ELSE {}
       IN  /\ sections' = rest
           /\ pc' = IF rest = {} THEN "done" ELSE "client"
           /\ exit' = IF rest = {} THEN (IF failed' THEN 1 ELSE 0) ELSE exit
    /\ Started
    /\ UNCHANGED <<jiraVars, changes>>

(* An error no check handles ends the command: no database, no such        *)
(* instance, no token, JiraTransientError.                                 *)
Escapes ==
    /\ pc \in Taken(DbOrder) \cup {"client"} \cup JiraCalls
    /\ pc' = "done" /\ exit' = 1
    /\ Started
    /\ UNCHANGED <<jiraVars, changes, sections, failed, told>>
-----------------------------------------------------------------------------
(* run_db_checks.                                                          *)

NextCheck(c) ==
    LET k == CHOOSE n \in DOMAIN DbOrder : DbOrder[n] = c
    IN  IF k = 8 \/ (k = 7 /\ "schema" \notin sections) THEN "report" ELSE DbOrder[k + 1]

(* Mutant: a value that is not there is as good as any. *)
WhenAbsentPass(c) == "PASS"

(* The verdict of a check whose query answers without the value: "" has no *)
(* 19 in it, "?" is not STANDARD, None is no count, no privilege is none.  *)
WhenAbsent(c) == IF c \in {"DB1", "DB3", "DB5", "DB8"} THEN "FAIL" ELSE "WARN"

WhenBad(c) == IF c \in {"DB2", "DB6"} THEN "WARN" ELSE "FAIL"

(* DB1 to DB6 and DB8: the query raises, gives no value, or gives the      *)
(* value wanted or another.  Any charset and block size will do for DB4.   *)
CheckDb(c) ==
    /\ pc = c /\ c # "DB7"
    /\ \/ Report(Degraded(c), {c})
       \/ Report(<<Result(c, WhenAbsent(c))>>, {c})
       \/ Report(<<Result(c, "PASS")>>, {})
       \/ c # "DB4" /\ Report(<<Result(c, WhenBad(c))>>, {})
    /\ pc' = NextCheck(c)
    /\ UNCHANGED <<jiraVars, changes, sections, page, failed, exit, applied, touched, told>>

(* What schema_map takes from the files of a kind: comments are stripped.  *)
Declared(kind) == {s \in Statements : s.kind = kind /\ ~s.remark}

Here(s) == s.name \in DOMAIN applied'

(* A column is judged only if its table is there; a width only if both the *)
(* file and the dictionary give one (0: no text column).                   *)
ColumnProblems ==
    {s \in Declared("column") :
        /\ s.of \in DOMAIN applied'
        /\ ~Here(s) \/ (s.width # 0 /\ applied'[s.name] \notin {0, s.width})}

Missing(kind) == {s \in Declared(kind) : ~Here(s)}

(* Mutant: as before R33, names of tables and columns only. *)
SchemaProblemsOfNames == Missing("table") \cup Missing("column")

SchemaProblems ==
    Missing("table") \cup ColumnProblems
        \cup UNION {Missing(k) : k \in {"index", "constraint", "view", "sequence"}}

(* The DDL as somebody applied it by hand: statements left out, columns    *)
(* without their table's statement not there, a column altered.            *)
Dictionaries ==
    LET real == {s \in Statements : ~s.remark}
        Kept(S) == {s \in S : s.kind # "column" \/ \E t \in S : t.kind = "table" /\ t.name = s.of}
    IN  {[n \in {s.name : s \in Kept(S)} |->
             IF n = wrong THEN w ELSE (CHOOSE s \in real : s.name = n).width] :
                S \in SUBSET real, wrong \in {s.name : s \in Declared("column")}, w \in {0, 1, 2}}

(* DB7: the five queries of the dictionary, any of which may raise. *)
CheckSchema ==
    /\ pc = "DB7"
    /\ \/ /\ applied' = applied
          /\ Report(Degraded("DB7"), {"DB7"})
       \/ /\ applied' \in Dictionaries
          /\ Report(<<Graded("DB7", SchemaProblems = {}, "FAIL")>>, {})
    /\ pc' = "report"
    /\ UNCHANGED <<jiraVars, changes, sections, page, failed, exit, touched, told>>
-----------------------------------------------------------------------------
(* run_jira_checks.                                                        *)

(* JiraAuthError at any call: the results so far are dropped. *)
Refused ==
    /\ pc \in JiraCalls
    /\ report' = <<Result("A12", "FAIL")>> /\ unseen' = {}
    /\ pc' = "report"
    /\ UNCHANGED <<jiraVars, changes, sections, page, failed, exit, applied, touched, told>>

(* _client_for. *)
MakeClient ==
    /\ pc = "client" /\ pc' = "fields"
    /\ UNCHANGED <<jiraVars, changes, sections, page, report, failed, exit, applied, ghostVars>>

Catalog(call, next, c) ==
    /\ pc = call /\ pc' = next
    /\ \E v \in {"PASS", "FAIL"} : Report(<<Result(c, v)>>, {})    \* empty: FAIL
    /\ UNCHANGED <<jiraVars, changes, sections, page, failed, exit, applied, touched, told>>

GetFields   == Catalog("fields", "statuses", "A8")
GetStatuses == Catalog("statuses", "projects", "A9")
GetProjects == Catalog("projects", "first", "A11")

(* The project and the server as the search finds them: any. *)
Find == /\ pc = "first" /\ pc' = "search"
        /\ \E n \in 0 .. Cardinality(Issues) :
              /\ order' = [k \in 1 .. n |-> k]
              /\ payload' \in [1 .. n -> Payloads]
        /\ jira' \in Servers
        /\ UNCHANGED <<changes, sections, page, report, failed, exit, applied, ghostVars>>

(* What the first page shows of i: its changelog up to the inline limit,   *)
(* and how long it is.                                                     *)
Shown(i) ==
    [hist   |-> IF jira.inline THEN Prefix(Served(i), Window) ELSE <<>>,
     total  |-> IF jira.inline THEN Len(payload[i].hist) ELSE 0,
     user   |-> payload[i].user, custom |-> payload[i].custom]

(* The first page.  It decides A1 unless there are more issues than it has. *)
FirstSearch ==
    LET issues == SearchAnswer(0)
    IN  /\ pc = "search"
        /\ page' = [issues |-> issues, total |-> Len(order), cap |-> jira.cap,
                    shown |-> [i \in Taken(issues) |-> Shown(i)]]
        /\ \/ /\ issues = <<>>
              /\ Report(<<Result("A1", "FAIL")>>, {}) /\ pc' = "page"
           \/ /\ issues # <<>> /\ Len(order) <= Len(issues)
              /\ Report(<<Result("A1", "WARN")>>, {"A1"}) /\ pc' = "page"
           \/ /\ issues # <<>> /\ Len(order) > Len(issues)
              /\ Report(<<>>, {}) /\ pc' = "second"
        /\ UNCHANGED <<jiraVars, changes, sections, failed, exit, applied, touched, told>>

(* Mutant: any second page will do. *)
AdvancesAnyway(issues) == issues # <<>>

Advances(issues) == issues # <<>> /\ Taken(issues) \cap Taken(page.issues) = {}

SecondSearch ==
    /\ pc = "second" /\ pc' = "page"
    /\ Report(<<Graded("A1", Advances(SearchAnswer(page.cap)), "FAIL")>>, {})
    /\ UNCHANGED <<jiraVars, changes, sections, page, failed, exit, applied, touched, told>>

(* The first issue of the page that has P, or nothing. *)
FirstWith(P(_)) ==
    {page.issues[k] : k \in {n \in DOMAIN page.issues :
        P(page.issues[n]) /\ \A m \in 1 .. (n - 1) : ~P(page.issues[m])}}

(* _find_overflowing_issue. *)
Overflowing ==
    FirstWith(LAMBDA i : page.shown[i].total > Window)

(* A7, A2, and A3 if there is nothing to measure it on. *)
PageChecks ==
    LET none == page.issues = <<>>
        a3   == Overflowing = {}
    IN  /\ pc = "page" /\ pc' = IF a3 THEN "rest" ELSE "changelog"
        /\ Report(<<Graded("A7", page.cap = Requested, "WARN"),
                    IF none THEN Result("A2", "WARN") ELSE Graded("A2", jira.inline, "FAIL")>>
                  \o (IF a3 THEN <<Result("A3", "WARN")>> ELSE <<>>),
                  (IF none THEN {"A2"} ELSE {}) \cup (IF a3 THEN {"A3"} ELSE {}))
        /\ UNCHANGED <<jiraVars, changes, sections, page, failed, exit, applied, touched, told>>

(* The second call for the changelog that is longer than what was shown.   *)
SecondChangelog ==
    \E i \in Overflowing :
        LET received == page.shown[i].hist
            answer   == Prefix(Served(i), jira.wide)
            rest     == SubSeq(answer, Len(received) + 1, Len(answer))
        IN  /\ pc = "changelog"
            /\ \/ /\ i \in Taken(order)
                  /\ pc' = "rest"
                  /\ Report(<<Graded("A3", Taken(rest) \ Taken(received) # {}, "WARN")>>, {})
                  /\ UNCHANGED <<page, exit, applied, touched>>
               \/ /\ i \notin Taken(order)           \* 404, which only get_issue allows
                  /\ pc' = "done" /\ exit' = 1 /\ Started
            /\ UNCHANGED <<jiraVars, changes, sections, failed, told>>

Stamps(i) == [k \in DOMAIN page.shown[i].hist |-> page.shown[i].hist[k][2]]

(* Equal times look sorted either way. *)
TellsOrder(i) == Cardinality(Taken(Stamps(i))) >= 2

IsSorted(s) == \A j, k \in DOMAIN s : j < k => s[j] <= s[k]

Entered == FirstWith(LAMBDA i : page.shown[i].hist # <<>>)
Telling == FirstWith(LAMBDA i : TellsOrder(i))
Named   == FirstWith(LAMBDA i : page.shown[i].user # "none")

(* A5 by the first entry of all, A4 by the first issue that tells, A6 by   *)
(* any issue, A10 by the first reporter, and A12.                          *)
RestOfPage ==
    LET none == page.issues = <<>>
    IN  \E fieldId \in BOOLEAN :
        /\ pc = "rest" /\ pc' = "report"
        /\ Report(
              <<Graded("A5", Entered # {} /\ fieldId, "WARN"),
                IF Telling = {} THEN Result("A4", "WARN")
                ELSE Graded("A4", \A i \in Telling : IsSorted(Stamps(i)), "FAIL"),
                IF none THEN Result("A6", "WARN")
                ELSE Graded("A6", \E i \in Taken(page.issues) : page.shown[i].custom, "FAIL"),
                Graded("A10", \E i \in Named : page.shown[i].user = "key", "WARN"),
                Result("A12", "PASS")>>,
              (IF Entered = {} THEN {"A5"} ELSE {}) \cup (IF Telling = {} THEN {"A4"} ELSE {})
                 \cup (IF none THEN {"A6"} ELSE {}) \cup (IF Named = {} THEN {"A10"} ELSE {}))
        /\ UNCHANGED <<jiraVars, changes, sections, page, failed, exit, applied, touched, told>>
-----------------------------------------------------------------------------
Init ==
    /\ order = <<>> /\ payload = <<>> /\ changes = 0
    /\ jira = CHOOSE v \in Servers : TRUE          \* not looked at before Find
    /\ pc = "start" /\ sections = {}
    /\ page = NoPage /\ report = <<>> /\ failed = FALSE /\ exit = -1
    /\ applied = <<>>
    /\ unseen = {} /\ touched = {} /\ told = FALSE

Next == \/ \E i \in Issues : Edit(i) \/ Delete(i)
        \/ \E s \in SUBSET {"db", "schema", "jira"} : Start(s)
        \/ \E c \in Taken(DbOrder) : CheckDb(c)
        \/ CheckSchema
        \/ MakeClient \/ GetFields \/ GetStatuses \/ GetProjects \/ Find
        \/ FirstSearch \/ SecondSearch \/ PageChecks \/ SecondChangelog \/ RestOfPage
        \/ Refused \/ EndSection \/ Escapes

Spec == Init /\ [][Next]_vars
-----------------------------------------------------------------------------
(* Properties.                                                             *)

Ids     == [k \in DOMAIN report |-> report[k].id]
Says(v) == {report[k].id : k \in {j \in DOMAIN report : report[j].verdict = v}}

JiraOrder == <<"A8", "A9", "A11", "A1", "A7", "A2", "A3", "A5", "A4", "A6", "A10", "A12">>

(* Whatever is denied, raises or comes back empty, a report that is printed*)
(* has every check once, or only the refusal that made the others          *)
(* pointless (_degrade_to_warn, db_checks.py:82; jira_checks.py:36-49).    *)
EveryCheckReported ==
    pc = "report" =>
        \/ Ids = JiraOrder
        \/ report = <<Result("A12", "FAIL")>>
        \/ Ids = IF "schema" \in sections THEN DbOrder ELSE SubSeq(DbOrder, 1, 7)

(* R34: a check passes only if its fact was observed, and those that can   *)
(* be short of evidence by no fault of the server then only warn           *)
(* (jira_checks.py:8-12, db_checks.py:235-237).                            *)
OnlyWarns == {"A1", "A2", "A3", "A4", "A5", "A6", "A10", "DB2", "DB4", "DB6"}

NothingUnseenIsJudged ==
    unseen \cap (Says("PASS") \cup {c \in OnlyWarns : c \in Says("FAIL")}) = {}

(* What a verdict says of the server is so, though others work in Jira     *)
(* between the calls: paging passes on a server without it only if the     *)
(* whole first page was changed meanwhile and fails on a server with it    *)
(* only if something was; the order of changelogs and the reach of /issue  *)
(* are never told wrongly (A1, A3, A4; jira_checks.py:79-232).             *)
VerdictsAreTrue ==
    /\ "A1" \in Says("PASS") => jira.paging \/ Taken(page.issues) \subseteq touched
    /\ "A1" \in Says("FAIL") => ~jira.paging \/ page.issues = <<>> \/ touched # {}
    /\ "A3" \in Says("PASS") => jira.wide > Window
    /\ "A4" \in Says("PASS") => jira.ascending
    /\ "A4" \in Says("FAIL") => ~jira.ascending

(* DB7 passes exactly if every object the files declare outside comments   *)
(* was applied, with the width declared where Oracle tells one, whichever  *)
(* statement somebody skipped (R33, db_checks.py:129-160).                 *)
SchemaIsCompared ==
    "DB7" \in Says("PASS") \cup Says("FAIL") =>
        ("DB7" \in Says("PASS") <=>
            \A s \in Statements : s.remark \/
                /\ s.name \in DOMAIN applied
                /\ s.kind = "column" /\ s.width # 0 => applied[s.name] \in {0, s.width})

(* An exit code of 0 means that neither of the two reports printed said    *)
(* FAIL, and 1 that one did or that an error ended the command while a     *)
(* section was still to be done (cli.py:107-123).                          *)
ExitAgrees ==
    pc = "done" => /\ exit = 0 => ~told
                   /\ exit = 1 => told \/ sections # {}
=============================================================================
