---------------------------- MODULE Doctor_proofs ----------------------------
(***************************************************************************)
(* Proofs about Doctor, for every project, server, set of files and page   *)
(* size: what a printed report lists, what its verdicts rest on, and what  *)
(* the exit code says of it.                                               *)
(***************************************************************************)
EXTENDS Doctor, FiniteSetTheorems, SequenceTheorems, TLAPS

Checks  == {"DB1", "DB2", "DB3", "DB4", "DB5", "DB6", "DB7", "DB8",
            "A1", "A2", "A3", "A4", "A5", "A6", "A7", "A8", "A9", "A10", "A11", "A12"}
Results == [id : Checks, verdict : {"PASS", "WARN", "FAIL"}]

(* What results say: their checks, those of a verdict, and that they are   *)
(* the first n of an order.                                                *)
IdsOf(rs)       == {rs[k].id : k \in DOMAIN rs}
SaidBy(rs, v)   == {rs[k].id : k \in {j \in DOMAIN rs : rs[j].verdict = v}}
Begin(rs, checks, n) == Len(rs) = n /\ \A k \in 1 .. n : rs[k].id = checks[k]

(* What the report says when rs is appended. *)
Adds(rs) == \A v : SaidBy(report', v) = SaidBy(report, v) \cup SaidBy(rs, v)

SaysOf(c, v) == \A w : SaidBy(report', w) = SaidBy(report, w) \cup (IF w = v THEN {c} ELSE {})

SaysAmong(S, c, g) == \A v \in {"PASS", "FAIL"} :
    /\ SaidBy(report, v) \subseteq SaidBy(report', v)
    /\ SaidBy(report', v) \subseteq SaidBy(report, v) \cup S \cup (IF v = g THEN {c} ELSE {})

Follows(checks, n) == Begin(report, checks, n)

(* How far the report has come at each call and check. *)
Progress ==
    /\ \A k \in 1 .. 8 : pc = DbOrder[k] => Follows(DbOrder, k - 1)
    /\ pc = "DB7" => "schema" \in sections
    /\ pc \in {"start", "client", "fields", "done"} => Follows(JiraOrder, 0)
    /\ pc = "statuses" => Follows(JiraOrder, 1)
    /\ pc = "projects" => Follows(JiraOrder, 2)
    /\ pc \in {"first", "search", "second"} => Follows(JiraOrder, 3)
    /\ pc = "page" => Follows(JiraOrder, 4)
    /\ pc = "changelog" => Follows(JiraOrder, 6)
    /\ pc = "rest" => Follows(JiraOrder, 7)
    /\ pc = "report" =>
          \/ Follows(JiraOrder, 12)
          \/ report = <<Result("A12", "FAIL")>>
          \/ Follows(DbOrder, IF "schema" \in sections THEN 8 ELSE 7)

Listed == report \in Seq(Results) /\ Progress /\ unseen \subseteq IdsOf(report)

ListedInv == Listed /\ NothingUnseenIsJudged
-----------------------------------------------------------------------------
(* Times in the order the server gives changelogs. *)
Timed(h) == \A j, k \in DOMAIN h : j < k =>
                IF jira.ascending THEN h[j][2] <= h[k][2] ELSE h[k][2] <= h[j][2]

(* What Jira holds, from the time somebody looks. *)
JiraType ==
    /\ changes \in Nat
    /\ order \in Seq(Nat) /\ Taken(order) \subseteq DOMAIN payload
    /\ payload \in [DOMAIN payload -> [hist : Seq(Nat \X Nat), user : STRING, custom : BOOLEAN]]
    /\ pc \in {"search", "second", "page", "changelog", "rest"} => jira \in Servers
    /\ pc \notin {"second", "page", "changelog", "rest", "report"} => touched = {}
    /\ pc = "search" =>
          /\ \A i \in DOMAIN payload : \A j, k \in DOMAIN payload[i].hist :
                j < k => payload[i].hist[j][2] <= payload[i].hist[k][2]
          /\ \A k \in DOMAIN order : order[k] = k

(* The first page stays as it was answered: whole histories up to the      *)
(* window, in the order of the server.                                     *)
PageType ==
    pc \in {"second", "page", "changelog", "rest"} =>
        /\ page.issues \in Seq(Nat) /\ Taken(page.issues) \subseteq DOMAIN payload
        /\ \A i \in Taken(page.issues) :
              /\ page.shown[i].hist \in Seq(Nat \X Nat) /\ Timed(page.shown[i].hist)
              /\ page.shown[i].total > Window => Len(page.shown[i].hist) = Window

(* Between the two pages untouched issues only move forward, and without   *)
(* a change the second page begins where the first one ended.              *)
PageKept ==
    pc = "second" =>
        /\ page.cap = jira.cap /\ Len(page.issues) <= jira.cap
        /\ \A k \in DOMAIN page.issues : page.issues[k] \notin touched =>
              \E j \in 1 .. k : j <= Len(order) /\ order[j] = page.issues[k]
        /\ touched = {} =>
              /\ Len(order) > jira.cap /\ \A k \in DOMAIN order : order[k] = k
              /\ \A k \in DOMAIN page.issues : page.issues[k] = k

VerdictInv == ListedInv /\ JiraType /\ PageType /\ PageKept /\ VerdictsAreTrue
-----------------------------------------------------------------------------
(* What is counted is what was printed, and something is left to do until  *)
(* the command is over.                                                    *)
ExitInv == /\ failed = told /\ told \in BOOLEAN
           /\ pc \notin {"start", "done"} => sections # {}
           /\ ExitAgrees
-----------------------------------------------------------------------------
(* No check is listed twice. *)
LEMMA Distinct ==
  /\ DbOrder \in Seq(Checks) /\ Len(DbOrder) = 8 /\ DOMAIN DbOrder = 1 .. 8
  /\ \A j, k \in 1 .. 8 : DbOrder[j] = DbOrder[k] => j = k
  /\ JiraOrder \in Seq(Checks) /\ Len(JiraOrder) = 12
  /\ \A j, k \in 1 .. 12 : JiraOrder[j] = JiraOrder[k] => j = k
<1>1. DbOrder \in Seq(Checks) /\ Len(DbOrder) = 8 /\ DOMAIN DbOrder = 1 .. 8
  BY DEF DbOrder, Checks
<1>2. \A j, k \in 1 .. 8 : DbOrder[j] = DbOrder[k] => j = k
  <2>1. /\ DbOrder[1] = "DB1" /\ DbOrder[2] = "DB2" /\ DbOrder[3] = "DB3" /\ DbOrder[4] = "DB4"
        /\ DbOrder[5] = "DB5" /\ DbOrder[6] = "DB6" /\ DbOrder[7] = "DB8" /\ DbOrder[8] = "DB7"
    BY DEF DbOrder
  <2> QED  BY <2>1
<1>3. JiraOrder \in Seq(Checks) /\ Len(JiraOrder) = 12
  BY DEF JiraOrder, Checks
<1>4. \A j, k \in 1 .. 12 : JiraOrder[j] = JiraOrder[k] => j = k
  <2>1. /\ JiraOrder[1] = "A8" /\ JiraOrder[2] = "A9" /\ JiraOrder[3] = "A11"
        /\ JiraOrder[4] = "A1" /\ JiraOrder[5] = "A7" /\ JiraOrder[6] = "A2"
        /\ JiraOrder[7] = "A3" /\ JiraOrder[8] = "A5" /\ JiraOrder[9] = "A4"
        /\ JiraOrder[10] = "A6" /\ JiraOrder[11] = "A10" /\ JiraOrder[12] = "A12"
    BY DEF JiraOrder
  <2> QED  BY <2>1
<1> QED  BY <1>1, <1>2, <1>3, <1>4

(* The checks of the database come in their order; DB7 may be left out. *)
LEMMA NextOf ==
  ASSUME NEW k \in 1 .. 8
  PROVE  NextCheck(DbOrder[k]) = IF k = 8 \/ (k = 7 /\ "schema" \notin sections) THEN "report"
                                 ELSE DbOrder[k + 1]
<1>1. \A n \in DOMAIN DbOrder : DbOrder[n] = DbOrder[k] <=> n = k
  BY Distinct
<1> DEFINE place == CHOOSE n \in DOMAIN DbOrder : DbOrder[n] = DbOrder[k]
<1>2. place = k
  BY <1>1, Distinct
<1>3. NextCheck(DbOrder[k]) = IF place = 8 \/ (place = 7 /\ "schema" \notin sections)
                              THEN "report" ELSE DbOrder[place + 1]
  BY Zenon DEF NextCheck
<1> HIDE DEF place
<1> QED  BY <1>2, <1>3

(* Where the parts of a longer report are. *)
LEMMA Joined ==
  ASSUME NEW s \in Seq(Results), NEW t \in Seq(Results), NEW u, u = s \o t
  PROVE  /\ u \in Seq(Results) /\ Len(u) = Len(s) + Len(t)
         /\ \A k \in 1 .. Len(s) : k \in DOMAIN u /\ u[k] = s[k]
         /\ \A k \in 1 .. Len(t) : Len(s) + k \in DOMAIN u /\ u[Len(s) + k] = t[k]
         /\ \A k \in DOMAIN u : k > Len(s) => k - Len(s) \in 1 .. Len(t) /\ u[k] = t[k - Len(s)]
<1>0. Len(s) \in Nat /\ Len(t) \in Nat /\ DOMAIN s = 1 .. Len(s) /\ DOMAIN t = 1 .. Len(t)
  BY LenProperties
<1>1. u \in Seq(Results)
  OBVIOUS
<1>2. Len(u) = Len(s) + Len(t)
  OBVIOUS
<1>3. DOMAIN u = 1 .. Len(s) + Len(t)
  BY <1>1, <1>2, LenProperties
<1>4. \A k \in 1 .. Len(s) : u[k] = s[k]
  OBVIOUS
<1>5. \A k \in 1 .. Len(t) : u[Len(s) + k] = t[k]
  OBVIOUS
<1>6. /\ \A k \in 1 .. Len(s) : k \in DOMAIN u
      /\ \A k \in 1 .. Len(t) : Len(s) + k \in DOMAIN u
  BY <1>0, <1>3
<1>7. \A k \in DOMAIN u : k > Len(s) => k - Len(s) \in 1 .. Len(t) /\ u[k] = t[k - Len(s)]
  <2> SUFFICES ASSUME NEW k \in DOMAIN u, k > Len(s)
               PROVE  k - Len(s) \in 1 .. Len(t) /\ u[k] = t[k - Len(s)]
    OBVIOUS
  <2>1. k - Len(s) \in 1 .. Len(t) /\ Len(s) + (k - Len(s)) = k
    BY <1>0, <1>3
  <2> QED  BY <1>5, <2>1
<1> QED  BY <1>1, <1>2, <1>4, <1>5, <1>6, <1>7

(* Appending joins what is said. *)
LEMMA Saying ==
  ASSUME NEW s \in Seq(Results), NEW t \in Seq(Results)
  PROVE  /\ IdsOf(s \o t) = IdsOf(s) \cup IdsOf(t)
         /\ \A v : SaidBy(s \o t, v) = SaidBy(s, v) \cup SaidBy(t, v)
<1> DEFINE u == s \o t
<1>0. Len(s) \in Nat /\ Len(t) \in Nat /\ DOMAIN s = 1 .. Len(s) /\ DOMAIN t = 1 .. Len(t)
  BY LenProperties
<1>1. u \in Seq(Results) /\ Len(u) = Len(s) + Len(t)
  BY Joined
<1>2. /\ \A k \in 1 .. Len(s) : k \in DOMAIN u /\ u[k] = s[k]
      /\ \A k \in 1 .. Len(t) : Len(s) + k \in DOMAIN u /\ u[Len(s) + k] = t[k]
      /\ \A k \in DOMAIN u : k > Len(s) => k - Len(s) \in 1 .. Len(t) /\ u[k] = t[k - Len(s)]
  BY Joined
<1> HIDE DEF u
<1>3. \A k \in DOMAIN u : k \in 1 .. Len(s) \/ k > Len(s)
  BY <1>0, <1>1, LenProperties
<1>4. IdsOf(u) = IdsOf(s) \cup IdsOf(t)
  <2>1. IdsOf(u) \subseteq IdsOf(s) \cup IdsOf(t)
    BY <1>0, <1>2, <1>3 DEF IdsOf
  <2>2. IdsOf(s) \subseteq IdsOf(u)
    BY <1>0, <1>2 DEF IdsOf
  <2>3. IdsOf(t) \subseteq IdsOf(u)
    BY <1>0, <1>2 DEF IdsOf
  <2> QED  BY <2>1, <2>2, <2>3
<1>5. ASSUME NEW v PROVE SaidBy(u, v) = SaidBy(s, v) \cup SaidBy(t, v)
  <2>1. SaidBy(u, v) \subseteq SaidBy(s, v) \cup SaidBy(t, v)
    BY <1>0, <1>2, <1>3 DEF SaidBy
  <2>2. SaidBy(s, v) \subseteq SaidBy(u, v)
    BY <1>0, <1>2 DEF SaidBy
  <2>3. SaidBy(t, v) \subseteq SaidBy(u, v)
    BY <1>0, <1>2 DEF SaidBy
  <2> QED  BY <2>1, <2>2, <2>3
<1> QED  BY <1>4, <1>5 DEF u

(* Results that come next in an order continue it, about other checks. *)
LEMMA Continued ==
  ASSUME NEW checks \in Seq(Checks),
         \A j, k \in 1 .. Len(checks) : checks[j] = checks[k] => j = k,
         NEW n \in Nat, NEW s \in Seq(Results), Begin(s, checks, n),
         NEW t \in Seq(Results), n + Len(t) <= Len(checks),
         \A k \in 1 .. Len(t) : t[k].id = checks[n + k]
  PROVE  /\ Begin(s \o t, checks, n + Len(t))
         /\ IdsOf(s) \cap IdsOf(t) = {}
         /\ \A j, k \in 1 .. Len(t) : t[j].id = t[k].id => j = k
<1> DEFINE u == s \o t
<1>0. /\ Len(s) = n /\ Len(t) \in Nat /\ DOMAIN s = 1 .. n /\ DOMAIN t = 1 .. Len(t)
      /\ Len(checks) \in Nat /\ \A k \in 1 .. n : s[k].id = checks[k]
  BY LenProperties DEF Begin
<1>1. Begin(u, checks, n + Len(t))
  <2>1. ASSUME NEW k \in 1 .. n + Len(t) PROVE u[k].id = checks[k]
    <3>1. k \in DOMAIN u
      BY <1>0, Joined, LenProperties
    <3>2. CASE k <= n
      BY <1>0, <3>2, Joined
    <3>3. CASE k > n
      <4>1. k - n \in 1 .. Len(t) /\ u[k] = t[k - n]
        BY <1>0, <3>1, <3>3, Joined
      <4>2. t[k - n].id = checks[n + (k - n)] /\ n + (k - n) = k
        BY <4>1
      <4> QED  BY <4>1, <4>2
    <3> QED  BY <1>0, <3>2, <3>3
  <2> QED  BY <1>0, <2>1, Joined DEF Begin
<1>2. ASSUME NEW j \in 1 .. n, NEW k \in 1 .. Len(t) PROVE s[j].id # t[k].id
  <2>1. j \in 1 .. Len(checks) /\ n + k \in 1 .. Len(checks) /\ j # n + k
    BY <1>0
  <2> QED  BY <1>0, <2>1
<1>3. ASSUME NEW j \in 1 .. Len(t), NEW k \in 1 .. Len(t), t[j].id = t[k].id PROVE j = k
  <2>1. n + j \in 1 .. Len(checks) /\ n + k \in 1 .. Len(checks)
    BY <1>0
  <2>2. n + j = n + k
    BY <1>3, <2>1
  <2> QED  BY <2>2
<1> QED  BY <1>0, <1>1, <1>2, <1>3 DEF IdsOf

(* Results that come next in an order, of checks each of which is listed   *)
(* once, and judge those whose fact was not seen as they may: they warn,   *)
(* or fail where absence is failure.                                       *)
Ordered(checks) ==
    checks \in Seq(Checks) /\ \A j, k \in 1 .. Len(checks) : checks[j] = checks[k] => j = k

Grades(checks, n, m, rs, unknown) ==
    /\ Ordered(checks) /\ n \in Nat /\ m = n + Len(rs)
    /\ rs \in Seq(Results) /\ m <= Len(checks)
    /\ \A k \in 1 .. Len(rs) : rs[k].id = checks[n + k]
    /\ \A c \in unknown : \E k \in 1 .. Len(rs) :
          /\ rs[k].id = c
          /\ rs[k].verdict = "WARN" \/ (rs[k].verdict = "FAIL" /\ c \notin OnlyWarns)

(* The same of one result. *)
Comes(checks, n, c) == /\ Ordered(checks) /\ n \in Nat
                       /\ n + 1 <= Len(checks) /\ c = checks[n + 1]

Judges(c, v, unknown) ==
    /\ v \in {"PASS", "WARN", "FAIL"}
    /\ unknown # {} => /\ unknown = {c}
                       /\ v = "WARN" \/ (v = "FAIL" /\ c \notin OnlyWarns)
    /\ Report(<<Result(c, v)>>, unknown)

(* Appending such results keeps what is said of the report so far. *)
LEMMA Appended ==
  ASSUME ListedInv, NEW checks, NEW n, NEW m, NEW rs, NEW unknown,
         Grades(checks, n, m, rs, unknown), Follows(checks, n), Report(rs, unknown)
  PROVE  /\ report' \in Seq(Results) /\ Follows(checks, m)'
         /\ unseen' \subseteq IdsOf(report') /\ NothingUnseenIsJudged'
         /\ Adds(rs)
<1> USE DEF ListedInv, Grades, Ordered
<1>0. report' = report \o rs /\ unseen' = unseen \cup unknown /\ report \in Seq(Results)
  BY DEF Report, Listed
<1>1. report' \in Seq(Results) /\ Follows(checks, m)'
  BY <1>0, Joined, Continued DEF Follows
<1>2. ASSUME NEW v PROVE Says(v) = SaidBy(report, v) /\ Says(v)' = SaidBy(report', v)
  <2>1. Says(v) = SaidBy(report, v)
    BY Zenon DEF Says, SaidBy
  <2>2. Says(v)' = SaidBy(report', v)
    BY Zenon DEF Says, SaidBy
  <2> QED  BY <2>1, <2>2
<1>a. /\ IdsOf(report \o rs) = IdsOf(report) \cup IdsOf(rs)
      /\ \A v : SaidBy(report \o rs, v) = SaidBy(report, v) \cup SaidBy(rs, v)
  BY <1>0, Saying
<1>3. Adds(rs)
  BY <1>0, <1>a DEF Adds
<1>4. /\ IdsOf(report') = IdsOf(report) \cup IdsOf(rs)
      /\ IdsOf(report) \cap IdsOf(rs) = {}
      /\ \A j, k \in 1 .. Len(rs) : rs[j].id = rs[k].id => j = k
      /\ DOMAIN rs = 1 .. Len(rs)
  BY <1>0, <1>a, Continued, LenProperties DEF Follows
<1>5. \A v : SaidBy(rs, v) \subseteq IdsOf(rs) /\ Says(v) \subseteq IdsOf(report)
  BY <1>2 DEF SaidBy, IdsOf
<1>6. unknown \subseteq IdsOf(rs)
  BY <1>4 DEF IdsOf
<1>7. ASSUME NEW c \in unseen'
      PROVE  c \notin Says("PASS")' /\ ~(c \in OnlyWarns /\ c \in Says("FAIL")')
  <2>1. CASE c \in unseen
    <3>1. c \in IdsOf(report) /\ c \notin IdsOf(rs)
      BY <1>4, <2>1 DEF Listed
    <3> QED  BY <1>2, <1>3, <1>5, <2>1, <3>1 DEF Adds, NothingUnseenIsJudged
  <2>2. CASE c \in unknown
    <3>1. PICK k \in 1 .. Len(rs) :
             /\ rs[k].id = c
             /\ rs[k].verdict = "WARN" \/ (rs[k].verdict = "FAIL" /\ c \notin OnlyWarns)
      BY <2>2
    <3>2. \A v : c \in SaidBy(rs, v) => rs[k].verdict = v
      BY <1>4, <3>1 DEF SaidBy
    <3>3. \A v : c \notin Says(v)
      BY <1>4, <1>5, <1>6, <2>2
    <3> QED  BY <1>2, <1>3, <3>1, <3>2, <3>3 DEF Adds
  <2> QED  BY <1>0, <2>1, <2>2
<1>8. NothingUnseenIsJudged'
  BY <1>7 DEF NothingUnseenIsJudged
<1> QED  BY <1>0, <1>1, <1>3, <1>4, <1>6, <1>8 DEF Listed

(* The same for one result. *)
LEMMA AppendedOne ==
  ASSUME ListedInv, NEW checks, NEW n, NEW c, Comes(checks, n, c), Follows(checks, n),
         NEW v, NEW unknown, Judges(c, v, unknown)
  PROVE  /\ report' \in Seq(Results) /\ Follows(checks, n + 1)'
         /\ unseen' \subseteq IdsOf(report') /\ NothingUnseenIsJudged'
         /\ SaysOf(c, v)
<1> USE DEF Comes, Ordered, Judges
<1> DEFINE rs == <<Result(c, v)>>
<1>1. c \in Checks
  <2>1. n + 1 \in 1 .. Len(checks)
    BY LenProperties
  <2> QED  BY <2>1, LenProperties
<1>2. /\ rs \in Seq(Results) /\ Len(rs) = 1 /\ DOMAIN rs = 1 .. 1
      /\ rs[1].id = c /\ rs[1].verdict = v
  BY <1>1 DEF Result, Results
<1>3. Report(rs, unknown)
  OBVIOUS
<1>4. \A w : SaidBy(rs, w) = IF w = v THEN {c} ELSE {}
  <2> SUFFICES ASSUME NEW w PROVE SaidBy(rs, w) = IF w = v THEN {c} ELSE {}
    OBVIOUS
  <2> HIDE DEF rs
  <2> QED  BY <1>2 DEF SaidBy
<1> HIDE DEF rs
<1>5. \A k \in 1 .. Len(rs) : rs[k].id = checks[n + k]
  BY <1>2
<1>6. \A d \in unknown : \E k \in 1 .. Len(rs) :
         /\ rs[k].id = d
         /\ rs[k].verdict = "WARN" \/ (rs[k].verdict = "FAIL" /\ d \notin OnlyWarns)
  BY <1>2
<1>7. n + Len(rs) <= Len(checks) /\ n + Len(rs) = n + 1
  BY <1>2
<1>8. Grades(checks, n, n + 1, rs, unknown)
  BY <1>2, <1>5, <1>6, <1>7 DEF Grades
<1>9. /\ report' \in Seq(Results) /\ Follows(checks, n + 1)'
      /\ unseen' \subseteq IdsOf(report') /\ NothingUnseenIsJudged'
      /\ Adds(rs)
  BY <1>3, <1>8, Appended
<1> QED  BY <1>4, <1>7, <1>9 DEF Adds, SaysOf
-----------------------------------------------------------------------------
(* What is reported next, one action at a time.                            *)

(* No call bears the name of a check.                                      *)
LEMMA Apart ==
  /\ \A k \in 1 .. 8 : DbOrder[k] \in {"DB1", "DB2", "DB3", "DB4", "DB5", "DB6", "DB7", "DB8"}
  /\ DbOrder[8] = "DB7" /\ DbOrder[1] = "DB1"
BY DEF DbOrder

(* A state with an empty report where the report is yet empty. *)
LEMMA Blank ==
  ASSUME report' = <<>>, unseen' = {}, pc' \in {"start", "client", "fields", "done", "DB1"}
  PROVE  ListedInv'
<1> DEFINE r == report'
<1>1. r \in Seq(Results) /\ \A checks : Begin(r, checks, 0)
  BY DEF Begin
<1>2. Follows(DbOrder, 1 - 1)' /\ Follows(JiraOrder, 0)'
  BY <1>1 DEF Follows
<1>3. \A k \in 1 .. 8 : pc' = DbOrder[k] => k = 1
  BY Apart, Distinct
<1>4. Progress'
  BY <1>2, <1>3, Apart DEF Progress
<1> QED  BY <1>1, <1>4 DEF ListedInv, Listed, NothingUnseenIsJudged

(* A state with the report unchanged, at a place with as many results. *)
LEMMA Unreported ==
  ASSUME ListedInv, UNCHANGED <<report, unseen, sections>>,
         \/ pc' = pc
         \/ pc = "client" /\ pc' = "fields"
         \/ pc = "first" /\ pc' = "search"
  PROVE  ListedInv'
<1>1. Listed'
  <2>1. \A checks, n : Follows(checks, n)' <=> Follows(checks, n)
    BY DEF Follows
  <2>2. CASE pc' = pc
    BY <2>1, <2>2 DEF ListedInv, Listed, Progress
  <2>3. CASE pc = "client" /\ pc' = "fields"
    BY <2>1, <2>3, Apart DEF ListedInv, Listed, Progress
  <2>4. CASE pc = "first" /\ pc' = "search"
    BY <2>1, <2>4, Apart DEF ListedInv, Listed, Progress
  <2> QED  BY <2>2, <2>3, <2>4
<1> QED  BY <1>1 DEF ListedInv, NothingUnseenIsJudged, Says

LEMMA CheckDbStep ==
  ASSUME ListedInv, NEW c \in Taken(DbOrder), CheckDb(c)
  PROVE  ListedInv' /\ \E v : SaysOf(c, v)
<1>1. PICK k \in 1 .. 8 : c = DbOrder[k]
  BY Distinct DEF Taken
<1>2. k # 8 /\ k \in 1 .. 7 /\ Follows(DbOrder, k - 1)
  BY <1>1, Apart DEF CheckDb, ListedInv, Listed, Progress
<1>3. PICK v, unknown : Judges(c, v, unknown)
  <2>1. CASE Report(Degraded(c), {c})
    <3>1. Judges(c, "WARN", {c})
      BY <2>1 DEF Degraded, Judges
    <3> QED  BY <3>1
  <2>2. CASE Report(<<Result(c, WhenAbsent(c))>>, {c})
    <3>1. WhenAbsent(c) = "WARN" \/ (WhenAbsent(c) = "FAIL" /\ c \notin OnlyWarns)
      BY DEF WhenAbsent, OnlyWarns
    <3>2. Judges(c, WhenAbsent(c), {c})
      BY <2>2, <3>1 DEF Judges
    <3> QED  BY <3>2
  <2>3. CASE Report(<<Result(c, "PASS")>>, {})
    <3>1. Judges(c, "PASS", {})
      BY <2>3 DEF Judges
    <3> QED  BY <3>1
  <2>4. CASE Report(<<Result(c, WhenBad(c))>>, {})
    <3>1. WhenBad(c) \in {"WARN", "FAIL"}
      BY DEF WhenBad
    <3>2. Judges(c, WhenBad(c), {})
      BY <2>4, <3>1 DEF Judges
    <3> QED  BY <3>2
  <2> QED  BY <2>1, <2>2, <2>3, <2>4 DEF CheckDb
<1>4. PICK n \in Nat : n = k - 1
  BY <1>2
<1>5. /\ report' \in Seq(Results) /\ Follows(DbOrder, n + 1)'
      /\ unseen' \subseteq IdsOf(report') /\ NothingUnseenIsJudged' /\ SaysOf(c, v)
  <2>1. Comes(DbOrder, n, c) /\ Follows(DbOrder, n)
    BY <1>1, <1>2, <1>4, Distinct DEF Comes, Ordered
  <2> QED  BY <1>3, <2>1, AppendedOne
<1>6. /\ Follows(DbOrder, k)' /\ sections' = sections
      /\ pc' = IF k = 7 /\ "schema" \notin sections THEN "report" ELSE DbOrder[k + 1]
  <2>1. n + 1 = k
    BY <1>4
  <2> QED  BY <1>1, <1>2, <1>5, <2>1, NextOf DEF CheckDb
<1>7. Progress'
  <2>1. CASE k = 7 /\ "schema" \notin sections
    BY <1>6, <2>1, Apart DEF Progress
  <2>2. CASE ~(k = 7 /\ "schema" \notin sections)
    <3>1. pc' = DbOrder[k + 1] /\ k + 1 \in 1 .. 8
      BY <1>2, <1>6, <2>2
    <3>2. \A j \in 1 .. 8 : pc' = DbOrder[j] => j = k + 1
      BY <3>1, Distinct
    <3>3. Follows(DbOrder, (k + 1) - 1)'
      <4>1. (k + 1) - 1 = k
        BY <1>2
      <4> QED  BY <1>6, <4>1
    <3>4. pc' = "DB7" => k + 1 = 8
      BY <3>2, Apart
    <3> QED  BY <1>2, <1>6, <2>2, <3>1, <3>2, <3>3, <3>4, Apart DEF Progress
  <2> QED  BY <2>1, <2>2
<1> QED  BY <1>5, <1>7 DEF ListedInv, Listed

(* The checks of Jira in their order. *)
LEMMA JiraNext ==
  /\ Comes(JiraOrder, 0, "A8") /\ Comes(JiraOrder, 1, "A9") /\ Comes(JiraOrder, 2, "A11")
  /\ Comes(JiraOrder, 3, "A1")
<1>1. /\ JiraOrder[1] = "A8" /\ JiraOrder[2] = "A9" /\ JiraOrder[3] = "A11"
      /\ JiraOrder[4] = "A1"
  BY DEF JiraOrder
<1> QED  BY <1>1, Distinct DEF Comes, Ordered

LEMMA CatalogStep ==
  ASSUME ListedInv, NEW n, NEW c, Comes(JiraOrder, n, c), Follows(JiraOrder, n),
         NEW call, NEW next, Catalog(call, next, c)
  PROVE  /\ report' \in Seq(Results) /\ Follows(JiraOrder, n + 1)'
         /\ unseen' \subseteq IdsOf(report') /\ NothingUnseenIsJudged'
         /\ \E v : SaysOf(c, v)
<1>1. PICK v \in {"PASS", "FAIL"} : Report(<<Result(c, v)>>, {})
  BY DEF Catalog
<1>2. Judges(c, v, {})
  BY <1>1 DEF Judges
<1> QED  BY <1>2, AppendedOne

LEMMA CatalogsStep ==
  ASSUME ListedInv, GetFields \/ GetStatuses \/ GetProjects
  PROVE  ListedInv' /\ \E c \in {"A8", "A9", "A11"} : \E v : SaysOf(c, v)
<1>1. CASE GetFields
  <2>1. Follows(JiraOrder, 0) /\ pc' = "statuses"
    BY <1>1 DEF GetFields, Catalog, ListedInv, Listed, Progress
  <2>2. /\ report' \in Seq(Results) /\ Follows(JiraOrder, 0 + 1)'
        /\ unseen' \subseteq IdsOf(report') /\ NothingUnseenIsJudged' /\ \E v : SaysOf("A8", v)
    BY <1>1, <2>1, JiraNext, CatalogStep DEF GetFields
  <2>3. Progress'
    BY <2>1, <2>2, Apart DEF Progress
  <2> QED  BY <2>2, <2>3 DEF ListedInv, Listed
<1>2. CASE GetStatuses
  <2>1. Follows(JiraOrder, 1) /\ pc' = "projects"
    BY <1>2 DEF GetStatuses, Catalog, ListedInv, Listed, Progress
  <2>2. /\ report' \in Seq(Results) /\ Follows(JiraOrder, 1 + 1)'
        /\ unseen' \subseteq IdsOf(report') /\ NothingUnseenIsJudged' /\ \E v : SaysOf("A9", v)
    BY <1>2, <2>1, JiraNext, CatalogStep DEF GetStatuses
  <2>3. Progress'
    BY <2>1, <2>2, Apart DEF Progress
  <2> QED  BY <2>2, <2>3 DEF ListedInv, Listed
<1>3. CASE GetProjects
  <2>1. Follows(JiraOrder, 2) /\ pc' = "first"
    BY <1>3 DEF GetProjects, Catalog, ListedInv, Listed, Progress
  <2>2. /\ report' \in Seq(Results) /\ Follows(JiraOrder, 2 + 1)'
        /\ unseen' \subseteq IdsOf(report') /\ NothingUnseenIsJudged' /\ \E v : SaysOf("A11", v)
    BY <1>3, <2>1, JiraNext, CatalogStep DEF GetProjects
  <2>3. Progress'
    BY <2>1, <2>2, Apart DEF Progress
  <2> QED  BY <2>2, <2>3 DEF ListedInv, Listed
<1> QED  BY <1>1, <1>2, <1>3

LEMMA SearchStep ==
  ASSUME ListedInv, NEW v, NEW unknown, Judges("A1", v, unknown),
         pc \in {"search", "second"}, pc' = "page"
  PROVE  ListedInv' /\ SaysOf("A1", v)
<1>1. Follows(JiraOrder, 3)
  BY DEF ListedInv, Listed, Progress
<1>2. /\ report' \in Seq(Results) /\ Follows(JiraOrder, 3 + 1)'
      /\ unseen' \subseteq IdsOf(report') /\ NothingUnseenIsJudged' /\ SaysOf("A1", v)
  BY <1>1, JiraNext, AppendedOne
<1>3. Progress'
  BY <1>2, Apart DEF Progress
<1> QED  BY <1>2, <1>3 DEF ListedInv, Listed

LEMMA FirstSearchStep ==
  ASSUME ListedInv, FirstSearch
  PROVE  /\ ListedInv'
         /\ \/ SaysOf("A1", "FAIL") /\ pc' = "page" /\ page'.issues = <<>>
            \/ SaysOf("A1", "WARN") /\ pc' = "page"
            \/ report' = report /\ pc' = "second" /\ Len(order) > Len(page'.issues)
<1> DEFINE issues == SearchAnswer(0)
<1>0. page'.issues = issues /\ pc = "search"
  BY DEF FirstSearch
<1>1. CASE issues = <<>> /\ Report(<<Result("A1", "FAIL")>>, {}) /\ pc' = "page"
  <2>1. Judges("A1", "FAIL", {})
    BY <1>1 DEF Judges
  <2> HIDE DEF issues
  <2> QED  BY <1>0, <1>1, <2>1, SearchStep
<1>2. CASE Report(<<Result("A1", "WARN")>>, {"A1"}) /\ pc' = "page"
  <2>1. Judges("A1", "WARN", {"A1"})
    BY <1>2 DEF Judges
  <2> QED  BY <1>0, <1>2, <2>1, SearchStep
<1>3. CASE Report(<<>>, {}) /\ pc' = "second" /\ Len(order) > Len(issues)
  <2>1. report' = report /\ unseen' = unseen
    <3>1. report \in Seq(Results) /\ report' = report \o <<>> /\ unseen' = unseen \cup {}
      BY <1>3 DEF ListedInv, Listed, Report
    <3> QED  BY <3>1
  <2>2. Follows(JiraOrder, 3)'
    BY <1>0, <2>1 DEF ListedInv, Listed, Progress, Follows
  <2>3. Progress'
    BY <1>3, <2>2, Apart DEF Progress
  <2>4. ListedInv'
    BY <2>1, <2>3 DEF ListedInv, Listed, NothingUnseenIsJudged, Says
  <2> HIDE DEF issues
  <2> QED  BY <1>0, <1>3, <2>1, <2>4
<1> QED  BY <1>1, <1>2, <1>3 DEF FirstSearch

LEMMA SecondSearchStep ==
  ASSUME ListedInv, SecondSearch
  PROVE  /\ ListedInv'
         /\ SaysOf("A1", IF Advances(SearchAnswer(page.cap)) THEN "PASS" ELSE "FAIL")
<1> DEFINE v == IF Advances(SearchAnswer(page.cap)) THEN "PASS" ELSE "FAIL"
<1>1. Judges("A1", v, {})
  BY DEF SecondSearch, Graded, Judges
<1> HIDE DEF v
<1>2. pc = "second" /\ pc' = "page"
  BY DEF SecondSearch
<1>3. ListedInv' /\ SaysOf("A1", v)
  BY <1>1, <1>2, SearchStep
<1> QED  BY <1>3 DEF v

LEMMA CheckSchemaStep ==
  ASSUME ListedInv, CheckSchema
  PROVE  /\ ListedInv' /\ pc' = "report"
         /\ \/ SaysOf("DB7", "WARN")
            \/ SaysOf("DB7", IF SchemaProblems = {} THEN "PASS" ELSE "FAIL")
<1>1. PICK v, unknown :
         /\ Judges("DB7", v, unknown)
         /\ v \in {"WARN", IF SchemaProblems = {} THEN "PASS" ELSE "FAIL"}
  <2> DEFINE w == IF SchemaProblems = {} THEN "PASS" ELSE "FAIL"
  <2>1. CASE Report(Degraded("DB7"), {"DB7"})
    <3>1. Judges("DB7", "WARN", {"DB7"})
      BY <2>1 DEF Degraded, Judges
    <3> QED  BY <3>1
  <2>2. CASE Report(<<Graded("DB7", SchemaProblems = {}, "FAIL")>>, {})
    <3>1. Judges("DB7", w, {})
      BY <2>2 DEF Graded, Judges
    <3> HIDE DEF w
    <3>2. \E v, unknown : Judges("DB7", v, unknown) /\ v \in {"WARN", w}
      BY <3>1
    <3> QED  BY <3>2 DEF w
  <2> QED  BY <2>1, <2>2 DEF CheckSchema
<1>2. /\ DbOrder[8] = "DB7" /\ Comes(DbOrder, 7, "DB7")
  BY Apart, Distinct DEF Comes, Ordered
<1>3. Follows(DbOrder, 7) /\ "schema" \in sections /\ sections' = sections /\ pc' = "report"
  <2>1. pc = DbOrder[8] /\ 8 - 1 = 7 /\ 8 \in 1 .. 8
    BY <1>2 DEF CheckSchema
  <2> QED  BY <2>1 DEF CheckSchema, ListedInv, Listed, Progress
<1>4. /\ report' \in Seq(Results) /\ Follows(DbOrder, 7 + 1)'
      /\ unseen' \subseteq IdsOf(report') /\ NothingUnseenIsJudged' /\ SaysOf("DB7", v)
  BY <1>1, <1>2, <1>3, AppendedOne
<1>5. Progress'
  BY <1>3, <1>4, Apart DEF Progress
<1> QED  BY <1>1, <1>3, <1>4, <1>5 DEF ListedInv, Listed

LEMMA PageChecksStep ==
  ASSUME ListedInv, PageChecks
  PROVE  ListedInv' /\ SaysAmong({"A7", "A2"}, "A3", "WARN")
<1> DEFINE a7 == IF page.cap = Requested THEN "PASS" ELSE "WARN"
           a2 == IF page.issues = <<>> THEN "WARN" ELSE IF jira.inline THEN "PASS" ELSE "FAIL"
           some == <<Result("A7", a7), Result("A2", a2)>>
           last == <<Result("A3", "WARN")>>
           all  == some \o last
           open == IF page.issues = <<>> THEN {"A2"} ELSE {}
           open3 == open \cup {"A3"}
           more == IF Overflowing = {} THEN last ELSE <<>>
           more3 == IF Overflowing = {} THEN {"A3"} ELSE {}
<1>1. a7 \in {"PASS", "WARN"} /\ a2 \in {"PASS", "WARN", "FAIL"}
  OBVIOUS
<1>2. \A c \in open : c = "A2" /\ a2 = "WARN"
  OBVIOUS
<1>3. /\ <<Graded("A7", page.cap = Requested, "WARN"),
           IF page.issues = <<>> THEN Result("A2", "WARN") ELSE Graded("A2", jira.inline, "FAIL")>>
         = some
  BY DEF Graded, Result
<1>4. /\ pc = "page" /\ pc' = IF Overflowing = {} THEN "rest" ELSE "changelog"
      /\ Report(some \o more, open \cup more3)
  BY <1>3, Zenon DEF PageChecks
<1>10. /\ Overflowing = {} => more = last /\ more3 = {"A3"}
       /\ Overflowing # {} => more = <<>> /\ more3 = {}
  OBVIOUS
<1>9. /\ some \in Seq(Results) /\ Len(some) = 2 /\ DOMAIN some = 1 .. 2
      /\ some[1] = Result("A7", a7) /\ some[2] = Result("A2", a2)
  BY <1>1 DEF Result, Results, Checks
<1> HIDE DEF a7, a2, open, open3, more, more3
<1>5. Follows(JiraOrder, 4)
  BY <1>4 DEF ListedInv, Listed, Progress
<1>6. JiraOrder[5] = "A7" /\ JiraOrder[6] = "A2" /\ JiraOrder[7] = "A3" /\ Ordered(JiraOrder)
  <2>1. JiraOrder[5] = "A7" /\ JiraOrder[6] = "A2" /\ JiraOrder[7] = "A3"
    BY DEF JiraOrder
  <2> QED  BY <2>1, Distinct DEF Ordered
<1>7. CASE Overflowing = {}
  <2>0. /\ last \in Seq(Results) /\ Len(last) = 1 /\ DOMAIN last = 1 .. 1
        /\ last[1] = Result("A3", "WARN")
    BY DEF Result, Results, Checks
  <2> HIDE DEF some, last
  <2>1. /\ all \in Seq(Results) /\ Len(all) = 3 /\ DOMAIN all = 1 .. 3
        /\ all[1] = Result("A7", a7) /\ all[2] = Result("A2", a2) /\ all[3] = Result("A3", "WARN")
    <3>1. /\ all \in Seq(Results) /\ Len(all) = Len(some) + Len(last)
          /\ \A k \in 1 .. Len(some) : all[k] = some[k]
          /\ \A k \in 1 .. Len(last) : all[Len(some) + k] = last[k]
      <4>1. some \in Seq(Results) /\ last \in Seq(Results)
        BY <1>9, <2>0
      <4> QED  BY <4>1, Joined
    <3> HIDE DEF all
    <3>2. Len(all) = 3 /\ all[1] = some[1] /\ all[2] = some[2] /\ all[3] = last[1]
      BY <1>9, <2>0, <3>1
    <3> QED  BY <1>9, <2>0, <3>1, <3>2, LenProperties
  <2> HIDE DEF all
  <2>3. Report(all, open3) /\ pc' = "rest"
    BY <1>4, <1>7, <1>10 DEF all, open3
  <2>4. Grades(JiraOrder, 4, 7, all, open3)
    <3>1. \A k \in 1 .. Len(all) : all[k].id = JiraOrder[4 + k]
      BY <1>6, <2>1 DEF Result
    <3>2. ASSUME NEW c \in open3
          PROVE  \E k \in 1 .. Len(all) : all[k].id = c /\ all[k].verdict = "WARN"
      <4>1. CASE c = "A3"
        BY <2>1, <4>1 DEF Result
      <4>2. CASE c \in open
        BY <1>2, <2>1, <4>2 DEF Result
      <4> QED  BY <4>1, <4>2 DEF open3
    <3>3. 7 = 4 + Len(all) /\ 7 <= Len(JiraOrder)
      BY <2>1, Distinct
    <3> QED  BY <1>6, <2>1, <3>1, <3>2, <3>3 DEF Grades
  <2>5. /\ report' \in Seq(Results) /\ Follows(JiraOrder, 7)'
        /\ unseen' \subseteq IdsOf(report') /\ NothingUnseenIsJudged' /\ Adds(all)
    BY <1>5, <2>3, <2>4, Appended
  <2>7. Progress'
    BY <2>3, <2>5, Apart DEF Progress
  <2>8. \A v \in {"PASS", "FAIL"} : SaidBy(all, v) \subseteq {"A7", "A2"}
    BY <2>1 DEF SaidBy, Result
  <2> QED  BY <2>5, <2>7, <2>8 DEF ListedInv, Listed, Adds, SaysAmong
<1>8. CASE Overflowing # {}
  <2> HIDE DEF some
  <2>2. some \o <<>> = some
    BY <1>9
  <2>3. Report(some, open) /\ pc' = "changelog"
    BY <1>4, <1>8, <1>10, <2>2
  <2>4. Grades(JiraOrder, 4, 6, some, open)
    <3>1. \A k \in 1 .. Len(some) : some[k].id = JiraOrder[4 + k]
      BY <1>6, <1>9 DEF Result
    <3>2. ASSUME NEW c \in open
          PROVE  \E k \in 1 .. Len(some) : some[k].id = c /\ some[k].verdict = "WARN"
      BY <1>2, <1>9 DEF Result
    <3>3. 6 = 4 + Len(some) /\ 6 <= Len(JiraOrder)
      BY <1>9, Distinct
    <3> QED  BY <1>6, <1>9, <3>1, <3>2, <3>3 DEF Grades
  <2>5. /\ report' \in Seq(Results) /\ Follows(JiraOrder, 6)'
        /\ unseen' \subseteq IdsOf(report') /\ NothingUnseenIsJudged' /\ Adds(some)
    BY <1>5, <2>3, <2>4, Appended
  <2>7. Progress'
    BY <2>3, <2>5, Apart DEF Progress
  <2>8. \A v \in {"PASS", "FAIL"} : SaidBy(some, v) \subseteq {"A7", "A2"}
    BY <1>9 DEF SaidBy, Result
  <2> QED  BY <2>5, <2>7, <2>8 DEF ListedInv, Listed, Adds, SaysAmong
<1> QED  BY <1>7, <1>8

OrderVerdict == IF Telling = {} THEN "WARN"
                ELSE IF \A i \in Telling : IsSorted(Stamps(i)) THEN "PASS" ELSE "FAIL"

LEMMA RestOfPageStep ==
  ASSUME ListedInv, RestOfPage
  PROVE  ListedInv' /\ pc' = "report" /\ SaysAmong({"A5", "A6", "A10", "A12"}, "A4", OrderVerdict)
<1> DEFINE a4  == OrderVerdict
           rs(a5, a6, a10) == <<Result("A5", a5), Result("A4", a4), Result("A6", a6),
                                Result("A10", a10), Result("A12", "PASS")>>
           open == (IF Entered = {} THEN {"A5"} ELSE {}) \cup (IF Telling = {} THEN {"A4"} ELSE {})
                     \cup (IF page.issues = <<>> THEN {"A6"} ELSE {})
                     \cup (IF Named = {} THEN {"A10"} ELSE {})
           V == {"PASS", "WARN", "FAIL"}
<1>1. a4 \in V /\ (Telling = {} => a4 = "WARN")
  BY DEF OrderVerdict
<1>2. PICK a5 \in V, a6 \in V, a10 \in V :
         /\ Entered = {} => a5 = "WARN"
         /\ page.issues = <<>> => a6 = "WARN"
         /\ Named = {} => a10 = "WARN"
         /\ Report(rs(a5, a6, a10), open)
  <2> DEFINE custom == \E i \in Taken(page.issues) : page.shown[i].custom
             key == \E i \in Named : page.shown[i].user = "key"
             sorted == \A i \in Telling : IsSorted(Stamps(i))
             R(fieldId) == <<Graded("A5", Entered # {} /\ fieldId, "WARN"),
                IF Telling = {} THEN Result("A4", "WARN") ELSE Graded("A4", sorted, "FAIL"),
                IF page.issues = <<>> THEN Result("A6", "WARN") ELSE Graded("A6", custom, "FAIL"),
                Graded("A10", key, "WARN"),
                Result("A12", "PASS")>>
  <2>1. PICK fieldId \in BOOLEAN : Report(R(fieldId), open)
    BY Zenon DEF RestOfPage
  <2> DEFINE b5  == IF Entered # {} /\ fieldId THEN "PASS" ELSE "WARN"
             b6  == IF page.issues = <<>> THEN "WARN" ELSE IF custom THEN "PASS" ELSE "FAIL"
             b10 == IF key THEN "PASS" ELSE "WARN"
  <2>2. R(fieldId) = rs(b5, b6, b10)
    BY DEF Graded, OrderVerdict, Result
  <2>3. /\ b5 \in V /\ b6 \in V /\ b10 \in V
        /\ Entered = {} => b5 = "WARN"
        /\ page.issues = <<>> => b6 = "WARN"
    OBVIOUS
  <2>4. Named = {} => b10 = "WARN"
    OBVIOUS
  <2> HIDE DEF R, rs, open, b5, b6, b10, V
  <2> QED  BY <2>1, <2>2, <2>3, <2>4
<1> DEFINE r == rs(a5, a6, a10)
<1>3. /\ r \in Seq(Results) /\ Len(r) = 5 /\ DOMAIN r = 1 .. 5
      /\ r[1] = Result("A5", a5) /\ r[2] = Result("A4", a4) /\ r[3] = Result("A6", a6)
      /\ r[4] = Result("A10", a10) /\ r[5] = Result("A12", "PASS")
  <2> HIDE DEF a4
  <2> QED  BY <1>1, <1>2 DEF Result, Results, Checks
<1>4. \A c \in open : \/ c = "A5" /\ a5 = "WARN"
                      \/ c = "A4" /\ a4 = "WARN"
                      \/ c = "A6" /\ a6 = "WARN"
                      \/ c = "A10" /\ a10 = "WARN"
  <2> HIDE DEF r, rs, a4
  <2>1. /\ Entered = {} => a5 = "WARN"
        /\ Telling = {} => a4 = "WARN"
        /\ page.issues = <<>> => a6 = "WARN"
        /\ Named = {} => a10 = "WARN"
    BY <1>1, <1>2
  <2> SUFFICES ASSUME NEW c \in open
               PROVE  \/ c = "A5" /\ a5 = "WARN"
                      \/ c = "A4" /\ a4 = "WARN"
                      \/ c = "A6" /\ a6 = "WARN"
                      \/ c = "A10" /\ a10 = "WARN"
    OBVIOUS
  <2>2. CASE c \in IF Entered = {} THEN {"A5"} ELSE {}
    BY <2>1, <2>2
  <2>3. CASE c \in IF Telling = {} THEN {"A4"} ELSE {}
    BY <2>1, <2>3
  <2>4. CASE c \in IF page.issues = <<>> THEN {"A6"} ELSE {}
    BY <2>1, <2>4
  <2>5. CASE c \in IF Named = {} THEN {"A10"} ELSE {}
    BY <2>1, <2>5
  <2> QED  BY <2>2, <2>3, <2>4, <2>5
<1>5. Report(r, open)
  BY <1>2
<1> HIDE DEF r, open, a4, rs
<1>6. /\ pc' = "report" /\ Follows(JiraOrder, 7)
  BY DEF RestOfPage, ListedInv, Listed, Progress
<1>7. /\ JiraOrder[8] = "A5" /\ JiraOrder[9] = "A4" /\ JiraOrder[10] = "A6"
      /\ JiraOrder[11] = "A10" /\ JiraOrder[12] = "A12" /\ Ordered(JiraOrder)
  <2>1. /\ JiraOrder[8] = "A5" /\ JiraOrder[9] = "A4" /\ JiraOrder[10] = "A6"
        /\ JiraOrder[11] = "A10" /\ JiraOrder[12] = "A12"
    BY DEF JiraOrder
  <2> QED  BY <2>1, Distinct DEF Ordered
<1>8. Grades(JiraOrder, 7, 12, r, open)
  <2>1. \A k \in 1 .. Len(r) : r[k].id = JiraOrder[7 + k]
    BY <1>3, <1>7 DEF Result
  <2>2. ASSUME NEW c \in open
        PROVE  \E k \in 1 .. Len(r) : r[k].id = c /\ r[k].verdict = "WARN"
    BY <1>3, <1>4 DEF Result
  <2>3. 12 = 7 + Len(r) /\ 12 <= Len(JiraOrder)
    BY <1>3, Distinct
  <2> QED  BY <1>3, <1>7, <2>1, <2>2, <2>3 DEF Grades
<1>9. /\ report' \in Seq(Results) /\ Follows(JiraOrder, 12)'
      /\ unseen' \subseteq IdsOf(report') /\ NothingUnseenIsJudged' /\ Adds(r)
  BY <1>5, <1>6, <1>8, Appended
<1>10. Progress'
  BY <1>6, <1>9, Apart DEF Progress
<1>11. \A v \in {"PASS", "FAIL"} :
          SaidBy(r, v) \subseteq {"A5", "A6", "A10", "A12"} \cup (IF v = a4 THEN {"A4"} ELSE {})
  BY <1>3 DEF SaidBy, Result
<1>12. SaysAmong({"A5", "A6", "A10", "A12"}, "A4", a4)
  BY <1>9, <1>11 DEF Adds, SaysAmong
<1> QED  BY <1>6, <1>9, <1>10, <1>12 DEF ListedInv, Listed, a4

(* The answer of /issue has an entry beyond those the search showed. *)
Reaches(i) ==
    LET received == page.shown[i].hist
        answer   == Prefix(Served(i), jira.wide)
    IN  Taken(SubSeq(answer, Len(received) + 1, Len(answer))) \ Taken(received) # {}

LEMMA SecondChangelogStep ==
  ASSUME ListedInv, SecondChangelog
  PROVE  /\ ListedInv'
         /\ \/ report' = <<>>
            \/ /\ UNCHANGED page
               /\ \E i \in Overflowing : SaysOf("A3", IF Reaches(i) THEN "PASS" ELSE "WARN")
<1>1. PICK i \in Overflowing :
         \/ /\ pc' = "rest" /\ UNCHANGED page
            /\ Report(<<Graded("A3", Reaches(i), "WARN")>>, {})
         \/ pc' = "done" /\ Started
  BY Zenon DEF SecondChangelog, Reaches
<1>2. CASE pc' = "done" /\ Started
  BY <1>2, Blank DEF Started
<1>3. CASE pc' = "rest" /\ UNCHANGED page /\ Report(<<Graded("A3", Reaches(i), "WARN")>>, {})
  <2> DEFINE v == IF Reaches(i) THEN "PASS" ELSE "WARN"
  <2>1. Judges("A3", v, {})
    BY <1>3 DEF Graded, Judges
  <2> HIDE DEF v
  <2>2. Comes(JiraOrder, 6, "A3")
    <3>1. JiraOrder[7] = "A3"
      BY DEF JiraOrder
    <3> QED  BY <3>1, Distinct DEF Comes, Ordered
  <2>3. Follows(JiraOrder, 6)
    BY DEF SecondChangelog, ListedInv, Listed, Progress
  <2>4. /\ report' \in Seq(Results) /\ Follows(JiraOrder, 6 + 1)'
        /\ unseen' \subseteq IdsOf(report') /\ NothingUnseenIsJudged' /\ SaysOf("A3", v)
    BY <2>1, <2>2, <2>3, AppendedOne
  <2>5. Progress'
    BY <1>3, <2>4, Apart DEF Progress
  <2> QED  BY <1>3, <2>4, <2>5 DEF ListedInv, Listed, v
<1> QED  BY <1>1, <1>2, <1>3

LEMMA RefusedStep ==
  ASSUME ListedInv, Refused
  PROVE  ListedInv' /\ \A v : SaidBy(report', v) = IF v = "FAIL" THEN {"A12"} ELSE {}
<1> DEFINE r == <<Result("A12", "FAIL")>>
<1>1. r \in Seq(Results) /\ DOMAIN r = 1 .. 1 /\ r[1].id = "A12" /\ r[1].verdict = "FAIL"
  BY DEF Result, Results, Checks
<1>2. report' = r /\ unseen' = {} /\ pc' = "report"
  BY DEF Refused
<1>3. Progress'
  BY <1>2, Apart DEF Progress
<1> HIDE DEF r
<1> QED  BY <1>1, <1>2, <1>3 DEF ListedInv, Listed, NothingUnseenIsJudged, SaidBy

(* Every report follows the order of its checks, and what it could not see *)
(* it does not judge.                                                      *)
LEMMA ListedInit == Init => ListedInv
<1> SUFFICES ASSUME Init PROVE ListedInv
  OBVIOUS
<1>1. report = <<>> /\ unseen = {} /\ pc = "start"
  BY DEF Init
<1>2. report \in Seq(Results) /\ Follows(JiraOrder, 0)
  BY <1>1 DEF Follows, Begin
<1>3. Progress
  BY <1>1, <1>2, Apart DEF Progress
<1> QED  BY <1>1, <1>2, <1>3 DEF ListedInv, Listed, NothingUnseenIsJudged

LEMMA ListedStep == ListedInv /\ [Next]_vars => ListedInv'
<1> SUFFICES ASSUME ListedInv, [Next]_vars PROVE ListedInv'
  OBVIOUS
<1>1. ASSUME NEW i, Edit(i) \/ Delete(i) PROVE ListedInv'
  BY <1>1, Unreported DEF Edit, Delete, MayChange
<1>2. ASSUME NEW s, Start(s) PROVE ListedInv'
  <2>1. report = <<>> /\ unseen = {}
    BY <1>2, LenProperties, EmptySeq DEF Start, ListedInv, Listed, Progress, Follows, Begin, IdsOf
  <2> QED  BY <1>2, <2>1, Blank DEF Start, ghostVars
<1>3. ASSUME NEW c \in Taken(DbOrder), CheckDb(c) PROVE ListedInv'
  BY <1>3, CheckDbStep
<1>4. CASE CheckSchema
  BY <1>4, CheckSchemaStep
<1>5. CASE MakeClient \/ Find
  BY <1>5, Unreported DEF MakeClient, Find, ghostVars
<1>6. CASE GetFields \/ GetStatuses \/ GetProjects
  BY <1>6, CatalogsStep
<1>7. CASE FirstSearch
  BY <1>7, FirstSearchStep
<1>8. CASE SecondSearch
  BY <1>8, SecondSearchStep
<1>9. CASE PageChecks
  BY <1>9, PageChecksStep
<1>10. CASE SecondChangelog
  BY <1>10, SecondChangelogStep
<1>11. CASE RestOfPage
  BY <1>11, RestOfPageStep
<1>12. CASE Refused
  BY <1>12, RefusedStep
<1>13. CASE EndSection
  BY <1>13, Blank DEF EndSection, Started
<1>14. CASE Escapes
  BY <1>14, Blank DEF Escapes, Started
<1>15. CASE UNCHANGED vars
  BY <1>15, Unreported DEF vars, ghostVars
<1> QED  BY <1>1, <1>2, <1>3, <1>4, <1>5, <1>6, <1>7, <1>8, <1>9, <1>10, <1>11, <1>12,
            <1>13, <1>14, <1>15 DEF Next

(* R34: whatever the server answers and however the people who work in it  *)
(* change it meanwhile, no check passes whose fact the answers did not     *)
(* show, and none that can be short of evidence fails for it.              *)
THEOREM NothingUnseenIsJudgedSafe == Spec => []NothingUnseenIsJudged
<1>1. ListedInv => NothingUnseenIsJudged
  BY DEF ListedInv
<1> QED  BY <1>1, ListedInit, ListedStep, PTL DEF Spec

LEMMA AllListed == ListedInv => EveryCheckReported
<1> SUFFICES ASSUME ListedInv, pc = "report" PROVE EveryCheckReported
  BY DEF EveryCheckReported
<1>1. ASSUME NEW checks \in Seq(Checks), Follows(checks, Len(checks)) PROVE Ids = checks
  <2>1. DOMAIN report = 1 .. Len(checks) /\ DOMAIN checks = 1 .. Len(checks)
    BY <1>1, LenProperties DEF ListedInv, Listed, Follows, Begin
  <2>2. \A k \in 1 .. Len(checks) : report[k].id = checks[k]
    BY <1>1 DEF Follows, Begin
  <2>3. checks = [k \in 1 .. Len(checks) |-> checks[k]]
    BY <2>1
  <2> QED  BY <2>1, <2>2, <2>3 DEF Ids
<1>2. CASE Follows(JiraOrder, 12)
  BY <1>1, <1>2, Distinct DEF EveryCheckReported
<1>3. CASE report = <<Result("A12", "FAIL")>>
  BY <1>3 DEF EveryCheckReported
<1>4. CASE Follows(DbOrder, 8) /\ "schema" \in sections
  BY <1>1, <1>4, Distinct DEF EveryCheckReported
<1>5. CASE Follows(DbOrder, 7) /\ "schema" \notin sections
  <2> DEFINE d == SubSeq(DbOrder, 1, 7)
  <2>1. d \in Seq(Checks) /\ Len(d) = 7 /\ \A k \in 1 .. 7 : d[k] = DbOrder[k]
    <3>1. \A k \in 1 .. 7 : DbOrder[k] \in Checks
      BY Apart DEF Checks
    <3>2. /\ d \in Seq(Checks)
          /\ Len(d) = IF 1 <= 7 THEN 7 - 1 + 1 ELSE 0
          /\ \A k \in 1 .. 7 - 1 + 1 : d[k] = DbOrder[1 + k - 1]
      BY <3>1, SubSeqProperties
    <3> HIDE DEF d
    <3>3. \A k \in 1 .. 7 : 1 + k - 1 = k
      OBVIOUS
    <3> QED  BY <3>2, <3>3
  <2> HIDE DEF d
  <2>2. Follows(d, Len(d))
    BY <1>5, <2>1 DEF Follows, Begin
  <2>3. Ids = d
    BY <1>1, <2>1, <2>2
  <2> QED  BY <1>5, <2>3 DEF EveryCheckReported, d
<1> QED  BY <1>2, <1>3, <1>4, <1>5 DEF ListedInv, Listed, Progress

(* Whatever is denied, raises or comes back empty, a report that is printed*)
(* has every check of its section once, in order, or only the refusal.     *)
THEOREM EveryCheckReportedSafe == Spec => []EveryCheckReported
BY AllListed, ListedInit, ListedStep, PTL DEF Spec
-----------------------------------------------------------------------------
(* What a step leaves as it was said.                                      *)

Keeps(c)   == \A v \in {"PASS", "FAIL"} : c \in SaidBy(report', v) <=> c \in SaidBy(report, v)
Cleared(c) == \A v \in {"PASS", "FAIL"} : c \notin SaidBy(report', v)

LEMMA SaysIs ==
  /\ Says("PASS") = SaidBy(report, "PASS") /\ Says("FAIL") = SaidBy(report, "FAIL")
  /\ Says("PASS")' = SaidBy(report', "PASS") /\ Says("FAIL")' = SaidBy(report', "FAIL")
<1>1. Says("PASS") = SaidBy(report, "PASS") /\ Says("FAIL") = SaidBy(report, "FAIL")
  BY Zenon DEF Says, SaidBy
<1>2. Says("PASS")' = SaidBy(report', "PASS") /\ Says("FAIL")' = SaidBy(report', "FAIL")
  BY Zenon DEF Says, SaidBy
<1> QED  BY <1>1, <1>2

(* A check that comes later has said nothing. *)
LEMMA NotYet ==
  ASSUME ListedInv, NEW checks, NEW n, NEW c, Comes(checks, n, c), Follows(checks, n), NEW v
  PROVE  c \notin SaidBy(report, v)
<1>1. DOMAIN report = 1 .. n /\ \A k \in 1 .. n : report[k].id = checks[k]
  BY LenProperties DEF ListedInv, Listed, Follows, Begin
<1>2. \A k \in 1 .. n : checks[k] # c
  <2> SUFFICES ASSUME NEW k \in 1 .. n, checks[k] = c PROVE FALSE
    OBVIOUS
  <2>1. k \in 1 .. Len(checks) /\ n + 1 \in 1 .. Len(checks) /\ k # n + 1
    BY LenProperties DEF Comes, Ordered
  <2> QED  BY <2>1 DEF Comes, Ordered
<1> QED  BY <1>1, <1>2 DEF SaidBy

(* The checks that say something of the server or the schema are silent    *)
(* but for one action each.                                                *)
LEMMA Untold ==
  ASSUME ListedInv, [Next]_vars, NEW c \in {"DB7", "A1", "A3", "A4"},
         c = "DB7" => ~CheckSchema,
         c = "A1" => ~FirstSearch /\ ~SecondSearch,
         c = "A3" => ~SecondChangelog,
         c = "A4" => ~RestOfPage
  PROVE  Cleared(c) \/ (Keeps(c) /\ (applied' = applied \/ CheckSchema))
<1> DEFINE Goal == Cleared(c) \/ (Keeps(c) /\ (applied' = applied \/ CheckSchema))
<1>1. ASSUME report' = <<>> PROVE Cleared(c)
  BY <1>1 DEF Cleared, SaidBy
<1>2. ASSUME report' = report, applied' = applied PROVE Goal
  BY <1>2 DEF Keeps
<1>3. ASSUME NEW d, d # c, NEW v, SaysOf(d, v) PROVE Keeps(c)
  BY <1>3 DEF SaysOf, Keeps
<1>4. ASSUME NEW d, NEW g, NEW S, SaysAmong(S, d, g), c \notin S, d = c => g = "WARN"
      PROVE  Keeps(c)
  BY <1>4 DEF SaysAmong, Keeps
<1>5. ASSUME NEW i, Edit(i) \/ Delete(i) PROVE Goal
  BY <1>2, <1>5 DEF Edit, Delete, MayChange
<1>6. ASSUME NEW s, Start(s) PROVE Goal
  BY <1>2, <1>6 DEF Start
<1>7. ASSUME NEW d \in Taken(DbOrder), CheckDb(d) PROVE Goal
  <2>1. PICK v : SaysOf(d, v)
    BY <1>7, CheckDbStep
  <2>2. d # c /\ applied' = applied
    BY <1>7, Apart, Distinct DEF CheckDb, Taken
  <2> QED  BY <1>3, <2>1, <2>2
<1>8. CASE CheckSchema
  <2>1. SaysOf("DB7", "WARN") \/ SaysOf("DB7", IF SchemaProblems = {} THEN "PASS" ELSE "FAIL")
    BY <1>8, CheckSchemaStep
  <2> QED  BY <1>3, <1>8, <2>1
<1>9. CASE MakeClient \/ Find
  BY <1>2, <1>9 DEF MakeClient, Find
<1>10. CASE GetFields \/ GetStatuses \/ GetProjects
  <2>1. PICK d \in {"A8", "A9", "A11"} : \E v : SaysOf(d, v)
    BY <1>10, CatalogsStep
  <2>2. Keeps(c)
    BY <1>3, <2>1
  <2> QED  BY <1>10, <2>2 DEF GetFields, GetStatuses, GetProjects, Catalog
<1>11. CASE FirstSearch
  <2>1. SaysOf("A1", "FAIL") \/ SaysOf("A1", "WARN") \/ report' = report
    BY <1>11, FirstSearchStep
  <2>2. applied' = applied
    BY <1>11 DEF FirstSearch
  <2> QED  BY <1>2, <1>3, <1>11, <2>1, <2>2
<1>12. CASE SecondSearch
  <2>1. PICK v : SaysOf("A1", v)
    BY <1>12, SecondSearchStep
  <2>2. applied' = applied
    BY <1>12 DEF SecondSearch
  <2> QED  BY <1>3, <1>12, <2>1, <2>2
<1>13. CASE PageChecks
  <2>1. Keeps(c)
    BY <1>4, <1>13, PageChecksStep
  <2> QED  BY <1>13, <2>1 DEF PageChecks
<1>14. CASE SecondChangelog
  <2>1. CASE report' = <<>>
    BY <1>1, <2>1
  <2>2. ASSUME NEW i, SaysOf("A3", IF Reaches(i) THEN "PASS" ELSE "WARN") PROVE Keeps(c)
    BY <1>3, <1>14, <2>2
  <2>3. report' = <<>> \/ applied' = applied
    BY <1>14 DEF SecondChangelog, Started
  <2> QED  BY <1>14, <2>1, <2>2, <2>3, SecondChangelogStep
<1>15. CASE RestOfPage
  <2>1. Keeps(c)
    BY <1>4, <1>15, RestOfPageStep
  <2> QED  BY <1>15, <2>1 DEF RestOfPage
<1>16. CASE Refused
  BY <1>16, RefusedStep DEF Cleared
<1>17. CASE EndSection \/ Escapes
  BY <1>1, <1>17 DEF EndSection, Escapes, Started
<1>18. CASE UNCHANGED vars
  BY <1>2, <1>18 DEF vars
<1> QED  BY <1>5, <1>6, <1>7, <1>8, <1>9, <1>10, <1>11, <1>12, <1>13, <1>14, <1>15, <1>16,
            <1>17, <1>18 DEF Next
-----------------------------------------------------------------------------
(* DB7.                                                                    *)

Applied == \A s \in Statements : s.remark \/
              /\ s.name \in DOMAIN applied
              /\ s.kind = "column" /\ s.width # 0 => applied[s.name] \in {0, s.width}

(* What is compared with the dictionary is all the files declare.          *)
LEMMA Compared == SchemaProblems = {} <=> Applied'
<1>1. ASSUME SchemaProblems = {} PROVE Applied'
  <2>1. ASSUME NEW k \in {"table", "index", "constraint", "view", "sequence"} PROVE Missing(k) = {}
    BY <1>1, <2>1 DEF SchemaProblems
  <2>2. ColumnProblems = {}
    BY <1>1 DEF SchemaProblems
  <2>3. ASSUME NEW s \in Statements, s.remark = FALSE, s.kind # "column" PROVE Here(s)
    BY <2>1, <2>3, StatementsAssumption DEF Missing, Declared
  <2>4. ASSUME NEW s \in Statements, s.remark = FALSE, s.kind = "column"
        PROVE  Here(s) /\ (s.width # 0 => applied'[s.name] \in {0, s.width})
    <3>1. PICK t \in Statements : t.kind = "table" /\ ~t.remark /\ t.name = s.of
      BY <2>4, StatementsAssumption
    <3>2. s.of \in DOMAIN applied'
      BY <2>3, <3>1, StatementsAssumption DEF Here
    <3> QED  BY <2>2, <2>4, <3>2 DEF ColumnProblems, Declared
  <2> QED  BY <2>3, <2>4, StatementsAssumption DEF Applied, Here
<1>2. ASSUME Applied' PROVE SchemaProblems = {}
  <2>1. ASSUME NEW k PROVE Missing(k) = {}
    BY <1>2 DEF Applied, Missing, Declared, Here
  <2>2. ColumnProblems = {}
    BY <1>2 DEF Applied, ColumnProblems, Declared, Here
  <2> QED  BY <2>1, <2>2 DEF SchemaProblems
<1> QED  BY <1>1, <1>2

LEMMA SchemaStep ==
  ASSUME ListedInv, SchemaIsCompared, [Next]_vars PROVE SchemaIsCompared'
<1>1. CASE CheckSchema
  <2>1. /\ "DB7" \notin SaidBy(report, "PASS") /\ "DB7" \notin SaidBy(report, "FAIL")
    <3>1. Comes(DbOrder, 7, "DB7")
      BY Apart, Distinct DEF Comes, Ordered
    <3>2. Follows(DbOrder, 7)
      <4>1. pc = DbOrder[8] /\ 8 - 1 = 7 /\ 8 \in 1 .. 8
        BY <1>1, Apart DEF CheckSchema
      <4> QED  BY <4>1 DEF ListedInv, Listed, Progress
    <3> QED  BY <3>1, <3>2, NotYet
  <2> DEFINE v == IF SchemaProblems = {} THEN "PASS" ELSE "FAIL"
  <2>2. SaysOf("DB7", "WARN") \/ SaysOf("DB7", v)
    BY <1>1, CheckSchemaStep
  <2>3. (v = "PASS" /\ Applied') \/ (v = "FAIL" /\ ~Applied')
    BY Compared
  <2> HIDE DEF v
  <2>4. /\ "DB7" \in SaidBy(report', "PASS") => Applied'
        /\ "DB7" \in SaidBy(report', "FAIL") => ~Applied' /\ "DB7" \notin SaidBy(report', "PASS")
    BY <2>1, <2>2, <2>3 DEF SaysOf
  <2> QED  BY <2>4, SaysIs DEF SchemaIsCompared, Applied
<1>2. CASE ~CheckSchema
  <2>1. Cleared("DB7") \/ (Keeps("DB7") /\ applied' = applied)
    BY <1>2, Untold
  <2>2. CASE Cleared("DB7")
    BY <2>2, SaysIs DEF Cleared, SchemaIsCompared
  <2>3. CASE Keeps("DB7") /\ applied' = applied
    BY <2>3, SaysIs DEF Keeps, SchemaIsCompared
  <2> QED  BY <2>1, <2>2, <2>3
<1> QED  BY <1>1, <1>2

(* R33: whatever statements the files hold and whichever of them somebody  *)
(* left out or applied to another width, DB7 passes exactly if nothing the *)
(* files declare is missing or narrower or wider than declared.            *)
THEOREM SchemaIsComparedSafe == Spec => []SchemaIsCompared
<1>1. Init => SchemaIsCompared
  <2> SUFFICES ASSUME Init PROVE SchemaIsCompared
    OBVIOUS
  <2>1. report = <<>>
    BY DEF Init
  <2> QED  BY <2>1, SaysIs DEF SchemaIsCompared, SaidBy
<1> QED  BY <1>1, ListedInit, ListedStep, SchemaStep, PTL DEF Spec
-----------------------------------------------------------------------------
(* The exit code.                                                          *)

DbCalls == {"DB1", "DB2", "DB3", "DB4", "DB5", "DB6", "DB7", "DB8"}

(* The checks of the database lead to one another or to the report. *)
LEMMA DbPlaces ==
  ASSUME NEW c \in Taken(DbOrder), CheckDb(c)
  PROVE  pc \in DbCalls /\ pc' \in DbCalls \cup {"report"}
<1>1. PICK k \in 1 .. 8 : c = DbOrder[k]
  BY Distinct DEF Taken
<1>2. k # 8
  BY <1>1, Apart DEF CheckDb
<1>3. pc' = "report" \/ pc' = DbOrder[k + 1]
  BY <1>1, <1>2, NextOf DEF CheckDb
<1>4. k + 1 \in 1 .. 8
  BY <1>2
<1> QED  BY <1>1, <1>3, <1>4, Apart DEF CheckDb, DbCalls

LEMMA ExitStep ==
  ASSUME ExitInv, [Next]_vars PROVE ExitInv'
<1>1. CASE EndSection
  <2>1. failed' = told' /\ told' \in BOOLEAN
    BY <1>1 DEF EndSection, ExitInv, Failed
  <2> QED  BY <1>1, <2>1 DEF EndSection, ExitInv, ExitAgrees
<1>2. CASE Escapes
  <2>1. sections # {}
    BY <1>2, Apart, Distinct DEF Escapes, ExitInv, JiraCalls, Taken
  <2> QED  BY <1>2, <2>1 DEF Escapes, ExitInv, ExitAgrees
<1>3. CASE SecondChangelog
  <2>1. sections # {}
    BY <1>3 DEF SecondChangelog, ExitInv
  <2>2. /\ sections' = sections /\ failed' = failed /\ told' = told
        /\ pc' = "rest" \/ (pc' = "done" /\ exit' = 1)
    BY <1>3 DEF SecondChangelog
  <2> QED  BY <2>1, <2>2 DEF ExitInv, ExitAgrees
<1>4. ASSUME NEW s, Start(s) PROVE ExitInv'
  <2>1. s # {}
    BY <1>4 DEF Start
  <2> QED  BY <1>4, <2>1 DEF Start, ExitInv, ExitAgrees, ghostVars
(* The others neither begin nor end the command. *)
<1>5. ASSUME sections # {} \/ pc' = pc, pc' = "done" => pc = "done", pc' = "start" => pc = "start",
             UNCHANGED <<sections, failed, exit, told>>
      PROVE  ExitInv'
  BY <1>5 DEF ExitInv, ExitAgrees
<1>6. ASSUME pc \notin {"start", "done"} PROVE sections # {}
  BY <1>6 DEF ExitInv
<1>7. ASSUME NEW i, Edit(i) \/ Delete(i) PROVE ExitInv'
  BY <1>5, <1>7 DEF Edit, Delete, MayChange
<1>8. ASSUME NEW c \in Taken(DbOrder), CheckDb(c) PROVE ExitInv'
  <2>1. pc \in DbCalls /\ pc' \in DbCalls \cup {"report"}
    BY <1>8, DbPlaces
  <2>2. UNCHANGED <<sections, failed, exit, told>>
    BY <1>8 DEF CheckDb
  <2> QED  BY <1>5, <1>6, <2>1, <2>2 DEF DbCalls
<1>9. CASE CheckSchema \/ MakeClient \/ Find
  BY <1>5, <1>6, <1>9 DEF CheckSchema, MakeClient, Find, ghostVars
<1>10. CASE GetFields \/ GetStatuses \/ GetProjects
  BY <1>5, <1>6, <1>10 DEF GetFields, GetStatuses, GetProjects, Catalog
<1>11. CASE FirstSearch \/ SecondSearch
  BY <1>5, <1>6, <1>11 DEF FirstSearch, SecondSearch
<1>12. CASE PageChecks \/ RestOfPage
  BY <1>5, <1>6, <1>12 DEF PageChecks, RestOfPage
<1>13. CASE Refused
  BY <1>5, <1>6, <1>13 DEF Refused, JiraCalls
<1>14. CASE UNCHANGED vars
  BY <1>5, <1>14 DEF vars, ghostVars
<1> QED  BY <1>1, <1>2, <1>3, <1>4, <1>7, <1>8, <1>9, <1>10, <1>11, <1>12, <1>13, <1>14 DEF Next

(* However many sections were asked for and however the command ends, an   *)
(* exit code of 0 means that no report said FAIL, and 1 that one did or    *)
(* that an error cut a section short (cli.py:107-123).                     *)
THEOREM ExitAgreesSafe == Spec => []ExitAgrees
<1>1. Init => ExitInv
  BY DEF Init, ExitInv, ExitAgrees
<1>2. ExitInv /\ [Next]_vars => ExitInv'
  BY ExitStep
<1>3. ExitInv => ExitAgrees
  BY DEF ExitInv
<1> QED  BY <1>1, <1>2, <1>3, PTL DEF Spec
-----------------------------------------------------------------------------
(* What the verdicts on the server rest on.                                *)

(* A sequence without one of its elements: the others only move forward.   *)
LEMMA Moved ==
  ASSUME order \in Seq(Nat), NEW i, \E k \in DOMAIN order : order[k] = i
  PROVE  /\ i \in Nat /\ Without(i) \in Seq(Nat) /\ Taken(Without(i)) \subseteq Taken(order)
         /\ \A j \in DOMAIN order : order[j] # i =>
               \E m \in 1 .. j : m <= Len(Without(i)) /\ Without(i)[m] = order[j]
<1> DEFINE k == CHOOSE n \in DOMAIN order : order[n] = i
           a == SubSeq(order, 1, k - 1)
           b == SubSeq(order, k + 1, Len(order))
           w == a \o b
<1>1. /\ k \in DOMAIN order /\ order[k] = i /\ DOMAIN order = 1 .. Len(order) /\ Len(order) \in Nat
      /\ \A j \in DOMAIN order : order[j] \in Nat
  BY LenProperties, ElementOfSeq
<1>2. Without(i) = w
  BY DEF Without
<1> HIDE DEF k
<1>3. a \in Seq(Nat) /\ Len(a) = k - 1 /\ \A j \in 1 .. k - 1 : a[j] = order[j]
  <2>1. k - 1 \in Int /\ 1 \in Int /\ \A j \in 1 .. k - 1 : order[j] \in Nat
    BY <1>1
  <2>2. /\ a \in Seq(Nat) /\ Len(a) = IF 1 <= k - 1 THEN k - 1 - 1 + 1 ELSE 0
        /\ \A j \in 1 .. k - 1 - 1 + 1 : a[j] = order[1 + j - 1]
    BY <2>1, SubSeqProperties
  <2> HIDE DEF a
  <2> QED  BY <1>1, <2>2
<1>4. b \in Seq(Nat) /\ Len(b) = Len(order) - k /\ \A j \in 1 .. Len(order) - k : b[j] = order[k + j]
  <2>1. k + 1 \in Int /\ Len(order) \in Int /\ \A j \in k + 1 .. Len(order) : order[j] \in Nat
    BY <1>1
  <2>2. /\ b \in Seq(Nat) /\ Len(b) = IF k + 1 <= Len(order) THEN Len(order) - (k + 1) + 1 ELSE 0
        /\ \A j \in 1 .. Len(order) - (k + 1) + 1 : b[j] = order[(k + 1) + j - 1]
    BY <2>1, SubSeqProperties
  <2> HIDE DEF b
  <2>3. Len(b) = Len(order) - k
    <3>1. k \in 1 .. Len(order)
      BY <1>1
    <3>2. CASE k + 1 <= Len(order)
      BY <1>1, <2>2, <3>1, <3>2
    <3>3. CASE ~(k + 1 <= Len(order))
      <4>1. Len(b) = 0
        BY <2>2, <3>3
      <4> QED  BY <1>1, <3>1, <3>3, <4>1
    <3> QED  BY <3>2, <3>3
  <2>4. ASSUME NEW j \in 1 .. Len(order) - k PROVE b[j] = order[k + j]
    <3>1. j \in 1 .. Len(order) - (k + 1) + 1 /\ (k + 1) + j - 1 = k + j
      BY <1>1
    <3>2. b[j] = order[(k + 1) + j - 1]
      BY <2>2, <3>1
    <3> QED  BY <3>1, <3>2
  <2> QED  BY <2>2, <2>3, <2>4
<1> HIDE DEF a, b
<1>5. /\ w \in Seq(Nat) /\ Len(w) = Len(a) + Len(b)
      /\ \A j \in 1 .. Len(a) + Len(b) : w[j] = IF j <= Len(a) THEN a[j] ELSE b[j - Len(a)]
  BY <1>3, <1>4, ConcatProperties
<1> HIDE DEF w
<1>6. Len(w) = Len(order) - 1
  BY <1>1, <1>3, <1>4, <1>5
<1>7. \A j \in 1 .. Len(w) : w[j] = IF j < k THEN order[j] ELSE order[j + 1]
  <2> SUFFICES ASSUME NEW j \in 1 .. Len(w)
               PROVE  w[j] = IF j < k THEN order[j] ELSE order[j + 1]
    OBVIOUS
  <2>1. CASE j < k
    BY <1>1, <1>3, <1>4, <1>5, <2>1
  <2>2. CASE j >= k
    <3>1. j - (k - 1) \in 1 .. Len(order) - k /\ k + (j - (k - 1)) = j + 1
      BY <1>1, <1>6, <2>2
    <3>2. w[j] = b[j - (k - 1)]
      BY <1>1, <1>3, <1>4, <1>5, <2>2
    <3>3. b[j - (k - 1)] = order[k + (j - (k - 1))]
      BY <1>4, <3>1
    <3>4. ~(j < k)
      BY <1>1, <2>2
    <3> QED  BY <3>1, <3>2, <3>3, <3>4
  <2> QED  BY <1>1, <2>1, <2>2
<1>8. Taken(w) \subseteq Taken(order)
  <2>1. \A j \in 1 .. Len(w) : j \in DOMAIN order /\ j + 1 \in DOMAIN order
    BY <1>1, <1>6
  <2>2. DOMAIN w = 1 .. Len(w)
    BY <1>5, LenProperties
  <2> QED  BY <1>7, <2>1, <2>2 DEF Taken
<1>9. ASSUME NEW j \in DOMAIN order, order[j] # i
      PROVE  \E m \in 1 .. j : m <= Len(w) /\ w[m] = order[j]
  <2>1. CASE j < k
    BY <1>1, <1>6, <1>7, <2>1
  <2>2. CASE j > k
    <3>1. j - 1 \in 1 .. Len(w) /\ ~(j - 1 < k) /\ (j - 1) + 1 = j /\ j - 1 \in 1 .. j
      BY <1>1, <1>6, <2>2
    <3>2. w[j - 1] = order[j]
      BY <1>7, <3>1
    <3>3. j - 1 <= Len(w)
      BY <1>1, <1>6
    <3> QED  BY <3>1, <3>2, <3>3
  <2> QED  BY <1>1, <1>9, <2>1, <2>2
<1> QED  BY <1>1, <1>2, <1>5, <1>8, <1>9

Looking == {"second", "page", "changelog", "rest"}

(* The steps that neither change Jira nor ask it for the first page.       *)
LEMMA Calm ==
  ASSUME [Next]_vars, ~Find, ~FirstSearch, \A i \in Issues : ~Edit(i) /\ ~Delete(i)
  PROVE  /\ UNCHANGED <<order, payload, jira, changes>>
         /\ pc' \in Looking => pc \in Looking /\ page' = page /\ touched' = touched
         /\ pc' = "second" => pc = "second"
         /\ pc' = "search" => pc = "search"
         /\ touched' = touched \/ touched' = {}
         /\ (page' = page /\ touched' = touched) \/ report' = <<>>
         /\ pc' \notin Looking \cup {"report"} =>
               touched' = {} \/ (touched' = touched /\ pc \notin Looking \cup {"report"})
<1> USE DEF Looking, jiraVars, ghostVars
<1>1. CASE \E s \in SUBSET {"db", "schema", "jira"} : Start(s)
  BY <1>1 DEF Start
<1>2. ASSUME NEW c \in Taken(DbOrder), CheckDb(c)
      PROVE  /\ UNCHANGED <<order, payload, jira, changes, page, touched>>
             /\ pc \in DbCalls /\ pc' \in DbCalls \cup {"report"}
  BY <1>2, DbPlaces DEF CheckDb
<1>3. CASE \E c \in Taken(DbOrder) : CheckDb(c)
  BY <1>2, <1>3 DEF DbCalls
<1>4. CASE CheckSchema \/ MakeClient
  BY <1>4 DEF CheckSchema, MakeClient
<1>5. CASE GetFields \/ GetStatuses \/ GetProjects
  BY <1>5 DEF GetFields, GetStatuses, GetProjects, Catalog
<1>6. CASE SecondSearch \/ PageChecks \/ RestOfPage
  BY <1>6 DEF SecondSearch, PageChecks, RestOfPage
<1>7. CASE SecondChangelog
  BY <1>7 DEF SecondChangelog, Started
<1>8. CASE Refused
  BY <1>8 DEF Refused
<1>9. CASE EndSection \/ Escapes
  BY <1>9 DEF EndSection, Escapes, Started
<1>10. CASE UNCHANGED vars
  BY <1>10 DEF vars
<1> QED  BY <1>1, <1>3, <1>4, <1>5, <1>6, <1>7, <1>8, <1>9, <1>10 DEF Next

Histories == [hist : Seq(Nat \X Nat), user : STRING, custom : BOOLEAN]

LEMMA FindTypes ==
  ASSUME Find, touched = {}, changes \in Nat PROVE JiraType'
<1>1. PICK n \in 0 .. Cardinality(Issues) :
         order' = [k \in 1 .. n |-> k] /\ payload' \in [1 .. n -> Payloads]
  BY DEF Find
<1>2. n \in Nat
  BY <1>1, FS_CardinalityType, ProbeAssumption
<1>3. order' \in Seq(Nat) /\ Taken(order)' \subseteq 1 .. n
  BY <1>1, <1>2 DEF Taken
<1>4. payload' \in [1 .. n -> Histories] /\ DOMAIN payload' = 1 .. n
  BY <1>1, PayloadsAssumption DEF Histories
<1>5. \A i \in DOMAIN payload' : \A j, k \in DOMAIN payload'[i].hist :
         j < k => payload'[i].hist[j][2] <= payload'[i].hist[k][2]
  BY <1>1, PayloadsAssumption
<1>6. \A k \in DOMAIN order' : order'[k] = k
  BY <1>1
<1>7. jira' \in Servers /\ changes' \in Nat /\ touched' = {} /\ pc' = "search"
  BY DEF Find, ghostVars
<1> QED  BY <1>3, <1>4, <1>5, <1>6, <1>7, Zenon DEF JiraType, Histories

(* An edit or a deletion keeps what is held of every issue a history.      *)
LEMMA ChangeTypes ==
  ASSUME JiraType, NEW i, Edit(i) \/ Delete(i) PROVE JiraType' /\ DOMAIN payload' = DOMAIN payload
<1>1. /\ \E k \in DOMAIN order : order[k] = i
      /\ order \in Seq(Nat) /\ Taken(order) \subseteq DOMAIN payload /\ changes \in Nat
      /\ changes' = changes + 1 /\ jira' = jira /\ pc' = pc /\ pc \in {"second", "page", "changelog"}
      /\ payload \in [DOMAIN payload -> Histories]
  BY DEF Edit, Delete, MayChange, JiraType, Histories
<1>2. /\ i \in Nat /\ i \in DOMAIN payload
      /\ Without(i) \in Seq(Nat) /\ Taken(Without(i)) \subseteq DOMAIN payload
  BY <1>1, Moved DEF Taken
<1>3. payload' \in [DOMAIN payload -> Histories] /\ DOMAIN payload' = DOMAIN payload
  <2>1. CASE Edit(i)
    <3> DEFINE e == <<changes + 10, changes + 10>>
               h == Append(payload[i].hist, e)
    <3>1. e \in Nat \X Nat
      BY <1>1
    <3> HIDE DEF e
    <3>2. h \in Seq(Nat \X Nat)
      BY <1>1, <1>2, <3>1 DEF Histories
    <3>3. payload' = [payload EXCEPT ![i] = [payload[i] EXCEPT !.hist = h]]
      BY <2>1 DEF Edit, e
    <3> HIDE DEF h
    <3>4. [payload[i] EXCEPT !.hist = h] \in Histories
      BY <1>1, <1>2, <3>2 DEF Histories
    <3> QED  BY <1>1, <1>2, <3>3, <3>4
  <2>2. CASE Delete(i)
    BY <1>1, <2>2 DEF Delete
  <2> QED  BY <2>1, <2>2
<1>4. order' \in Seq(Nat) /\ Taken(order') \subseteq DOMAIN payload
  <2>1. CASE Edit(i)
    <3> DEFINE w == Without(i)
    <3>1. order' = Append(w, i)
      BY <2>1 DEF Edit
    <3> HIDE DEF w
    <3>2. w \in Seq(Nat) /\ \A k \in 1 .. Len(w) : w[k] \in DOMAIN payload
      BY <1>2, LenProperties DEF w, Taken
    <3>3. order' \in Seq(Nat) /\ \A k \in DOMAIN order' : order'[k] \in DOMAIN payload
      BY <1>2, <3>1, <3>2, AppendProperties, LenProperties
    <3> QED  BY <3>3 DEF Taken
  <2>2. CASE Delete(i)
    BY <1>2, <2>2 DEF Delete
  <2> QED  BY <2>1, <2>2
<1>5. DOMAIN payload' = DOMAIN payload /\ Taken(order)' = Taken(order') /\ changes' \in Nat
      /\ jira' \in Servers
  BY <1>1, <1>3 DEF Taken, JiraType
<1> QED  BY <1>1, <1>3, <1>4, <1>5 DEF JiraType, Histories

LEMMA JiraTypeStep ==
  ASSUME JiraType, [Next]_vars PROVE JiraType'
<1>1. CASE Find
  BY <1>1, FindTypes DEF JiraType, Find
<1>2. CASE FirstSearch
  BY <1>2 DEF FirstSearch, JiraType, jiraVars, Taken
<1>3. CASE \E i \in Issues : Edit(i) \/ Delete(i)
  BY <1>3, ChangeTypes
<1>4. CASE ~Find /\ ~FirstSearch /\ \A i \in Issues : ~Edit(i) /\ ~Delete(i)
  BY <1>4, Calm DEF JiraType, Looking, Taken
<1> QED  BY <1>1, <1>2, <1>3, <1>4
-----------------------------------------------------------------------------
(* The first page.                                                         *)

(* What a search shows of a sequence.                                      *)
LEMMA Shortened ==
  ASSUME NEW S, NEW s \in Seq(S), NEW n \in Nat
  PROVE  /\ Prefix(s, n) \in Seq(S) /\ Len(Prefix(s, n)) = Smaller(n, Len(s))
         /\ \A k \in 1 .. Len(Prefix(s, n)) : k \in DOMAIN s /\ Prefix(s, n)[k] = s[k]
<1> DEFINE m == Smaller(n, Len(s))
           p == Prefix(s, n)
<1>1. m \in Nat /\ m <= Len(s) /\ Len(s) \in Nat /\ DOMAIN s = 1 .. Len(s)
  BY LenProperties DEF Smaller
<1>2. \A k \in 1 .. m : s[k] \in S
  BY <1>1, ElementOfSeq
<1>3. p = SubSeq(s, 1, m)
  BY DEF Prefix
<1> HIDE DEF m, p
<1>4. /\ p \in Seq(S) /\ Len(p) = IF 1 <= m THEN m - 1 + 1 ELSE 0
      /\ \A k \in 1 .. m - 1 + 1 : p[k] = s[1 + k - 1]
  <2>1. m \in Int /\ 1 \in Int
    BY <1>1
  <2> QED  BY <1>2, <1>3, <2>1, SubSeqProperties
<1>5. Len(p) = m
  BY <1>1, <1>4
<1>6. \A k \in 1 .. m : k \in DOMAIN s /\ p[k] = s[k]
  BY <1>1, <1>4
<1> QED  BY <1>4, <1>5, <1>6 DEF m, p

(* A changelog as it is served is a history in the server's order.         *)
LEMMA ServedIs ==
  ASSUME JiraType, jira \in Servers, NEW i \in DOMAIN payload
  PROVE  /\ Served(i) \in Seq(Nat \X Nat) /\ Len(Served(i)) = Len(payload[i].hist)
         /\ pc = "search" => Timed(Served(i))
<1> DEFINE h == payload[i].hist
           n == Len(h)
           r == [k \in 1 .. n |-> h[n + 1 - k]]
<1>1. h \in Seq(Nat \X Nat)
  BY DEF JiraType
<1>2. pc = "search" => \A j, k \in DOMAIN h : j < k => h[j][2] <= h[k][2]
  BY DEF JiraType
<1>3. Served(i) = IF jira.ascending THEN h ELSE r
  BY DEF Served
<1> HIDE DEF h
<1>4. n \in Nat /\ DOMAIN h = 1 .. n /\ \A k \in 1 .. n : h[k] \in Nat \X Nat
  BY <1>1, LenProperties, ElementOfSeq
<1>5. r \in Seq(Nat \X Nat) /\ Len(r) = n /\ DOMAIN r = 1 .. n
  <2>1. \A k \in 1 .. n : n + 1 - k \in 1 .. n
    BY <1>4
  <2> HIDE DEF n
  <2> QED  BY <1>4, <2>1
<1>6. pc = "search" => \A j, k \in DOMAIN r : j < k => r[k][2] <= r[j][2]
  <2> SUFFICES ASSUME pc = "search", NEW j \in DOMAIN r, NEW k \in DOMAIN r, j < k
               PROVE  r[k][2] <= r[j][2]
    OBVIOUS
  <2>1. n + 1 - k \in DOMAIN h /\ n + 1 - j \in DOMAIN h /\ n + 1 - k < n + 1 - j
    BY <1>4
  <2>2. r[k] = h[n + 1 - k] /\ r[j] = h[n + 1 - j]
    BY <1>5
  <2> QED  BY <1>2, <2>1, <2>2
<1> HIDE DEF r, n
<1>7. CASE jira.ascending
  <2>1. Served(i) = h
    BY <1>3, <1>7
  <2> QED  BY <1>1, <1>2, <1>7, <2>1 DEF Timed, h
<1>8. CASE ~jira.ascending
  <2>1. Served(i) = r
    BY <1>3, <1>8
  <2> QED  BY <1>5, <1>6, <1>8, <2>1 DEF Timed, h, n
<1> QED  BY <1>7, <1>8

(* What the first page holds when it comes. *)
LEMMA FirstPage ==
  ASSUME JiraType, FirstSearch
  PROVE  /\ page'.issues \in Seq(Nat) /\ page'.cap = jira.cap
         /\ jira.cap \in Nat \ {0} /\ Len(page'.issues) = Smaller(jira.cap, Len(order))
         /\ \A k \in DOMAIN page'.issues : k \in DOMAIN order /\ page'.issues[k] = k /\ order[k] = k
         /\ Taken(page'.issues) \subseteq DOMAIN payload
         /\ \A i \in Taken(page'.issues) : page'.shown[i] = Shown(i)
<1> DEFINE issues == SearchAnswer(0)
<1>1. jira.cap \in Nat \ {0}
  BY ProbeAssumption DEF FirstSearch, JiraType, Servers
<1>2. /\ order \in Seq(Nat) /\ \A k \in DOMAIN order : order[k] = k
      /\ Taken(order) \subseteq DOMAIN payload
  BY DEF FirstSearch, JiraType
<1>3. issues = Prefix(order, jira.cap)
  <2>1. (IF jira.paging THEN 0 ELSE 0) = 0 /\ 0 + 1 = 1 /\ 0 + jira.cap = jira.cap
    BY <1>1
  <2> QED  BY <2>1 DEF SearchAnswer, Prefix
<1> HIDE DEF issues
<1>4. /\ issues \in Seq(Nat) /\ Len(issues) = Smaller(jira.cap, Len(order))
      /\ \A k \in 1 .. Len(issues) : k \in DOMAIN order /\ issues[k] = order[k]
  BY <1>1, <1>2, <1>3, Shortened
<1>5. /\ page'.issues = issues /\ page'.cap = jira.cap
      /\ page'.shown = [i \in Taken(issues) |-> Shown(i)]
  BY DEF FirstSearch, issues
<1>6. DOMAIN issues = 1 .. Len(issues)
  BY <1>4, LenProperties
<1>7. Taken(issues) \subseteq DOMAIN payload
  BY <1>2, <1>4, <1>6 DEF Taken
<1> QED  BY <1>1, <1>2, <1>4, <1>5, <1>6, <1>7

LEMMA FirstPageType ==
  ASSUME JiraType, FirstSearch PROVE PageType'
<1>1. /\ page'.issues \in Seq(Nat) /\ Taken(page'.issues) \subseteq DOMAIN payload
      /\ \A i \in Taken(page'.issues) : page'.shown[i] = Shown(i)
  BY FirstPage
<1>2. jira' = jira /\ payload' = payload /\ pc = "search" /\ jira \in Servers
  BY DEF FirstSearch, JiraType, jiraVars
<1>3. ASSUME NEW i \in DOMAIN payload
      PROVE  /\ Shown(i).hist \in Seq(Nat \X Nat) /\ Timed(Shown(i).hist)
             /\ Shown(i).total > Window => Len(Shown(i).hist) = Window
  <2>1. /\ Served(i) \in Seq(Nat \X Nat) /\ Len(Served(i)) = Len(payload[i].hist)
        /\ Timed(Served(i)) /\ Len(Served(i)) \in Nat
    BY <1>2, ServedIs, LenProperties
  <2>2. CASE jira.inline
    <3> DEFINE p == Prefix(Served(i), Window)
    <3>1. /\ p \in Seq(Nat \X Nat) /\ Len(p) = Smaller(Window, Len(Served(i)))
          /\ \A k \in 1 .. Len(p) : k \in DOMAIN Served(i) /\ p[k] = Served(i)[k]
      BY <2>1, Shortened, ProbeAssumption
    <3>2. Shown(i).hist = p /\ Shown(i).total = Len(Served(i))
      BY <2>1, <2>2 DEF Shown
    <3> HIDE DEF p
    <3>3. Timed(p)
      <4> SUFFICES ASSUME NEW j \in DOMAIN p, NEW k \in DOMAIN p, j < k
                   PROVE  IF jira.ascending THEN p[j][2] <= p[k][2] ELSE p[k][2] <= p[j][2]
        BY DEF Timed
      <4> DEFINE s == Served(i)
      <4>1. /\ j \in DOMAIN s /\ k \in DOMAIN s /\ p[j] = s[j] /\ p[k] = s[k]
            /\ \A a, b \in DOMAIN s : a < b =>
                  IF jira.ascending THEN s[a][2] <= s[b][2] ELSE s[b][2] <= s[a][2]
        BY <2>1, <3>1, LenProperties DEF Timed
      <4> HIDE DEF s
      <4>2. IF jira.ascending THEN s[j][2] <= s[k][2] ELSE s[k][2] <= s[j][2]
        BY <4>1
      <4> QED  BY <4>1, <4>2
    <3>4. Len(Served(i)) > Window => Len(p) = Window
      BY <2>1, <3>1, ProbeAssumption DEF Smaller
    <3> QED  BY <3>1, <3>2, <3>3, <3>4
  <2>3. CASE ~jira.inline
    <3>1. Shown(i).hist = <<>> /\ Shown(i).total = 0
      BY <2>3 DEF Shown
    <3>2. Timed(<<>>)
      BY DEF Timed
    <3> QED  BY <3>1, <3>2, ProbeAssumption
  <2> QED  BY <2>2, <2>3
<1>4. \A h : Timed(h) => Timed(h)'
  BY <1>2 DEF Timed
<1>5. Taken(page.issues)' = Taken(page'.issues)
  BY DEF Taken
<1>6. \A i \in Taken(page'.issues) :
         /\ page'.shown[i].hist \in Seq(Nat \X Nat)
         /\ \A j, k \in DOMAIN page'.shown[i].hist : j < k =>
               IF jira'.ascending THEN page'.shown[i].hist[j][2] <= page'.shown[i].hist[k][2]
                                  ELSE page'.shown[i].hist[k][2] <= page'.shown[i].hist[j][2]
         /\ page'.shown[i].total > Window => Len(page'.shown[i].hist) = Window
  BY <1>1, <1>2, <1>3 DEF Timed
<1> QED  BY <1>1, <1>2, <1>5, <1>6 DEF PageType, Timed

(* A page that stays is what it was. *)
LEMMA PageStays ==
  ASSUME PageType, page' = page, jira' = jira, DOMAIN payload' = DOMAIN payload,
         pc' \in Looking => pc \in Looking
  PROVE  PageType'
<1> SUFFICES ASSUME pc' \in Looking PROVE PageType'
  BY DEF PageType, Looking
<1> QED  BY DEF PageType, Looking, Timed, Taken

LEMMA PageTypeStep ==
  ASSUME JiraType, PageType, [Next]_vars PROVE PageType'
<1>1. CASE Find
  BY <1>1 DEF Find, PageType
<1>2. CASE FirstSearch
  BY <1>2, FirstPageType
<1>3. CASE \E i \in Issues : Edit(i) \/ Delete(i)
  BY <1>3, ChangeTypes, PageStays DEF Edit, Delete, MayChange
<1>4. CASE ~Find /\ ~FirstSearch /\ \A i \in Issues : ~Edit(i) /\ ~Delete(i)
  <2>1. CASE pc' \in Looking
    BY <1>4, <2>1, Calm, PageStays
  <2>2. CASE pc' \notin Looking
    BY <2>2 DEF PageType, Looking
  <2> QED  BY <2>1, <2>2
<1> QED  BY <1>1, <1>2, <1>3, <1>4

LEMMA PageKeptStep ==
  ASSUME ListedInv, JiraType, PageType, PageKept, [Next]_vars PROVE PageKept'
<1>1. CASE Find
  BY <1>1 DEF Find, PageKept
<1>2. CASE FirstSearch
  <2> SUFFICES ASSUME pc' = "second" PROVE PageKept'
    BY DEF PageKept
  <2>1. /\ page'.issues \in Seq(Nat) /\ page'.cap = jira.cap
        /\ jira.cap \in Nat \ {0} /\ Len(page'.issues) = Smaller(jira.cap, Len(order))
        /\ \A k \in DOMAIN page'.issues : k \in DOMAIN order /\ page'.issues[k] = k /\ order[k] = k
    BY <1>2, FirstPage
  <2>2. Len(order) > Len(page'.issues)
    BY <1>2, FirstSearchStep
  <2>3. /\ order' = order /\ jira' = jira /\ touched' = touched /\ touched = {}
        /\ order \in Seq(Nat) /\ \A k \in DOMAIN order : order[k] = k
    BY <1>2 DEF FirstSearch, JiraType, jiraVars
  <2>4. Len(order) > jira.cap /\ Len(page'.issues) <= jira.cap
    BY <2>1, <2>2, <2>3, LenProperties DEF Smaller
  <2>5. \A k \in DOMAIN page'.issues : k \in 1 .. k /\ k <= Len(order)
    BY <2>1, <2>3, LenProperties
  <2> QED  BY <2>1, <2>3, <2>4, <2>5 DEF PageKept
<1>3. ASSUME NEW i \in Issues, Edit(i) \/ Delete(i) PROVE PageKept'
  <2> SUFFICES ASSUME pc' = "second" PROVE PageKept'
    BY DEF PageKept
  <2>1. /\ pc = "second" /\ page' = page /\ jira' = jira /\ touched' = touched \cup {i}
        /\ \E k \in DOMAIN order : order[k] = i
    BY <1>3 DEF Edit, Delete, MayChange
  <2>2. order \in Seq(Nat)
    BY DEF JiraType
  <2> DEFINE w == Without(i)
  <2>3. /\ i \in Nat /\ w \in Seq(Nat)
        /\ \A j \in DOMAIN order : order[j] # i => \E m \in 1 .. j : m <= Len(w) /\ w[m] = order[j]
    BY <2>1, <2>2, Moved
  <2>4. order' = Append(w, i) \/ order' = w
    BY <1>3 DEF Edit, Delete
  <2> HIDE DEF w
  <2>5. Len(w) \in Nat /\ Len(w) <= Len(order') /\ \A m \in 1 .. Len(w) : order'[m] = w[m]
    BY <2>3, <2>4, AppendProperties, LenProperties
  <2>6. ASSUME NEW k \in DOMAIN page.issues, page.issues[k] \notin touched'
        PROVE  \E m \in 1 .. k : m <= Len(order') /\ order'[m] = page.issues[k]
    <3>1. PICK j \in 1 .. k : j <= Len(order) /\ order[j] = page.issues[k]
      BY <2>1, <2>6 DEF PageKept
    <3>2. j \in DOMAIN order /\ order[j] # i
      BY <2>1, <2>2, <2>6, <3>1, LenProperties
    <3>3. PICK m \in 1 .. j : m <= Len(w) /\ w[m] = order[j]
      BY <2>3, <3>2
    <3>4. m \in 1 .. Len(w) /\ m <= Len(order')
      BY <2>5, <3>3
    <3>5. k \in Int => m \in 1 .. k
      BY <3>1, <3>3
    <3>6. k \in Int
      BY <2>1, LenProperties DEF PageType
    <3> QED  BY <2>5, <3>1, <3>3, <3>4, <3>5, <3>6
  <2>7. touched' # {}
    BY <2>1
  <2> QED  BY <2>1, <2>6, <2>7 DEF PageKept
<1>4. CASE ~Find /\ ~FirstSearch /\ \A i \in Issues : ~Edit(i) /\ ~Delete(i)
  BY <1>4, Calm DEF PageKept, Looking
<1> QED  BY <1>1, <1>2, <1>3, <1>4
-----------------------------------------------------------------------------
(* The verdicts.                                                           *)

A1Says == /\ "A1" \in Says("PASS") => jira.paging \/ Taken(page.issues) \subseteq touched
          /\ "A1" \in Says("FAIL") => ~jira.paging \/ page.issues = <<>> \/ touched # {}
A3Says == "A3" \in Says("PASS") => jira.wide > Window
A4Says == /\ "A4" \in Says("PASS") => jira.ascending
          /\ "A4" \in Says("FAIL") => ~jira.ascending

(* Nothing is said of Jira before it is looked at. *)
LEMMA Silent ==
  ASSUME ListedInv, pc = "first" \/ pc = "search" \/ pc = "second", NEW c \in {"A1", "A3", "A4"},
         NEW v
  PROVE  c \notin SaidBy(report, v)
<1>1. DOMAIN report = 1 .. 3 /\ \A k \in 1 .. 3 : report[k].id = JiraOrder[k]
  BY LenProperties DEF ListedInv, Listed, Progress, Follows, Begin
<1>2. JiraOrder[1] = "A8" /\ JiraOrder[2] = "A9" /\ JiraOrder[3] = "A11"
  BY DEF JiraOrder
<1>3. \A k \in 1 .. 3 : report[k].id \in {"A8", "A9", "A11"}
  BY <1>1, <1>2
<1> QED  BY <1>1, <1>3 DEF SaidBy

LEMMA A4Later ==
  ASSUME ListedInv, RestOfPage, NEW v PROVE "A4" \notin SaidBy(report, v)
<1>1. DOMAIN report = 1 .. 7 /\ \A k \in 1 .. 7 : report[k].id = JiraOrder[k]
  BY LenProperties DEF RestOfPage, ListedInv, Listed, Progress, Follows, Begin
<1>2. /\ JiraOrder[9] = "A4" /\ 9 \in 1 .. 12
      /\ \A k \in 1 .. 7 : k \in 1 .. 12 /\ k # 9
  BY DEF JiraOrder
<1>3. \A k \in 1 .. 7 : JiraOrder[k] # "A4"
  BY <1>2, Distinct
<1> QED  BY <1>1, <1>3 DEF SaidBy

LEMMA A3Later ==
  ASSUME ListedInv, SecondChangelog, NEW v PROVE "A3" \notin SaidBy(report, v)
<1>1. Comes(JiraOrder, 6, "A3")
  <2>1. JiraOrder[7] = "A3"
    BY DEF JiraOrder
  <2> QED  BY <2>1, Distinct DEF Comes, Ordered
<1>2. Follows(JiraOrder, 6)
  BY DEF SecondChangelog, ListedInv, Listed, Progress
<1> QED  BY <1>1, <1>2, NotYet

(* Steps that decide none of the verdicts and leave what they rest on.     *)
LEMMA JiraStays ==
  ASSUME ListedInv, [Next]_vars, NEW c \in {"A1", "A3", "A4"}
  PROVE  \/ jira' = jira
         \/ Find /\ \A v : c \notin SaidBy(report, v)
<1>1. CASE Find
  BY <1>1, Silent DEF Find
<1>2. CASE ~Find
  <2>1. CASE FirstSearch
    BY <2>1 DEF FirstSearch, jiraVars
  <2>2. CASE \E i \in Issues : Edit(i) \/ Delete(i)
    BY <2>2 DEF Edit, Delete, MayChange
  <2>3. CASE ~FirstSearch /\ \A i \in Issues : ~Edit(i) /\ ~Delete(i)
    BY <1>2, <2>3, Calm
  <2> QED  BY <2>1, <2>2, <2>3
<1> QED  BY <1>1, <1>2

(* A4: two different times in a row sorted one way are not sorted the other.*)
LEMMA A4Step ==
  ASSUME ListedInv, JiraType, PageType, A4Says, [Next]_vars PROVE A4Says'
<1>1. CASE RestOfPage
  <2>1. SaysAmong({"A5", "A6", "A10", "A12"}, "A4", OrderVerdict)
    BY <1>1, RestOfPageStep
  <2>2. /\ "A4" \in SaidBy(report', "PASS") => OrderVerdict = "PASS"
        /\ "A4" \in SaidBy(report', "FAIL") => OrderVerdict = "FAIL"
    BY <1>1, <2>1, A4Later DEF SaysAmong
  <2>3. jira' = jira /\ jira.ascending \in BOOLEAN
    BY <1>1 DEF RestOfPage, jiraVars, JiraType, Servers
  <2>4. \A i \in Telling : i \in Taken(page.issues) /\ TellsOrder(i)
    BY DEF Telling, FirstWith, Taken
  <2>5. ASSUME NEW i \in Telling
        PROVE  IsSorted(Stamps(i)) <=> jira.ascending
    <3> DEFINE h == page.shown[i].hist
               s == Stamps(i)
    <3>1. h \in Seq(Nat \X Nat) /\ Timed(h)
      BY <1>1, <2>4 DEF PageType, RestOfPage
    <3>2. s = [k \in DOMAIN h |-> h[k][2]]
      BY DEF Stamps
    <3>3. Cardinality(Taken(s)) >= 2
      BY <2>4 DEF TellsOrder
    <3> HIDE DEF h, s
    <3>4. DOMAIN s = DOMAIN h /\ DOMAIN s = 1 .. Len(h) /\ Len(h) \in Nat
          /\ \A k \in DOMAIN s : s[k] \in Nat /\ s[k] = h[k][2]
      BY <3>1, <3>2, LenProperties, ElementOfSeq
    <3>5. \A j, k \in DOMAIN s : j < k => IF jira.ascending THEN s[j] <= s[k] ELSE s[k] <= s[j]
      BY <3>1, <3>4 DEF Timed
    <3>6. CASE jira.ascending
      BY <3>5, <3>6 DEF IsSorted, s
    <3>7. CASE ~jira.ascending
      <4> SUFFICES ASSUME IsSorted(s) PROVE FALSE
        BY <3>7 DEF s
      <4>1. \A j, k \in DOMAIN s : j < k => s[j] = s[k]
        BY <3>4, <3>5, <3>7 DEF IsSorted
      <4>2. \A j, k \in DOMAIN s : s[j] = s[k]
        BY <3>4, <4>1
      <4>3. CASE DOMAIN s = {}
        <5>1. Taken(s) = {}
          BY <4>3 DEF Taken
        <5> QED  BY <3>3, <5>1, FS_EmptySet
      <4>4. ASSUME NEW k \in DOMAIN s PROVE FALSE
        <5>1. Taken(s) = {s[k]}
          BY <4>2 DEF Taken
        <5> QED  BY <3>3, <5>1, FS_Singleton
      <4> QED  BY <4>3, <4>4
    <3> QED  BY <3>6, <3>7
  <2>6. /\ OrderVerdict = "PASS" => jira.ascending
        /\ OrderVerdict = "FAIL" => ~jira.ascending
    BY <2>5 DEF OrderVerdict
  <2> QED  BY <2>2, <2>3, <2>6, SaysIs DEF A4Says
<1>2. CASE ~RestOfPage
  <2>1. Cleared("A4") \/ Keeps("A4")
    BY <1>2, Untold
  <2> QED  BY <2>1, SaysIs, JiraStays DEF A4Says, Cleared, Keeps
<1> QED  BY <1>1, <1>2

(* A3: with no more than a search shows, /issue has nothing beyond it.     *)
LEMMA A3Step ==
  ASSUME ListedInv, JiraType, PageType, A3Says, [Next]_vars PROVE A3Says'
<1>1. CASE SecondChangelog
  <2>1. \/ report' = <<>>
        \/ \E i \in Overflowing : SaysOf("A3", IF Reaches(i) THEN "PASS" ELSE "WARN")
    BY <1>1, SecondChangelogStep
  <2>2. CASE report' = <<>>
    BY <2>2, SaysIs DEF SaidBy, A3Says
  <2>3. ASSUME NEW i \in Overflowing, SaysOf("A3", IF Reaches(i) THEN "PASS" ELSE "WARN") PROVE A3Says'
    <3> SUFFICES ASSUME "A3" \in SaidBy(report', "PASS") PROVE jira'.wide > Window
      BY SaysIs DEF A3Says
    <3>1. Reaches(i)
      BY <1>1, <2>3, A3Later DEF SaysOf
    <3>2. jira' = jira /\ jira.wide \in {Window, Window + 1} /\ Window \in Nat /\ jira \in Servers
      BY <1>1, ProbeAssumption DEF SecondChangelog, jiraVars, JiraType, Servers
    <3>3. i \in Taken(page.issues) /\ page.shown[i].total > Window
      BY DEF Overflowing, FirstWith, Taken
    <3>4. i \in DOMAIN payload /\ Len(page.shown[i].hist) = Window
      BY <1>1, <3>3 DEF PageType, SecondChangelog
    <3>5. Served(i) \in Seq(Nat \X Nat) /\ Len(Served(i)) \in Nat
      BY <3>2, <3>4, ServedIs, LenProperties
    <3>6. CASE jira.wide = Window
      <4> DEFINE answer == Prefix(Served(i), jira.wide)
      <4>1. Len(answer) \in Int /\ Len(answer) <= Window
        BY <3>2, <3>5, <3>6, Shortened DEF Smaller
      <4> HIDE DEF answer
      <4>2. SubSeq(answer, Window + 1, Len(answer)) = <<>>
        BY <3>2, <4>1, SubSeqEmpty
      <4>3. Taken(<<>>) = {}
        BY DEF Taken
      <4> QED  BY <3>1, <3>4, <4>2, <4>3 DEF Reaches, answer
    <3> QED  BY <3>2, <3>6
  <2> QED  BY <2>1, <2>2, <2>3
<1>2. CASE ~SecondChangelog
  <2>1. Cleared("A3") \/ Keeps("A3")
    BY <1>2, Untold
  <2> QED  BY <2>1, SaysIs, JiraStays DEF A3Says, Cleared, Keeps
<1> QED  BY <1>1, <1>2

(* A1: the second page is the first one again, or begins where it ended,   *)
(* unless somebody worked in Jira between the two.                         *)
LEMMA SecondPage ==
  ASSUME JiraType, PageType, PageKept, SecondSearch
  PROVE  /\ Advances(SearchAnswer(page.cap)) => jira.paging \/ Taken(page.issues) \subseteq touched
         /\ ~Advances(SearchAnswer(page.cap)) => ~jira.paging \/ page.issues = <<>> \/ touched # {}
<1> DEFINE issues == SearchAnswer(page.cap)
           cap    == jira.cap
           n      == Len(order)
<1>1. /\ cap \in Nat \ {0} /\ order \in Seq(Nat) /\ page.cap = cap /\ page.issues \in Seq(Nat)
      /\ n \in Nat /\ DOMAIN order = 1 .. n /\ \A k \in 1 .. n : order[k] \in Nat
      /\ Len(page.issues) <= cap /\ DOMAIN page.issues = 1 .. Len(page.issues)
      /\ Len(page.issues) \in Nat
  BY ProbeAssumption, LenProperties, ElementOfSeq
     DEF SecondSearch, JiraType, PageType, PageKept, Servers
<1>2. issues = IF jira.paging THEN SubSeq(order, cap + 1, Smaller(cap + cap, n))
               ELSE SubSeq(order, 0 + 1, Smaller(0 + cap, n))
  BY <1>1 DEF SearchAnswer
<1> HIDE DEF issues, cap, n
<1>3. ASSUME ~jira.paging, Advances(issues) PROVE Taken(page.issues) \subseteq touched
  <2> DEFINE p == Prefix(order, cap)
  <2>1. issues = p
    <3>1. 0 + 1 = 1 /\ 0 + cap = cap
      BY <1>1
    <3> QED  BY <1>2, <1>3, <3>1 DEF Prefix, n
  <2>2. /\ p \in Seq(Nat) /\ Len(p) = Smaller(cap, n)
        /\ \A k \in 1 .. Len(p) : k \in DOMAIN order /\ p[k] = order[k]
    BY <1>1, Shortened DEF n
  <2> HIDE DEF p
  <2> SUFFICES ASSUME NEW k \in DOMAIN page.issues, page.issues[k] \notin touched PROVE FALSE
    BY DEF Taken
  <2>3. PICK j \in 1 .. k : j <= n /\ order[j] = page.issues[k]
    BY DEF PageKept, SecondSearch, n
  <2>4. j \in 1 .. Len(p)
    BY <1>1, <2>2, <2>3 DEF Smaller
  <2>5. p[j] = page.issues[k] /\ j \in DOMAIN p
    BY <2>2, <2>3, <2>4, LenProperties
  <2>6. page.issues[k] \in Taken(issues) \cap Taken(page.issues)
    BY <2>1, <2>5 DEF Taken
  <2> QED  BY <1>3, <2>6 DEF Advances
<1>4. ASSUME jira.paging, page.issues # <<>>, touched = {} PROVE Advances(issues)
  <2> DEFINE m == Smaller(cap + cap, n)
  <2>1. /\ n > cap /\ \A k \in 1 .. n : order[k] = k
        /\ \A k \in DOMAIN page.issues : page.issues[k] = k
    BY <1>1, <1>4 DEF PageKept, SecondSearch, cap, n
  <2>2. m \in Nat /\ m <= n /\ m >= cap + 1
    BY <1>1, <2>1 DEF Smaller
  <2>3. issues = SubSeq(order, cap + 1, m)
    BY <1>2, <1>4
  <2> HIDE DEF m
  <2>4. \A k \in cap + 1 .. m : order[k] \in Nat /\ k \in 1 .. n
    BY <1>1, <2>2
  <2>5. /\ issues \in Seq(Nat) /\ Len(issues) = IF cap + 1 <= m THEN m - (cap + 1) + 1 ELSE 0
        /\ \A k \in 1 .. m - (cap + 1) + 1 : issues[k] = order[(cap + 1) + k - 1]
    <3>1. cap + 1 \in Int /\ m \in Int
      BY <1>1, <2>2
    <3> QED  BY <2>3, <2>4, <3>1, SubSeqProperties
  <2>6. Len(issues) = m - cap
    <3>1. Len(issues) = m - (cap + 1) + 1
      BY <2>2, <2>5
    <3> QED  BY <1>1, <2>2, <3>1
  <2>7. ASSUME NEW k \in 1 .. Len(issues) PROVE issues[k] = cap + k
    <3>1. k \in 1 .. m - (cap + 1) + 1 /\ (cap + 1) + k - 1 = cap + k /\ cap + k \in 1 .. n
      BY <1>1, <2>2, <2>6
    <3> QED  BY <2>1, <2>5, <3>1
  <2>8. DOMAIN issues = 1 .. Len(issues)
    BY <2>5, LenProperties
  <2>9. issues # <<>>
    <3>1. Len(issues) # 0
      BY <1>1, <2>2, <2>6
    <3> QED  BY <3>1
  <2>10. Taken(issues) \cap Taken(page.issues) = {}
    <3> SUFFICES ASSUME NEW k \in DOMAIN issues, NEW j \in DOMAIN page.issues,
                        issues[k] = page.issues[j]
                 PROVE  FALSE
      BY DEF Taken
    <3>1. issues[k] = cap + k /\ page.issues[j] = j
      BY <2>1, <2>7, <2>8
    <3>2. k \in Nat /\ k >= 1 /\ j \in Nat /\ j <= Len(page.issues) /\ j = cap + k
      <4>1. k \in 1 .. Len(issues) /\ Len(issues) \in Nat
        BY <2>5, <2>8, LenProperties
      <4>2. j \in 1 .. Len(page.issues) /\ Len(page.issues) \in Nat
        BY <1>1
      <4>3. j = cap + k
        BY <3>1
      <4> QED  BY <4>1, <4>2, <4>3
    <3>3. Len(page.issues) <= cap
      BY <1>1
    <3> QED  BY <1>1, <3>2, <3>3
  <2> QED  BY <2>9, <2>10 DEF Advances
<1> QED  BY <1>3, <1>4 DEF issues

LEMMA A1Step ==
  ASSUME ListedInv, JiraType, PageType, PageKept, A1Says, [Next]_vars PROVE A1Says'
<1>0. Taken(page.issues)' = Taken(page'.issues)
  BY DEF Taken
<1>1. CASE FirstSearch
  <2>1. /\ "A1" \notin SaidBy(report, "PASS") /\ "A1" \notin SaidBy(report, "FAIL")
    BY <1>1, Silent DEF FirstSearch
  <2>2. \/ SaysOf("A1", "FAIL") /\ page'.issues = <<>>
        \/ SaysOf("A1", "WARN") \/ report' = report
    BY <1>1, FirstSearchStep
  <2> QED  BY <2>1, <2>2, SaysIs DEF SaysOf, A1Says
<1>2. CASE SecondSearch
  <2>1. /\ "A1" \notin SaidBy(report, "PASS") /\ "A1" \notin SaidBy(report, "FAIL")
    BY <1>2, Silent DEF SecondSearch
  <2> DEFINE v == IF Advances(SearchAnswer(page.cap)) THEN "PASS" ELSE "FAIL"
  <2>2. SaysOf("A1", v)
    BY <1>2, SecondSearchStep
  <2>3. /\ v = "PASS" => jira.paging \/ Taken(page.issues) \subseteq touched
        /\ v = "FAIL" => ~jira.paging \/ page.issues = <<>> \/ touched # {}
    BY <1>2, SecondPage
  <2>4. page' = page /\ jira' = jira /\ touched' = touched
    BY <1>2 DEF SecondSearch, jiraVars
  <2> HIDE DEF v
  <2>5. /\ "A1" \in Says("PASS")' => v = "PASS"
        /\ "A1" \in Says("FAIL")' => v = "FAIL"
    BY <2>1, <2>2, SaysIs DEF SaysOf
  <2> QED  BY <1>0, <2>3, <2>4, <2>5 DEF A1Says
<1>3. CASE ~FirstSearch /\ ~SecondSearch
  <2>1. Cleared("A1") \/ Keeps("A1")
    BY <1>3, Untold
  <2>2. CASE Cleared("A1")
    BY <2>2, SaysIs DEF Cleared, A1Says
  <2>3. CASE Find
    <3>1. /\ "A1" \notin SaidBy(report, "PASS") /\ "A1" \notin SaidBy(report, "FAIL")
      BY <2>3, Silent DEF Find
    <3> QED  BY <2>1, <3>1, SaysIs DEF Keeps, Cleared, A1Says
  <2>4. CASE Keeps("A1") /\ \E i \in Issues : Edit(i) \/ Delete(i)
    <3>1. page' = page /\ jira' = jira /\ touched \subseteq touched'
      BY <2>4 DEF Edit, Delete, MayChange
    <3> QED  BY <1>0, <2>4, <3>1, SaysIs DEF Keeps, A1Says
  <2>5. CASE Keeps("A1") /\ ~Find /\ \A i \in Issues : ~Edit(i) /\ ~Delete(i)
    <3>1. jira' = jira /\ ((page' = page /\ touched' = touched) \/ report' = <<>>)
      BY <1>3, <2>5, Calm
    <3>2. CASE report' = <<>>
      BY <3>2, SaysIs DEF SaidBy, A1Says
    <3>3. CASE page' = page /\ touched' = touched
      BY <1>0, <2>5, <3>1, <3>3, SaysIs DEF Keeps, A1Says
    <3> QED  BY <3>1, <3>2, <3>3
  <2> QED  BY <2>1, <2>2, <2>3, <2>4, <2>5
<1> QED  BY <1>1, <1>2, <1>3

LEMMA VerdictsAre == VerdictsAreTrue <=> A1Says /\ A3Says /\ A4Says
BY DEF VerdictsAreTrue, A1Says, A3Says, A4Says

LEMMA VerdictInit == Init => VerdictInv
<1> SUFFICES ASSUME Init PROVE VerdictInv
  OBVIOUS
<1>1. report = <<>> /\ pc = "start" /\ touched = {} /\ order = <<>> /\ payload = <<>> /\ changes = 0
  BY DEF Init
<1>2. JiraType
  BY <1>1 DEF JiraType, Taken
<1>3. PageType /\ PageKept
  BY <1>1 DEF PageType, PageKept
<1>4. VerdictsAreTrue
  BY <1>1, SaysIs DEF VerdictsAreTrue, SaidBy
<1> QED  BY <1>2, <1>3, <1>4, ListedInit DEF VerdictInv

LEMMA VerdictStep == VerdictInv /\ [Next]_vars => VerdictInv'
<1> SUFFICES ASSUME VerdictInv, [Next]_vars PROVE VerdictInv'
  OBVIOUS
<1>1. ListedInv' /\ JiraType' /\ PageType' /\ PageKept'
  BY ListedStep, JiraTypeStep, PageTypeStep, PageKeptStep DEF VerdictInv
<1>2. A1Says' /\ A3Says' /\ A4Says'
  BY A1Step, A3Step, A4Step, VerdictsAre DEF VerdictInv
<1>3. VerdictsAreTrue'
  BY <1>2 DEF VerdictsAreTrue, A1Says, A3Says, A4Says
<1> QED  BY <1>1, <1>3 DEF VerdictInv

(* Whatever the server is and whatever is edited or deleted between the    *)
(* calls: paging passes without being there only if the whole first page   *)
(* was changed meanwhile and fails where it is only if something was, and  *)
(* the order of changelogs and the reach of /issue are never told wrongly. *)
THEOREM VerdictsAreTrueSafe == Spec => []VerdictsAreTrue
<1>1. VerdictInv => VerdictsAreTrue
  BY DEF VerdictInv
<1> QED  BY <1>1, VerdictInit, VerdictStep, PTL DEF Spec
=============================================================================
