-------------------------------- MODULE Mirror --------------------------------
(***************************************************************************)
(* What the collection promises to whoever reads the tables, without the   *)
(* searches, pages, transactions and watermarks by which it is kept: one   *)
(* project is worked on at a time, its rows are loaded, the history of     *)
(* every row loaded is derived, and work that ends before that leaves a    *)
(* request to do the whole project again.  Only the death of the process,  *)
(* and an edit in the project being worked on, may let an issue escape.    *)
(* Module SyncRunMirror shows that SyncRun implements this specification.  *)
(***************************************************************************)
EXTENDS Integers

CONSTANTS
    Projects, Issues, ProjectOf,
    Nobody,         \* no project
    Unparsable      \* the <<issue, version>> that cannot be loaded

VARIABLES
    version,    \* Jira: the version of each issue, 0 before its creation
    row,        \* the version of it in the tables
    behind,     \* the issues whose history is not that of their row
    asked,      \* the projects whose repair is requested
    busy,       \* the project being worked on
    work,       \* the issues loaded for it so far
    lost        \* the issues that escaped: in hand and behind when a process died,
                \* or passed over because of an edit, and not worked off since

vars == <<version, row, behind, asked, busy, work, lost>>

Of(p) == {i \in Issues : ProjectOf[i] = p}
Readable(i) == \A u \in Unparsable : u[1] # i

TypeOK ==
    /\ version \in [Issues -> Nat] /\ row \in [Issues -> Nat]
    /\ behind \subseteq Issues /\ asked \subseteq Projects
    /\ busy \in Projects \cup {Nobody}
    /\ work \subseteq {i \in Issues : ProjectOf[i] = busy}
    /\ lost \subseteq Issues
-----------------------------------------------------------------------------
(* Jira changes an issue.  If a project is being worked on, issues of it   *)
(* may escape the search for that.                                         *)
Change(i) ==
    /\ version' = [version EXCEPT ![i] = version'[i]]
    /\ version'[i] \in Nat /\ version'[i] > version[i]
    /\ lost \subseteq lost' /\ lost' \subseteq lost \cup Of(busy)
    /\ UNCHANGED <<row, behind, asked, busy, work>>

Ask(p) ==
    /\ asked' = asked \cup {p}
    /\ UNCHANGED <<version, row, behind, busy, work, lost>>

Begin(p) ==
    /\ busy = Nobody /\ busy' = p
    /\ UNCHANGED <<version, row, behind, asked, work, lost>>

(* Rows are never older than what Jira has when they are loaded, and none  *)
(* but those of the project change.  What is loaded is not lost.           *)
Load(S) ==
    /\ busy # Nobody /\ S \subseteq Of(busy) /\ \A i \in S : version[i] > 0
    /\ row' = [i \in Issues |-> IF i \in S THEN version[i] ELSE row[i]]
    /\ work' = work \cup S
    /\ behind \ S \subseteq behind' /\ behind' \subseteq behind \cup S
    /\ lost \ S \subseteq lost' /\ lost' \subseteq lost
    /\ UNCHANGED <<version, asked, busy>>

Derive(S) ==
    /\ S \subseteq work
    /\ behind' = behind \ S
    /\ lost \ S \subseteq lost' /\ lost' \subseteq lost
    /\ UNCHANGED <<version, row, asked, busy, work>>

(* Nothing of p is behind but what escaped or cannot be loaded. *)
Repaired(p) == \A i \in Of(p) \ lost : Readable(i) => i \notin behind

Finish ==
    /\ busy # Nobody /\ behind \cap work = {}
    /\ \/ asked' = asked
       \/ asked' = asked \ {busy} /\ Repaired(busy)
    /\ busy' = Nobody /\ work' = {}
    /\ UNCHANGED <<version, row, behind, lost>>

(* The project is given up, and its repair requested. *)
GiveUp ==
    /\ busy # Nobody
    /\ asked' = asked \cup {busy}
    /\ busy' = Nobody /\ work' = {}
    /\ UNCHANGED <<version, row, behind, lost>>

(* A death loses what was loaded and not derived, and nothing else. *)
Die ==
    /\ lost' = lost \cup (work \cap behind)
    /\ busy' = Nobody /\ work' = {}
    /\ UNCHANGED <<version, row, behind, asked>>
-----------------------------------------------------------------------------
Init ==
    /\ version = [i \in Issues |-> 0] /\ row = version
    /\ behind = {} /\ asked = {}
    /\ busy = Nobody /\ work = {} /\ lost = {}

Next == \/ \E i \in Issues : Change(i)
        \/ \E p \in Projects : Ask(p) \/ Begin(p)
        \/ \E S \in SUBSET Issues : Load(S) \/ Derive(S)
        \/ Finish \/ GiveUp \/ Die

Spec == Init /\ [][Next]_vars
-----------------------------------------------------------------------------
(* An issue whose history is not that of its row is being worked on, or its*)
(* project is to be repaired: no chart is silently out of date but for the *)
(* issues that escaped (design.md 5.9).                                    *)
NothingForgotten ==
    \A i \in behind \ lost : Readable(i) => i \in work \/ ProjectOf[i] \in asked

MirrorInv == TypeOK /\ NothingForgotten
=============================================================================
