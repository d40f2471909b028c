----------------------------- MODULE MCSyncRun -----------------------------
(* Instances of SyncRun for TLC. *)
EXTENDS SyncRunMirror, TLC

CONSTANTS p, q

(* One issue in each of two projects. *)
OneEach == (1 :> p) @@ (2 :> q)

AllInOne == [i \in Issues |-> p]

(* No payload, or every second edit of issue 1, is beyond the parser. *)
AllParse == {}
SomeDoNot == {<<1, 3>>}
=============================================================================
