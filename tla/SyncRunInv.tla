----------------------------- MODULE SyncRunInv -----------------------------
(***************************************************************************)
(* The inductive invariant behind HistoryDebt: what a run knows at each    *)
(* point of a project, whatever fails, dies or is edited meanwhile.  What  *)
(* WatermarkCovers, CatalogDebt and ClearedMeansRepaired need besides      *)
(* stands in module SyncRun_proofs.                                        *)
(***************************************************************************)
EXTENDS SyncRun

(* Times are later than the overlap, so a watermark is never below NULL. *)
Stamps == /\ \A i \in Issues : updated[i] = 0 \/ updated[i] > Overlap
          /\ maxUpdated = Never \/ maxUpdated > Overlap

(* Only the writes of a dry run stay uncommitted, and no run leaves any. *)
Committed == (~dry \/ pc = "idle") => tx = db

(* A dry run, and no other, turns back after the search. *)
DryPath == /\ dry => pc \notin {"history", "first_done", "mark"}
           /\ pc = "dry_done" => dry

(* Jira issues of the current project are all that is ever changed, an     *)
(* issue Jira does not have yet has nothing to be stale, and between two   *)
(* projects the run remembers nothing of either.                           *)
Existing == /\ \A i \in changed : ProjectOf[i] = cur /\ updated[i] > 0
            /\ \A i \in Issues : updated[i] = 0 => Fresh(db, i)
            /\ pc \in {"idle", "catalog", "loop"} => changed = {} /\ ~full

(* What a search does about an issue it reads and can parse: it makes sure *)
(* that it is stored, and a full resync stores it anew.                    *)
Taken(i) == db.stored[i].upd = updated[i] /\ (full => i \in changed)

(* A search has taken every issue before the offset, but for those an edit *)
(* brought there, and it does not end before the answer; so once a full    *)
(* resync is over it has loaded all that is stale.                         *)
Coverage ==
    /\ full => since = Never
    /\ pc = "pages" =>
          /\ ~dry => \A i \in Read \ overtaken : <<i, updated[i]>> \notin Unparsable => Taken(i)
          /\ startAt > 0 => startAt < Cardinality(Matches(cur, since))
    /\ full /\ pc \in {"history", "first_done", "mark"} =>
          \A i \in Issues \ overtaken :
              ProjectOf[i] = cur /\ Readable(i) /\ ~Fresh(db, i) => i \in changed

(* How far the two derivations have come. *)
Derived ==
    ~dry =>
      /\ pc = "history" =>
            \A i \in changed \ left : db.hist[i] = db.stored[i]
      /\ pc = "first_done" =>
            /\ \A i \in changed : db.hist[i] = db.stored[i]
            /\ \A i \in changed \ left : db.done[i] = db.stored[i]
      /\ pc = "mark" => \A i \in changed : Fresh(db, i)

IInv == /\ TypeOK /\ Stamps /\ Committed /\ DryPath
        /\ Existing /\ Coverage /\ Derived /\ HistoryDebt
=============================================================================
