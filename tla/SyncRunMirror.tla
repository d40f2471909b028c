---------------------------- MODULE SyncRunMirror ----------------------------
(***************************************************************************)
(* SyncRun implements Mirror, while Jira changes as it likes.  A dry run   *)
(* works on nothing: what it does never reaches the tables.                *)
(***************************************************************************)
EXTENDS SyncRunInv

CONSTANT Nobody

ASSUME NobodyAssumption == Nobody \notin Projects

Working == ~dry /\ pc \in {"pages", "history", "first_done", "mark"}

Kept == INSTANCE Mirror WITH
    version <- updated,
    row     <- [i \in Issues |-> db.stored[i].upd],
    behind  <- {i \in Issues : ~Fresh(db, i)},
    asked   <- {r \in Projects : db.flag[r]},
    busy    <- IF Working THEN cur ELSE Nobody,
    work    <- IF Working THEN changed ELSE {},
    lost    <- torn \cup overtaken

(* Every step of a run, of its failures and of its death is a step of the  *)
(* promised mirror or none of its business: pages, batches, the flag and   *)
(* the watermark of runner.py keep the chain from load to history.         *)
ImplementsMirror == Kept!Spec
=============================================================================
