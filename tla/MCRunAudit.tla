----------------------------- MODULE MCRunAudit -----------------------------
(* An instance with a project, which a run may leave out, and one without. *)
EXTENDS RunAudit, TLC

CONSTANTS s, t, p

OneAndNone == (s :> {p}) @@ (t :> {})
=============================================================================
