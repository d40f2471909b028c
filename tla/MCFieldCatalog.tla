--------------------------- MODULE MCFieldCatalog ---------------------------
(* Two names for TLC, one of which is the other when it is cut. *)
EXTENDS FieldCatalog

CutToSix == [m \in AllNames |-> IF m = "Points of the team" THEN "Points" ELSE m]
=============================================================================
