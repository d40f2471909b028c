--------------------------- MODULE MCFieldHistory ---------------------------
(* Status names for TLC: an open one, a done one, and one of Hangul that   *)
(* fits no column and ends in a blank when cut to the narrowest.           *)
EXTENDS FieldHistory, TLC

Utf8 == [c \in {"n", "d", "k", " "} |-> IF c = "k" THEN 2 ELSE 1]

New  == <<"n">>
Done == <<"d">>
Long == <<"k", " ", "k", "k">>

Names == {New, Done, Long}

(* Taken as arrays: one whose first element is not all of it, one whose    *)
(* first is blank, so that it is NULL as a number or a date is, and one    *)
(* with a single element, which is like a text.                            *)
Firsts == (Long :> <<"k">>) @@ (Done :> <<" ">>) @@ (New :> New)

Statuses == [v \in Names |-> IF v = Done THEN "done" ELSE "new"]
=============================================================================
