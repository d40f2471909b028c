--------------------------------- MODULE Text ---------------------------------
(***************************************************************************)
(* truncate (jira/parser.py): how a text is fitted into a column whose     *)
(* width is declared in bytes.  A text is a sequence of characters, which  *)
(* may take several bytes each; blanks are stripped before the cut only,   *)
(* so that a text that was cut may end in one.                             *)
(***************************************************************************)
EXTENDS Integers, Sequences, FiniteSetsExt

CONSTANTS
    Bytes,      \* the characters, and the length of each in UTF-8
    Blanks      \* the characters str.strip removes

ASSUME TextAssumption == /\ Bytes \in [DOMAIN Bytes -> Nat \ {0}]
                         /\ Blanks \subseteq DOMAIN Bytes

Size[t \in Seq(DOMAIN Bytes)] ==
    IF t = <<>> THEN 0 ELSE Bytes[Head(t)] + Size[Tail(t)]

Strip(t) ==
    LET solid == {k \in DOMAIN t : t[k] \notin Blanks}
    IN  IF solid = {} THEN <<>> ELSE SubSeq(t, Min(solid), Max(solid))

(* Mutant: a width is a number of characters. *)
TruncateByCharacter(t, width) ==
    LET s == Strip(t) IN SubSeq(s, 1, Min({width, Len(s)}))

(* The cut falls between two characters: decode ignores the rest of one.   *)
Truncate(t, width) ==
    LET s    == Strip(t)
        fits == {k \in 0 .. Len(s) : Size[SubSeq(s, 1, k)] <= width}
    IN  SubSeq(s, 1, Max(fits))
===============================================================================
