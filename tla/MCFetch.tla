------------------------------- MODULE MCFetch -------------------------------
EXTENDS Fetch
Short == [i \in Issues |-> 1]
OneLong == [i \in Issues |-> IF i = 1 THEN 4 ELSE 1]
=============================================================================
