------------------------------ MODULE MCDoctor ------------------------------
(* An instance of Doctor for TLC. *)
EXTENDS Doctor

(* Issues without history, with entries of one time, of two, and as a      *)
(* Cloud server shows them.                                                *)
FourLooks ==
    {[hist |-> <<>>, user |-> "none", custom |-> FALSE],
     [hist |-> << <<1, 1>>, <<2, 1>> >>, user |-> "none", custom |-> TRUE],
     [hist |-> << <<1, 1>>, <<2, 2>> >>, user |-> "key", custom |-> FALSE],
     [hist |-> << <<1, 1>>, <<2, 2>>, <<3, 3>> >>, user |-> "accountId", custom |-> FALSE]}

(* Of each kind but the sequences, which are read like views: an object, a *)
(* number column, and an index in a comment.                               *)
SomeDdl ==
    {[kind |-> "table", name |-> "T", of |-> "", width |-> 0, remark |-> FALSE],
     [kind |-> "column", name |-> "T.TEXT", of |-> "T", width |-> 2, remark |-> FALSE],
     [kind |-> "column", name |-> "T.NUM", of |-> "T", width |-> 0, remark |-> FALSE],
     [kind |-> "index", name |-> "IX", of |-> "", width |-> 0, remark |-> FALSE],
     [kind |-> "index", name |-> "IY", of |-> "", width |-> 0, remark |-> TRUE],
     [kind |-> "constraint", name |-> "CK", of |-> "", width |-> 0, remark |-> FALSE],
     [kind |-> "view", name |-> "V", of |-> "", width |-> 0, remark |-> FALSE]}
=============================================================================
