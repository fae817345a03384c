------------------------------ MODULE MCShell ------------------------------
(* Shortened spellings; like clear and crash two of them begin alike, here *)
(* even one with the other.                                                *)
EXTENDS Shell

MCWord == [help |-> <<"h">>, ps |-> <<"p", "s">>, kill |-> <<"k">>,
           echo |-> <<"e">>, clear |-> <<"c">>, crash |-> <<"c", "r">>]
=============================================================================
