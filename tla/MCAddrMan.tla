----------------------------- MODULE MCAddrMan -----------------------------
(***************************************************************************)
(* Three addresses, one of them with two ports, heard of from two sources.   *)
(* With source "p" all three fall into new bucket 0; two share the only      *)
(* tried bucket when TriedBucketSize is 1.  A tick is a day.                 *)
(***************************************************************************)
EXTENDS AddrMan

MCNet == [s \in {"a", "a2", "b", "c"} |-> IF s = "a2" THEN "a" ELSE s]
MCNewBucketOf == [a \in {"a", "b", "c"} |->
                    [src \in {"p", "q"} |-> IF src = "p" \/ a = "c" THEN 0 ELSE 1]]
MCNews == {<<"a", "p">>, <<"a2", "q">>, <<"b", "p">>, <<"b", "q">>, <<"c", "p">>}
MCTriedBucketOf == [s \in {"a", "a2", "b", "c"} |-> 0]
=============================================================================
