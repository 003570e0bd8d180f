---------------------------- MODULE MCChainState ----------------------------
(***************************************************************************)
(* A block tree for ChainState, small, but with reorganisations of up to    *)
(* three blocks each way between branches that fight over the same outputs. *)
(*                                                                          *)
(*   G - P -+- A1 -+- A2 --- A3       P's coinbase cb has outputs 0, 1 of   *)
(*          |      +- C2 --- C3       value and output 2 of none.           *)
(*          +- B1 --- B2 --- B3 --- B4 --- B5                               *)
(*                                                                          *)
(* t1 (in A1) and x1 (in B1) spend cb.0; t1 and t2 (in A2 and in C3) both   *)
(* spend the valueless cb.2; u is mined on every branch; v spends what A2   *)
(* minted; B4 may spend cb.0 a second time.                                 *)
(***************************************************************************)
EXTENDS ChainState, TLC

MCTx == {"cb", "ca", "t1", "t2", "x1", "x2", "xx", "u", "v"}
MCVin == [t \in MCTx |->
    CASE t \in {"cb", "ca"} -> {}
      [] t = "t1" -> {<<"cb", 0>>, <<"cb", 2>>}
      [] t = "t2" -> {<<"t1", 0>>, <<"cb", 2>>}
      [] t = "x1" -> {<<"cb", 0>>}
      [] t = "x2" -> {<<"x1", 0>>}
      [] t = "xx" -> {<<"cb", 0>>, <<"x2", 0>>}
      [] t = "u"  -> {<<"cb", 1>>}
      [] t = "v"  -> {<<"ca", 0>>, <<"u", 0>>}]
MCNOut == [t \in MCTx |-> IF t = "cb" THEN 3 ELSE 1]
MCZeroValue == {<<"cb", 2>>}

MCBlock == {"G", "P", "A1", "A2", "A3", "B1", "B2", "B3", "B4", "B5",
            "C2", "C3"}
MCPprev == [b \in MCBlock \ {"G"} |->
    CASE b = "P" -> "G"  [] b = "A1" -> "P"  [] b = "B1" -> "P"
      [] b = "A2" -> "A1" [] b = "A3" -> "A2" [] b = "C2" -> "A1"
      [] b = "C3" -> "C2" [] b = "B2" -> "B1" [] b = "B3" -> "B2"
      [] b = "B4" -> "B3" [] b = "B5" -> "B4"]
MCAncestors == [b \in MCBlock |-> {b} \cup
    CASE b \in {"G", "P"}   -> {"G"}
      [] b \in {"A1", "B1"} -> {"G", "P"}
      [] b \in {"A2", "C2"} -> {"G", "P", "A1"}
      [] b = "A3" -> {"G", "P", "A1", "A2"}
      [] b = "C3" -> {"G", "P", "A1", "C2"}
      [] b = "B2" -> {"G", "P", "B1"}
      [] b = "B3" -> {"G", "P", "B1", "B2"}
      [] b = "B4" -> {"G", "P", "B1", "B2", "B3"}
      [] b = "B5" -> {"G", "P", "B1", "B2", "B3", "B4"}]
MCHeight == [b \in MCBlock |-> Cardinality(MCAncestors[b]) - 1]
MCTrust == [b \in MCBlock |->
    CASE b = "G" -> 0  [] b = "P" -> 1  [] b = "A1" -> 2 [] b = "B1" -> 2
      [] b = "A2" -> 4 [] b = "B2" -> 5 [] b = "C2" -> 6 [] b = "A3" -> 7
      [] b = "B3" -> 8 [] b = "C3" -> 9 [] b = "B4" -> 10
      [] b = "B5" -> 11]
MCVtx == [b \in MCBlock |->
    CASE b = "P"  -> <<"cb">>       [] b = "A1" -> <<"t1">>
      [] b = "A2" -> <<"ca", "t2">> [] b = "A3" -> <<"u", "v">>
      [] b = "C2" -> <<"u">>        [] b = "B1" -> <<"x1">>
      [] b = "B2" -> <<"u">>        [] b = "B3" -> <<"x2">>
      [] b = "C3" -> <<"t2">>       [] b = "B4" -> <<"xx">>
      [] OTHER -> <<>>]

(* The tree without the double spend.                                       *)
ValidVtx == [MCVtx EXCEPT !["B4"] = <<>>]
=============================================================================
