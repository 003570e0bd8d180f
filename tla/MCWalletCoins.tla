--------------------------- MODULE MCWalletCoins ---------------------------
(***************************************************************************)
(* A chain with three branches above a coinbase that pays the wallet:       *)
(*                                                                          *)
(*   G - P - Q -+- A2 - A3    cb (in P) has two outputs; a spends cb.0 and  *)
(*              +- B2 - B3    pays change to the wallet, which b, c or d    *)
(*              +- C2 - C3    spends, d with cb.1; s1 and s2 stake cb.1.    *)
(*                            C3 is invalid.                                *)
(*                                                                          *)
(* z (in Q) and x, y and p, which spend it, pay the wallet no value: z and x*)
(* pay it an output without value, x as a DION transaction, y is recognised *)
(* by __xfa, p by collx, perhaps.                                           *)
(***************************************************************************)
EXTENDS WalletCoins, TLC

MCTx == {"cb", "a", "b", "c", "d", "s1", "s2", "z", "x", "y", "p"}
MCVin == "cb" :> {} @@ "a" :> {<<"cb", 0>>} @@ "d" :> {<<"a", 0>>, <<"cb", 1>>}
    @@ [t \in {"b", "c"} |-> {<<"a", 0>>}] @@ [t \in {"s1", "s2"} |-> {<<"cb", 1>>}]
    @@ "z" :> {<<"cb", 2>>} @@ "y" :> {<<"z", 2>>}
    @@ [t \in {"x", "p"} |-> {<<"z", 0>>, <<"z", 1>>}]
MCNOut == [t \in MCTx |-> CASE t \in {"cb", "z"} -> 3 [] t \in {"s1", "s2"} -> 2 [] OTHER -> 1]
MCZeroValue == {<<"s1", 0>>, <<"s2", 0>>, <<"z", 0>>, <<"x", 0>>}
MCMine == {<<"cb", 0>>, <<"cb", 1>>, <<"a", 0>>, <<"b", 0>>, <<"s1", 1>>, <<"s2", 1>>,
           <<"z", 0>>, <<"x", 0>>}

Tree == "P" :> "G" @@ "Q" :> "P" @@ "A2" :> "Q" @@ "B2" :> "Q" @@ "C2" :> "Q"
        @@ "A3" :> "A2" @@ "B3" :> "B2" @@ "C3" :> "C2"
MCBlock == DOMAIN Tree \cup {"G"}
MCAncestors == [b \in MCBlock |->
    CASE b = "G" -> {"G"} [] b = "P" -> {"G", "P"} [] b = "Q" -> {"G", "P", "Q"}
      [] b \in {"A2", "B2", "C2"} -> {"G", "P", "Q", b}
      [] OTHER -> {"G", "P", "Q", Tree[b], b}]
MCHeight == [b \in MCBlock |-> Cardinality(MCAncestors[b]) - 1]
MCTrust == "G" :> 0 @@ "P" :> 1 @@ "Q" :> 2 @@ "A2" :> 4 @@ "B2" :> 3 @@ "C2" :> 3
        @@ "A3" :> 6 @@ "B3" :> 7 @@ "C3" :> 9
MCVtx == "P" :> <<"cb">> @@ "Q" :> <<"z">> @@ "A2" :> <<"s1", "a">> @@ "A3" :> <<"b", "x">>
        @@ "B2" :> <<"a", "c">> @@ "B3" :> <<"p">> @@ "C2" :> <<"a", "s2", "y">>
        @@ [b \in {"G", "C3"} |-> <<>>]
=============================================================================
