---------------------------- MODULE MCBlockRelay ----------------------------
(***************************************************************************)
(* Block trees for BlockRelay, cut from this one:                           *)
(*                                                                          *)
(*   G - P -+- A1 - A2            A1 and B1 carry the same proof of stake,  *)
(*          +- B1 - B2 -+- B3     and so do A2 and B2, and B3 and C3;       *)
(*          |           +- C3 - C4   A1 is much older than B2.              *)
(*          +- Q                                                            *)
(*          +- X - Y                                                        *)
(***************************************************************************)
EXTENDS BlockRelay, TLC

Tree == "P" :> "G" @@ "A1" :> "P" @@ "A2" :> "A1" @@ "B1" :> "P" @@ "B2" :> "B1"
        @@ "B3" :> "B2" @@ "C3" :> "B2" @@ "C4" :> "C3" @@ "Q" :> "P"
        @@ "X" :> "P" @@ "Y" :> "X"
Above == "G" :> {} @@ "P" :> {"G"}
    @@ [b \in {"A1", "B1", "Q", "X"} |-> {"G", "P"}] @@ "A2" :> {"G", "P", "A1"}
    @@ "Y" :> {"G", "P", "X"} @@ "B2" :> {"G", "P", "B1"}
    @@ [b \in {"B3", "C3"} |-> {"G", "P", "B1", "B2"}]
    @@ "C4" :> {"G", "P", "B1", "B2", "C3"}
TrustOf == "G" :> 0 @@ "P" :> 1 @@ "A1" :> 2 @@ "B1" :> 2 @@ "A2" :> 4
    @@ "B2" :> 5 @@ "X" :> 6 @@ "Q" :> 6 @@ "Y" :> 7 @@ "C3" :> 8 @@ "B3" :> 8
    @@ "C4" :> 9
StakeOf == [b \in {"A1", "B1"} |-> "k1"] @@ [b \in {"A2", "B2"} |-> "k2"]
    @@ [b \in {"B3", "C3"} |-> "k3"] @@ [b \in {"G", "P", "Q", "X", "Y", "C4"} |-> "none"]
TimeOf == "A1" :> 2 @@ "B1" :> 5 @@ [b \in DOMAIN Above |-> 2 * Cardinality(Above[b])]

(* Two branches and a block that does not connect; a hardened checkpoint    *)
(* beside a heavier block and one that does not connect.                    *)
RelayBlock == {"G", "P", "A1", "A2", "B1", "B2", "X", "Y"}
ResetBlock == {"G", "P", "A1", "B1", "B2", "B3", "C3", "C4", "Q", "X"}

MCPprev == [b \in Block \ {"G"} |-> Tree[b]]
MCAncestors == [b \in Block |-> Above[b] \cup {b}]
MCHeight == [b \in Block |-> Cardinality(Above[b])]
MCTrust == [b \in Block |-> TrustOf[b]]
MCStake == [b \in Block |-> StakeOf[b]]
MCTime == [b \in Block |-> TimeOf[b]]
=============================================================================
