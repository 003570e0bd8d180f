------------------------------- MODULE MCDions -------------------------------
(***************************************************************************)
(* Two parties who want the name x:                                         *)
(*    e1 -> s1 -> r1 -> u1       registered, set, updated twice             *)
(*    e2 -> s2 -> r2             the same name, by another party            *)
(***************************************************************************)
EXTENDS Dions, TLC

MCOp == [t \in {"e1", "e2"} |-> "encrypted"] @@ [t \in {"s1", "s2"} |-> "set"]
        @@ [t \in {"r1", "r2", "u1"} |-> "relay"]
MCPrev == "s1" :> "e1" @@ "r1" :> "s1" @@ "u1" :> "r1" @@ "s2" :> "e2" @@ "r2" :> "s2"
MCTx == {"e1", "s1", "r1", "e2", "s2", "r2", "u1"}
PrevOf == [t \in Tx |-> IF t \in DOMAIN MCPrev THEN MCPrev[t] ELSE NoTx]
OpOf == [t \in Tx |-> MCOp[t]]
AliasOf == [t \in Tx |-> "x"]
MCRegistered == <<"e1">>
=============================================================================
