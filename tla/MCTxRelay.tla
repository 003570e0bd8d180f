----------------------------- MODULE MCTxRelay -----------------------------
(***************************************************************************)
(* A tree of loose transactions: b spends the mined cb, a spends b, c needs *)
(* both, d needs c and a, x competes with d for an output of a and with     *)
(* nothing for one of cb.                                                   *)
(***************************************************************************)
EXTENDS TxRelay

MCTx == {"cb", "a", "b", "c", "d", "x"}
MCVin == [t \in MCTx |->
    CASE t = "cb" -> {}
      [] t = "b" -> {<<"cb", 0>>}
      [] t = "a" -> {<<"b", 0>>}
      [] t = "c" -> {<<"a", 0>>, <<"b", 1>>}
      [] t = "d" -> {<<"c", 0>>, <<"a", 1>>}
      [] t = "x" -> {<<"cb", 1>>, <<"a", 1>>}]
MCNOut == [t \in MCTx |-> 2]
=============================================================================
