---------------------------- MODULE Transactions ----------------------------
(***************************************************************************)
(* The transactions the node handles, as a fixed universe.                  *)
(*                                                                          *)
(* A transaction is a name; what the properties tell apart about it is      *)
(* which outputs it spends (CTransaction::vin), how many it creates         *)
(* (CTransaction::vout), whether it was minted (coinbase or coinstake), and *)
(* whether a check that depends only on the transaction itself refuses it.  *)
(* An output is <<transaction, position>>, the COutPoint of main.h.         *)
(***************************************************************************)
EXTENDS Naturals

CONSTANTS
    Tx,         \* transactions, named by their hash
    Vin,        \* Vin[t]: the outputs t spends; empty for a coinbase
    NOut,       \* NOut[t]: vout.size()
    CoinStake,  \* transactions for which IsCoinStake() holds
    ZeroValue,  \* outputs whose nValue is 0
    Unfit       \* transactions a check of the transaction alone refuses

OutPoint == Tx \X Nat

(* The outputs transaction t creates: positions 0 .. vout.size()-1.         *)
Outs(t) == {t} \X (0 .. NOut[t] - 1)

(* CTransaction::IsCoinBase: a single null input, so nothing is spent.      *)
IsCoinBase(t) == Vin[t] = {}

Minted(t) == IsCoinBase(t) \/ t \in CoinStake

ASSUME TransactionsAssumption ==
    /\ Vin \in [Tx -> SUBSET OutPoint]
    /\ NOut \in [Tx -> Nat]
    /\ CoinStake \subseteq {t \in Tx : Vin[t] # {}}
    /\ ZeroValue \subseteq OutPoint
    /\ Unfit \subseteq Tx

(* A transaction that is not a coinbase spends something of value: an       *)
(* ordinary one because its fee is positive (ConnectInputs: nTxFee >=       *)
(* GetMinFee()), a coinstake because its kernel carries coin age.  And no   *)
(* transaction spends its own output, a hash being unable to contain        *)
(* itself.                                                                  *)
ASSUME ValueAssumption ==
    \A t \in Tx : /\ IsCoinBase(t) \/ Vin[t] \ ZeroValue # {}
                  /\ \A o \in Vin[t] : o[1] # t

=============================================================================
