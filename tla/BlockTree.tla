------------------------------ MODULE BlockTree ------------------------------
(***************************************************************************)
(* The blocks the node may hear of, as a fixed tree: CBlockIndex (main.h)   *)
(* without the fields that change.  Null pointers are NoBlock.              *)
(***************************************************************************)
EXTENDS Naturals, Sequences

CONSTANTS
    Block,      \* blocks, named by their hash
    NoBlock,
    Genesis,
    Pprev,      \* Pprev[b]: hashPrevBlock
    Ancestors,  \* Ancestors[b]: b and all that pprev reaches from it
    Height,     \* nHeight
    Trust       \* nChainTrust

ASSUME BlockTreeAssumption ==
    /\ Genesis \in Block /\ NoBlock \notin Block
    /\ Pprev \in [Block \ {Genesis} -> Block]
    /\ Ancestors \in [Block -> SUBSET Block]
    /\ Height \in [Block -> Nat]
    /\ Trust \in [Block -> Nat]

(* Ancestors is the closure of Pprev; AddToBlockIndex sets nHeight to       *)
(* pprev->nHeight + 1 and adds GetBlockTrust(), which is positive for every *)
(* target CheckProofOfWork or the stake check lets through.                 *)
ASSUME PprevAssumption ==
    /\ Ancestors[Genesis] = {Genesis}
    /\ Height[Genesis] = 0
    /\ \A b \in Block \ {Genesis} :
        /\ Ancestors[b] = Ancestors[Pprev[b]] \cup {b}
        /\ Height[b] = Height[Pprev[b]] + 1
        /\ Trust[b] > Trust[Pprev[b]]

-----------------------------------------------------------------------------
(* The ancestor of b at height h, and the blocks above `low' up to `high',  *)
(* from the highest down.                                                   *)
AncestorAt(b, h) == CHOOSE a \in Ancestors[b] : Height[a] = h

PathDown(high, low) ==
    [i \in 1 .. Height[high] - Height[low] |->
        AncestorAt(high, Height[high] + 1 - i)]

PathUp(high, low) ==
    [i \in 1 .. Height[high] - Height[low] |->
        AncestorAt(high, Height[low] + i)]

(* Reorganize, "Find the fork": the highest block both chains hold.         *)
Fork(a, b) ==
    CHOOSE f \in Ancestors[a] \cap Ancestors[b] :
        \A g \in Ancestors[a] \cap Ancestors[b] : Height[g] <= Height[f]

(* SetBestChain: where walking down from b stops, the lowest block reached  *)
(* while the parent carries more trust than the best block.                 *)
Intermediate(b, best) ==
    CHOOSE m \in Ancestors[b] :
        /\ m = Genesis \/ Trust[Pprev[m]] <= Trust[best]
        /\ \A a \in Ancestors[b] : Height[a] > Height[m] =>
                                        Trust[Pprev[a]] > Trust[best]
=============================================================================
