------------------------------ MODULE BestChain ------------------------------
(***************************************************************************)
(* What the node promises about the chain it keeps: it learns blocks, and   *)
(* its best block only ever moves to a known block whose whole chain is     *)
(* valid, and which carries strictly more trust or is a checkpoint that the *)
(* best chain did not hold.                                                 *)
(***************************************************************************)
EXTENDS Naturals

CONSTANTS Block, Genesis, Pprev, Ancestors, Trust, Checkpoint, Valid
    \* Valid: the blocks all of whose ancestors can be connected

VARIABLES known, best

Init == known = {Genesis} /\ best = Genesis

Learn(b) ==
    /\ b \notin known
    /\ Pprev[b] \in known
    /\ known' = known \cup {b}
    /\ UNCHANGED best

Advance(b) ==
    /\ b \in known \cap Valid
    /\ Trust[b] > Trust[best]
    /\ best' = b
    /\ UNCHANGED known

Enforce(c) ==
    /\ c \in known \cap Valid \cap Checkpoint
    /\ c \notin Ancestors[best]
    /\ best' = c
    /\ UNCHANGED known

Next == \E b \in Block \ {Genesis} : Learn(b) \/ Advance(b) \/ Enforce(b)

Spec == Init /\ [][Next]_<<known, best>>
=============================================================================
