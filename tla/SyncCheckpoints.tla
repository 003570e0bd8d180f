-------------------------- MODULE SyncCheckpoints --------------------------
(***************************************************************************)
(* Checkpoints (checkpoints.cpp): the hardened checkpoints compiled into    *)
(* the node and the synchronized checkpoint that the holder of the master   *)
(* key broadcasts.  A checkpoint whose block is unknown is kept as pending  *)
(* until the block comes in.                                                *)
(*                                                                          *)
(* SetBestChain is one step here: module ChainState takes it apart.  The    *)
(* block index, the best block and hashSyncCheckpoint are changed together  *)
(* with the LevelDB commit that makes them durable.                         *)
(***************************************************************************)
EXTENDS BlockTree, FiniteSets

CONSTANTS
    Connects,  \* blocks that ConnectBlock accepts on top of their parent
    Hardened,  \* the blocks of mapCheckpoints
    Strict     \* CheckpointsMode = STRICT

(* SetBestChain either moves to the block it is called for or leaves the    *)
(* chain alone, so a block that does not connect hangs from the trunk all   *)
(* chains share; module ChainState shows what happens otherwise.  The       *)
(* hardened checkpoints were taken from one chain.                          *)
ASSUME CheckpointAssumption ==
    /\ Connects \subseteq Block
    /\ \A b \in Block \ Connects :
        /\ b # Genesis
        /\ \A a \in Block : Height[a] >= Height[Pprev[b]] => Pprev[b] \in Ancestors[a]
    /\ Genesis \in Hardened /\ Hardened \subseteq Block
    /\ \E c \in Hardened : \A d \in Hardened : Height[d] <= Height[c]
    /\ \A c, d \in Hardened : c \in Ancestors[d] \/ d \in Ancestors[c]
    /\ Strict \in BOOLEAN

VARIABLES
    mapBlockIndex,
    pindexBest,
    mapOrphanBlocks,        \* blocks kept back until their parent is known
    hashSyncCheckpoint,
    hashPendingCheckpoint,  \* NoBlock for 0
    hashInvalidCheckpoint

checkpoints == <<hashSyncCheckpoint, hashPendingCheckpoint, hashInvalidCheckpoint>>

-----------------------------------------------------------------------------
(* mapCheckpoints.rbegin(), whose height is GetTotalBlocksEstimate().       *)
LastHardened == CHOOSE c \in Hardened : \A d \in Hardened : Height[d] <= Height[c]

CheckHardened(b) == \A c \in Hardened : Height[c] = Height[b] => c = b

(* CBlockIndex::IsInMainChain                                               *)
IsInMainChain(b) == b \in Ancestors[pindexBest]

(* SetBestChain succeeds.                                                   *)
CanBeBest(b) == Ancestors[b] \ Ancestors[pindexBest] \subseteq Connects

(* WantedByOrphan: the parent of the lowest orphan reached from o.          *)
WantedByOrphan(o) ==
    LET chain == {a \in Ancestors[o] :
                    \A x \in Ancestors[o] : Height[x] >= Height[a] =>
                                              x \in mapOrphanBlocks}
        root == CHOOSE a \in chain : \A x \in chain : Height[a] <= Height[x]
    IN  Pprev[root]

WantedByPendingSyncCheckpoint(b) ==
    /\ hashPendingCheckpoint # NoBlock
    /\ \/ b = hashPendingCheckpoint
       \/ /\ hashPendingCheckpoint \in mapOrphanBlocks
          /\ b = WantedByOrphan(hashPendingCheckpoint)

(* AskForPendingSyncCheckpoint: what is asked for.                          *)
AskForPendingSyncCheckpoint ==
    {hashPendingCheckpoint} \ (mapBlockIndex \cup mapOrphanBlocks \cup {NoBlock})

(* CheckSync: only descendants of the checkpoint pass (b is not indexed).   *)
CheckSync(b) ==
    /\ Height[b] > Height[hashSyncCheckpoint] => hashSyncCheckpoint \in Ancestors[b]
    /\ Height[b] = Height[hashSyncCheckpoint] => b = hashSyncCheckpoint
    /\ Height[b] < Height[hashSyncCheckpoint] => b \in mapBlockIndex

-----------------------------------------------------------------------------
(* ValidateSyncCheckpoint: c lies on one chain with the current checkpoint; *)
(* only a higher one is let through.                                        *)
Conflicting(c) == c \notin Ancestors[hashSyncCheckpoint]
                  /\ hashSyncCheckpoint \notin Ancestors[c]

(* Mutant: a higher block is let through, whatever its chain.               *)
ValidateSyncCheckpoint_Higher(c) == Height[c] > Height[hashSyncCheckpoint]

ValidateSyncCheckpoint(c) ==
    /\ Height[c] > Height[hashSyncCheckpoint]
    /\ hashSyncCheckpoint \in Ancestors[c]

(* The steps ProcessSyncCheckpoint and AcceptPendingSyncCheckpoint share    *)
(* for an indexed block c.  It is refused ...                               *)
CheckpointInvalid(c) ==
    /\ ~ValidateSyncCheckpoint(c)
    /\ hashInvalidCheckpoint' = IF Conflicting(c) THEN c ELSE hashInvalidCheckpoint
    /\ UNCHANGED <<pindexBest, hashSyncCheckpoint>>

(* ... or the chain cannot be moved to it ...                               *)
CheckpointNotBest(c) ==
    /\ ValidateSyncCheckpoint(c)
    /\ ~IsInMainChain(c) /\ ~CanBeBest(c)
    /\ hashInvalidCheckpoint' = c
    /\ UNCHANGED <<pindexBest, hashSyncCheckpoint, hashPendingCheckpoint>>

(* Mutant: the chain is not moved to the checkpoint.                        *)
CheckpointBest_Stay(c) ==
    /\ ValidateSyncCheckpoint(c)
    /\ IsInMainChain(c) \/ CanBeBest(c)
    /\ UNCHANGED <<pindexBest, checkpoints>>

(* ... or it is, whatever its trust, and the checkpoint can be written.     *)
CheckpointBest(c) ==
    /\ ValidateSyncCheckpoint(c)
    /\ \/ IsInMainChain(c) /\ UNCHANGED pindexBest
       \/ ~IsInMainChain(c) /\ CanBeBest(c) /\ pindexBest' = c
    /\ UNCHANGED checkpoints

(* WriteSyncCheckpoint, and what its two callers do after it.               *)
WriteSyncCheckpoint(c) ==
    /\ hashSyncCheckpoint' = c
    /\ hashPendingCheckpoint' = NoBlock
    /\ UNCHANGED <<pindexBest, hashInvalidCheckpoint>>

=============================================================================
