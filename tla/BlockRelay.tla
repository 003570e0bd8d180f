----------------------------- MODULE BlockRelay -----------------------------
(***************************************************************************)
(* How blocks come in (main.cpp: ProcessBlock, AcceptBlock and the "block"  *)
(* and "checkpoint" messages), with the blocks kept back until their parent *)
(* is known (mapOrphanBlocks), the limit of one block per proof of stake,   *)
(* and the synchronized checkpoints of module SyncCheckpoints.              *)
(*                                                                          *)
(* A message is handled under cs_main from beginning to end.  Its steps are *)
(* separate where the process can die between two LevelDB commits and where *)
(* a loop meets the orphans in an order nothing fixes.                      *)
(***************************************************************************)
EXTENDS SyncCheckpoints

CONSTANTS
    Stake,            \* Stake[b]: GetProofOfStake(), NoStake for proof of work
    NoStake,
    Time,             \* nTime
    Drift,            \* how much older than the checkpoint a block may be: 10*60
    CheckFails,       \* blocks CheckBlock refuses
    AcceptFails,      \* blocks a test of AcceptBlock on the block and its
                      \* ancestors refuses
    Doubtful,         \* blocks whose proof of stake may fail to verify now
    InitialDownload,  \* what the clock lets IsInitialBlockDownload() return
    Signed,           \* blocks the master key signs a checkpoint for
    MaxRestarts       \* bound on the number of restarts explored

ASSUME BlockRelayAssumption ==
    /\ DOMAIN Stake = Block /\ Stake[Genesis] = NoStake
    /\ Time \in [Block -> Nat] /\ Drift \in Nat
    /\ CheckFails \subseteq Block /\ AcceptFails \subseteq Block /\ Doubtful \subseteq Block
    /\ InitialDownload \in SUBSET BOOLEAN \ {{}}
    /\ Signed \subseteq Block /\ MaxRestarts \in Nat

(* The holder of the master key signs blocks of the chain the hardened      *)
(* checkpoints were taken from (AutoSelectSyncCheckpoint).                  *)
ASSUME SignedAssumption ==
    \A c \in Signed, h \in Hardened : c \in Ancestors[h] \/ h \in Ancestors[c]

VARIABLES
    mapOrphanBlocksByPrev,  \* the multimap, as the set of its blocks
    setStakeSeen, setStakeSeenOrphan,
    asked,                  \* blocks requested with AskFor, not yet delivered
    pc,
    block,                  \* the block AcceptBlock works on
    vWorkQueue, i, waiting, \* ProcessBlock's loop over the orphans
    hashCheckpoint,         \* the checkpoint about to be written
    restarts

orphans == <<mapOrphanBlocks, mapOrphanBlocksByPrev, setStakeSeenOrphan>>
loop == <<vWorkQueue, i, waiting>>
vars == <<mapBlockIndex, pindexBest, orphans, checkpoints, setStakeSeen, asked,
          pc, block, loop, hashCheckpoint, restarts>>

Children(b) == {o \in mapOrphanBlocksByPrev : Pprev[o] = b}
StakesOf(B) == {Stake[b] : b \in B} \ {NoStake}

(* The first start of the node: LoadBlockIndex makes the genesis block      *)
(* best and ResetSyncCheckpoint waits for the last hardened checkpoint.     *)
Init ==
    /\ mapBlockIndex = {Genesis} /\ pindexBest = Genesis
    /\ mapOrphanBlocks = {} /\ mapOrphanBlocksByPrev = {}
    /\ setStakeSeen = {} /\ setStakeSeenOrphan = {}
    /\ hashSyncCheckpoint = Genesis
    /\ hashPendingCheckpoint = IF LastHardened = Genesis THEN NoBlock ELSE LastHardened
    /\ hashInvalidCheckpoint = NoBlock
    /\ asked = {} /\ pc = "idle" /\ block = NoBlock
    /\ vWorkQueue = <<>> /\ i = 1 /\ waiting = {}
    /\ hashCheckpoint = NoBlock /\ restarts = 0

-----------------------------------------------------------------------------
(* The early returns of ProcessBlock.                                       *)
AlreadyHave(b) == b \in mapBlockIndex \cup mapOrphanBlocks

(* Mutant: an orphan child does not excuse a duplicate.                     *)
Duplicate_Always(b, seen) ==
    Stake[b] \in seen \ {NoStake} /\ ~WantedByPendingSyncCheckpoint(b)

(* A proof of stake seen before, and no excuse for the duplicate.           *)
Duplicate(b, seen) ==
    /\ Stake[b] \in seen \ {NoStake}
    /\ Children(b) = {}
    /\ ~WantedByPendingSyncCheckpoint(b)

(* "block with timestamp before last checkpoint"                            *)
TooOld(b) ==
    /\ Pprev[b] # pindexBest
    /\ ~WantedByPendingSyncCheckpoint(b)
    /\ Time[b] + Drift < Time[hashSyncCheckpoint]

Refused(b) == \/ AlreadyHave(b) \/ Duplicate(b, setStakeSeen) \/ TooOld(b)
              \/ b \in CheckFails

(* IsInitialBlockDownload()                                                 *)
IsInitialBlockDownload ==
    IF Height[pindexBest] < Height[LastHardened] THEN {TRUE} ELSE InitialDownload

-----------------------------------------------------------------------------
(* "block", refused at once.                                                *)
ReceiveRefused(b) ==
    /\ pc = "idle" /\ b \in asked
    /\ Refused(b)
    /\ asked' = asked \ {b}
    /\ UNCHANGED <<mapBlockIndex, pindexBest, orphans, checkpoints, setStakeSeen,
                   pc, block, loop, hashCheckpoint, restarts>>

(* "block", an orphan with the proof of stake of another orphan.            *)
ReceiveDuplicateOrphan(b) ==
    /\ pc = "idle" /\ ~Refused(b)
    /\ Pprev[b] \notin mapBlockIndex
    /\ Duplicate(b, setStakeSeenOrphan)
    /\ \E initial \in IsInitialBlockDownload :
        asked' = (asked \ {b}) \cup
                    (IF initial THEN {} ELSE AskForPendingSyncCheckpoint)
    /\ UNCHANGED <<mapBlockIndex, pindexBest, orphans, checkpoints, setStakeSeen,
                   pc, block, loop, hashCheckpoint, restarts>>

(* "block", its parent unknown: "shunt it off to holding area until we get  *)
(* it", and ask for what it waits for.                                      *)
ReceiveOrphan(b) ==
    /\ pc = "idle" /\ ~Refused(b)
    /\ Pprev[b] \notin mapBlockIndex
    /\ ~Duplicate(b, setStakeSeenOrphan)
    /\ setStakeSeenOrphan' = setStakeSeenOrphan \cup StakesOf({b})
    /\ mapOrphanBlocks' = mapOrphanBlocks \cup {b}
    /\ mapOrphanBlocksByPrev' = mapOrphanBlocksByPrev \cup {b}
    /\ \E initial \in IsInitialBlockDownload :
        asked' = (asked \ {b}) \cup
            IF initial THEN {}
            ELSE AskForPendingSyncCheckpoint \cup {WantedByOrphan(b)'}
    /\ UNCHANGED <<mapBlockIndex, pindexBest, checkpoints, setStakeSeen, pc, block,
                   loop, hashCheckpoint, restarts>>

(* "block", its parent known: on to AcceptBlock.                            *)
Receive(b) ==
    /\ pc = "idle" /\ ~Refused(b)
    /\ Pprev[b] \in mapBlockIndex
    /\ \E initial \in IsInitialBlockDownload :
        asked' = (asked \ {b}) \cup
                    (IF initial THEN {} ELSE AskForPendingSyncCheckpoint)
    /\ block' = b /\ pc' = "accept"
    /\ UNCHANGED <<mapBlockIndex, pindexBest, orphans, checkpoints, setStakeSeen,
                   loop, hashCheckpoint, restarts>>

-----------------------------------------------------------------------------
(* ProcessBlock, when AcceptBlock returns.  The received block itself is    *)
(* the first entry of the work queue; an orphan is erased either way, but   *)
(* stays in the multimap until its parent's turn ends.                      *)
FromPeer == vWorkQueue = <<>>

EraseOrphan ==
    /\ mapOrphanBlocks' = mapOrphanBlocks \ {block}
    /\ setStakeSeenOrphan' = setStakeSeenOrphan \ {Stake[block]}
    /\ UNCHANGED mapOrphanBlocksByPrev

(* Mutant: an orphan that is refused keeps its claim on the proof of stake. *)
AcceptBlockFailed_KeepStake ==
    /\ block' = NoBlock
    /\ IF FromPeer
         THEN pc' = "idle" /\ UNCHANGED orphans
         ELSE /\ pc' = "loop" /\ mapOrphanBlocks' = mapOrphanBlocks \ {block}
              /\ UNCHANGED <<mapOrphanBlocksByPrev, setStakeSeenOrphan>>
    /\ UNCHANGED <<asked, loop, hashCheckpoint, restarts>>

AcceptBlockFailed ==
    /\ block' = NoBlock
    /\ IF FromPeer THEN pc' = "idle" /\ UNCHANGED orphans
                   ELSE pc' = "loop" /\ EraseOrphan
    /\ UNCHANGED <<asked, loop, hashCheckpoint, restarts>>

AcceptBlockDone ==
    /\ block' = NoBlock /\ pc' = "loop"
    /\ vWorkQueue' = Append(vWorkQueue, block)
    /\ IF FromPeer THEN waiting' = Children(block) /\ UNCHANGED orphans
                   ELSE EraseOrphan /\ UNCHANGED waiting
    /\ UNCHANGED <<asked, i, hashCheckpoint, restarts>>

(* AcceptBlock's tests.                                                     *)
Acceptable(b) ==
    /\ b \notin mapBlockIndex /\ Pprev[b] \in mapBlockIndex
    /\ b \notin AcceptFails
    /\ CheckHardened(b)
    /\ Strict => CheckSync(b)

AcceptBlockFails ==
    /\ pc = "accept"
    /\ ~Acceptable(block) \/ block \in Doubtful
    /\ AcceptBlockFailed
    /\ UNCHANGED <<mapBlockIndex, pindexBest, checkpoints, setStakeSeen>>

(* WriteToDisk and AddToBlockIndex, up to the commit of the index record.   *)
AddToBlockIndex ==
    /\ pc = "accept" /\ Acceptable(block)
    /\ mapBlockIndex' = mapBlockIndex \cup {block}
    /\ setStakeSeen' = setStakeSeen \cup StakesOf({block})
    /\ pc' = IF Trust[block] > Trust[pindexBest] THEN "best" ELSE "pending"
    /\ UNCHANGED <<pindexBest, orphans, checkpoints, asked, block, loop,
                   hashCheckpoint, restarts>>

SetBestChain ==
    /\ pc = "best" /\ CanBeBest(block)
    /\ pindexBest' = block
    /\ pc' = "pending"
    /\ UNCHANGED <<mapBlockIndex, orphans, checkpoints, setStakeSeen, asked, block,
                   loop, hashCheckpoint, restarts>>

(* The block stays in the index, but its orphan children are not looked at. *)
SetBestChainFails ==
    /\ pc = "best" /\ ~CanBeBest(block)
    /\ AcceptBlockFailed
    /\ UNCHANGED <<mapBlockIndex, pindexBest, checkpoints, setStakeSeen>>

(* AcceptPendingSyncCheckpoint, whose result AcceptBlock ignores.           *)
PendingKnown == hashPendingCheckpoint \in mapBlockIndex

(* Mutant: a pending checkpoint is left to the next "checkpoint" message.   *)
AcceptPendingSyncCheckpoint_Never ==
    /\ pc = "pending"
    /\ UNCHANGED <<pindexBest, checkpoints>> /\ AcceptBlockDone
    /\ UNCHANGED <<mapBlockIndex, setStakeSeen>>

AcceptPendingSyncCheckpoint ==
    /\ pc = "pending"
    /\ \/ ~PendingKnown /\ UNCHANGED <<pindexBest, checkpoints>> /\ AcceptBlockDone
       \/ /\ PendingKnown /\ CheckpointInvalid(hashPendingCheckpoint)
          /\ hashPendingCheckpoint' = NoBlock /\ AcceptBlockDone
       \/ PendingKnown /\ CheckpointNotBest(hashPendingCheckpoint) /\ AcceptBlockDone
       \/ /\ PendingKnown /\ CheckpointBest(hashPendingCheckpoint)
          /\ hashCheckpoint' = hashPendingCheckpoint /\ pc' = "write"
          /\ UNCHANGED <<orphans, asked, block, loop, restarts>>
    /\ UNCHANGED <<mapBlockIndex, setStakeSeen>>

-----------------------------------------------------------------------------
(* "checkpoint": ProcessSyncCheckpoint, the block of c unknown.             *)
ProcessSyncCheckpointPending(c) ==
    /\ pc = "idle" /\ c \notin mapBlockIndex
    /\ hashPendingCheckpoint' = c
    /\ asked' = asked \cup
                {IF c \in mapOrphanBlocks THEN WantedByOrphan(c) ELSE c}
    /\ UNCHANGED <<mapBlockIndex, pindexBest, orphans, hashSyncCheckpoint,
                   hashInvalidCheckpoint, setStakeSeen, pc, block, loop,
                   hashCheckpoint, restarts>>

(* "checkpoint": ProcessSyncCheckpoint, the block of c known.               *)
ProcessSyncCheckpoint(c) ==
    /\ pc = "idle" /\ c \in mapBlockIndex
    /\ \/ /\ CheckpointInvalid(c) \/ CheckpointNotBest(c)
          /\ UNCHANGED <<hashPendingCheckpoint, pc, hashCheckpoint>>
       \/ CheckpointBest(c) /\ hashCheckpoint' = c /\ pc' = "write"
    /\ UNCHANGED <<mapBlockIndex, orphans, setStakeSeen, asked, block, loop, restarts>>

(* WriteSyncCheckpoint for either caller.                                   *)
Write ==
    /\ pc = "write"
    /\ WriteSyncCheckpoint(hashCheckpoint)
    /\ hashCheckpoint' = NoBlock
    /\ IF block # NoBlock
         THEN /\ block' = NoBlock /\ pc' = "loop"
              /\ vWorkQueue' = Append(vWorkQueue, block)
              /\ IF FromPeer THEN waiting' = Children(block) /\ UNCHANGED orphans
                             ELSE EraseOrphan /\ UNCHANGED waiting
         ELSE pc' = "idle" /\ UNCHANGED <<block, orphans, vWorkQueue, waiting>>
    /\ UNCHANGED <<mapBlockIndex, setStakeSeen, asked, i, restarts>>

-----------------------------------------------------------------------------
(* "Recursively process any orphan blocks that depended on this one"        *)
NextOrphan(o) ==
    /\ pc = "loop" /\ o \in waiting
    /\ waiting' = waiting \ {o}
    /\ block' = o /\ pc' = "accept"
    /\ UNCHANGED <<mapBlockIndex, pindexBest, orphans, checkpoints, setStakeSeen,
                   asked, vWorkQueue, i, hashCheckpoint, restarts>>

(* Mutant: processed orphans are left in the multimap.                      *)
NextInQueue_KeepEntries ==
    /\ pc = "loop" /\ waiting = {}
    /\ IF i < Len(vWorkQueue)
         THEN /\ i' = i + 1 /\ waiting' = Children(vWorkQueue[i + 1])
              /\ UNCHANGED <<pc, vWorkQueue>>
         ELSE pc' = "idle" /\ vWorkQueue' = <<>> /\ i' = 1 /\ UNCHANGED waiting
    /\ UNCHANGED <<mapBlockIndex, pindexBest, orphans, checkpoints, setStakeSeen,
                   asked, block, hashCheckpoint, restarts>>

(* Mutant: the orphans of the first block are the only ones processed.      *)
NextInQueue_FirstOnly ==
    /\ pc = "loop" /\ waiting = {}
    /\ mapOrphanBlocksByPrev' = mapOrphanBlocksByPrev \ Children(vWorkQueue[i])
    /\ pc' = "idle" /\ vWorkQueue' = <<>> /\ i' = 1
    /\ UNCHANGED <<mapBlockIndex, pindexBest, mapOrphanBlocks, setStakeSeenOrphan,
                   checkpoints, setStakeSeen, asked, block, waiting,
                   hashCheckpoint, restarts>>

NextInQueue ==
    /\ pc = "loop" /\ waiting = {}
    /\ mapOrphanBlocksByPrev' = mapOrphanBlocksByPrev \ Children(vWorkQueue[i])
    /\ IF i < Len(vWorkQueue)
         THEN /\ i' = i + 1 /\ waiting' = Children(vWorkQueue[i + 1])
              /\ UNCHANGED <<pc, vWorkQueue>>
         ELSE pc' = "idle" /\ vWorkQueue' = <<>> /\ i' = 1 /\ UNCHANGED waiting
    /\ UNCHANGED <<mapBlockIndex, pindexBest, mapOrphanBlocks, setStakeSeenOrphan,
                   checkpoints, setStakeSeen, asked, block, hashCheckpoint, restarts>>

-----------------------------------------------------------------------------
(* "version": a peer has connected; the pending checkpoint is asked for.    *)
Version ==
    /\ pc = "idle" /\ FALSE \in IsInitialBlockDownload
    /\ asked' = asked \cup AskForPendingSyncCheckpoint
    /\ UNCHANGED <<mapBlockIndex, pindexBest, orphans, checkpoints, setStakeSeen,
                   pc, block, loop, hashCheckpoint, restarts>>

-----------------------------------------------------------------------------
(* Mutant: the stakes of the stored blocks are not read back.               *)
Restart_NoStakes ==
    /\ restarts < MaxRestarts
    /\ restarts' = restarts + 1
    /\ setStakeSeen' = {}
    /\ mapOrphanBlocks' = {} /\ mapOrphanBlocksByPrev' = {}
    /\ setStakeSeenOrphan' = {} /\ asked' = {}
    /\ hashPendingCheckpoint' = NoBlock /\ hashInvalidCheckpoint' = NoBlock
    /\ pc' \in {"idle", "reset"}
    /\ block' = NoBlock /\ vWorkQueue' = <<>> /\ i' = 1 /\ waiting' = {}
    /\ hashCheckpoint' = NoBlock
    /\ UNCHANGED <<mapBlockIndex, pindexBest, hashSyncCheckpoint>>

(* The process dies and starts again.  LoadBlockIndex reads the index, the  *)
(* best block and the checkpoint back; a master key that differs from the   *)
(* stored one leads to ResetSyncCheckpoint.                                 *)
Restart ==
    /\ restarts < MaxRestarts
    /\ restarts' = restarts + 1
    /\ setStakeSeen' = StakesOf(mapBlockIndex)
    /\ mapOrphanBlocks' = {} /\ mapOrphanBlocksByPrev' = {}
    /\ setStakeSeenOrphan' = {} /\ asked' = {}
    /\ hashPendingCheckpoint' = NoBlock /\ hashInvalidCheckpoint' = NoBlock
    /\ pc' \in {"idle", "reset"}
    /\ block' = NoBlock /\ vWorkQueue' = <<>> /\ i' = 1 /\ waiting' = {}
    /\ hashCheckpoint' = NoBlock
    /\ UNCHANGED <<mapBlockIndex, pindexBest, hashSyncCheckpoint>>

(* ResetSyncCheckpoint: move to the last hardened checkpoint or wait for it *)
(* ...                                                                      *)
ResetSyncCheckpoint ==
    /\ pc = "reset"
    /\ \/ /\ LastHardened \in mapBlockIndex /\ IsInMainChain(LastHardened)
          /\ UNCHANGED <<pindexBest, hashPendingCheckpoint>>
       \/ /\ LastHardened \in mapBlockIndex /\ ~IsInMainChain(LastHardened)
          /\ CanBeBest(LastHardened)
          /\ pindexBest' = LastHardened /\ UNCHANGED hashPendingCheckpoint
       \/ /\ LastHardened \notin mapBlockIndex
          /\ hashPendingCheckpoint' = LastHardened /\ UNCHANGED pindexBest
    /\ \E c \in Hardened \cap Ancestors[pindexBest'] :
        /\ \A d \in Hardened \cap Ancestors[pindexBest'] : Height[d] <= Height[c]
        /\ hashCheckpoint' = c
    /\ pc' = "rewrite"
    /\ UNCHANGED <<mapBlockIndex, orphans, hashSyncCheckpoint,
                   hashInvalidCheckpoint, setStakeSeen, asked, block, loop, restarts>>

(* ... or fail, because the block cannot be read or SetBestChain refuses:   *)
(* LoadBlockIndex returns false and the process ends.  The new master key   *)
(* is stored by then, so that the next start resets nothing.                *)
ResetFails ==
    /\ pc = "reset"
    /\ LastHardened \in mapBlockIndex /\ ~IsInMainChain(LastHardened)
    /\ pc' = "down"
    /\ UNCHANGED <<mapBlockIndex, pindexBest, orphans, checkpoints, setStakeSeen,
                   asked, block, loop, hashCheckpoint, restarts>>

(* ... and write the highest hardened checkpoint of the main chain.         *)
ResetWrite ==
    /\ pc = "rewrite"
    /\ hashSyncCheckpoint' = hashCheckpoint
    /\ hashCheckpoint' = NoBlock /\ pc' = "idle"
    /\ UNCHANGED <<mapBlockIndex, pindexBest, orphans, hashPendingCheckpoint,
                   hashInvalidCheckpoint, setStakeSeen, asked, block, loop, restarts>>

-----------------------------------------------------------------------------
Deliver(b) == \/ ReceiveRefused(b) \/ ReceiveDuplicateOrphan(b)
              \/ ReceiveOrphan(b) \/ Receive(b)

Handler == \/ AcceptBlockFails \/ AddToBlockIndex \/ SetBestChain
           \/ SetBestChainFails \/ AcceptPendingSyncCheckpoint \/ Write
           \/ (\E o \in Block : NextOrphan(o)) \/ NextInQueue
           \/ ResetSyncCheckpoint \/ ResetFails \/ ResetWrite

Next == \/ \E b \in Block \ {Genesis} : Deliver(b)
        \/ \E c \in Signed : ProcessSyncCheckpointPending(c) \/ ProcessSyncCheckpoint(c)
        \/ Version
        \/ Handler
        \/ Restart

(* A handler is sequential code.  A peer answers what it is asked for, and  *)
(* its answer waits in the receive buffer while other messages are handled. *)
Spec == /\ Init /\ [][Next]_vars
        /\ WF_vars(Handler)
        /\ \A b \in Block \ {Genesis} : SF_vars(b \in asked /\ Deliver(b))

-----------------------------------------------------------------------------
(* The shape of the state; the proofs of stake seen are those of the index. *)
TypeOK ==
    /\ mapBlockIndex \subseteq Block /\ pindexBest \in mapBlockIndex
    /\ mapOrphanBlocks \subseteq Block
    /\ mapOrphanBlocksByPrev \subseteq Block
    /\ setStakeSeen = StakesOf(mapBlockIndex) /\ setStakeSeenOrphan \subseteq StakesOf(Block)
    /\ hashSyncCheckpoint \in mapBlockIndex
    /\ hashPendingCheckpoint \in Block \cup {NoBlock}
    /\ hashInvalidCheckpoint \in Block \cup {NoBlock}
    /\ asked \subseteq Block
    /\ pc \in {"idle", "accept", "best", "pending", "write", "loop", "reset", "rewrite",
              "down"}
    /\ block \in Block \cup {NoBlock} /\ hashCheckpoint \in Block \cup {NoBlock}
    /\ vWorkQueue \in Seq(Block) /\ waiting \subseteq mapOrphanBlocks
    /\ i \in 1 .. Len(vWorkQueue) + 1
    /\ restarts \in 0 .. MaxRestarts

(* Every pointer in mapOrphanBlocksByPrev is alive: a block that has been   *)
(* deleted is only ever left under the parent whose turn it is, and is not  *)
(* visited again; between two messages both maps hold the same blocks.      *)
OrphanPointersLive ==
    \A o \in mapOrphanBlocksByPrev \ mapOrphanBlocks :
        pc # "idle" /\ Pprev[o] = vWorkQueue[i] /\ o \notin waiting

(* A proof of stake is held against other orphans only while an orphan with *)
(* it is kept, whether that orphan was accepted, refused or failed to       *)
(* connect.                                                                 *)
StakeSeenOrphanReleased ==
    pc = "idle" => setStakeSeenOrphan \subseteq StakesOf(mapOrphanBlocks)

(* No orphan is kept beside its indexed parent, unless the parent's chain   *)
(* does not connect: orphans are only looked at when their parent comes in, *)
(* so one that is missed then is never looked at again.                     *)
ValidOrphanNotStuck ==
    pc = "idle" => \A o \in mapOrphanBlocks :
        Pprev[o] \in mapBlockIndex => ~(Ancestors[Pprev[o]] \subseteq Connects)

(* STRICT mode: the best chain goes through the synchronized checkpoint,    *)
(* after a crash between moving the chain and writing the checkpoint too.   *)
SyncInBestChain == Strict => hashSyncCheckpoint \in Ancestors[pindexBest]

(* "only descendant of current sync-checkpoint is allowed": the checkpoint  *)
(* never moves back or sideways, except when the master key changes.        *)
SyncAdvances ==
    [][pc = "rewrite" \/ hashSyncCheckpoint \in Ancestors[hashSyncCheckpoint']]_vars

(* Nothing in the chain of b is refused for its own sake.                   *)
Sound(b) == /\ Ancestors[b] \cap (CheckFails \cup AcceptFails \cup Doubtful) = {}
            /\ Ancestors[b] \subseteq Connects
            /\ \A a \in Ancestors[b] : CheckHardened(a)

(* An orphan whose chain is sound gets its missing ancestors and leaves the *)
(* holding area, although the ancestor may have been refused before as a    *)
(* duplicate stake, unless the checkpoint moves to another chain.           *)
OrphanResolved ==
    \A o \in Block \ {Genesis} :
        (o \in mapOrphanBlocks /\ Sound(o))
            ~> (o \notin mapOrphanBlocks \/ hashSyncCheckpoint \notin Ancestors[o])

(* No checkpoint signed for another chain can get in the way of c: the key  *)
(* holder signs blocks of one chain (AutoSelectSyncCheckpoint), or those of *)
(* other chains do not connect.                                             *)
Uncontested(c) ==
    \A d \in Signed : \/ c \in Ancestors[d] \/ d \in Ancestors[c]
                      \/ ~(Ancestors[d] \subseteq Connects)

(* An uncontested checkpoint with a sound chain does not stay pending for   *)
(* ever.                                                                    *)
PendingResolved ==
    \A c \in Signed :
        (hashPendingCheckpoint = c /\ Sound(c) /\ Uncontested(c))
            ~> hashPendingCheckpoint # c

=============================================================================
