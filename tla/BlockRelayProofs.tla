-------------------------- MODULE BlockRelayProofs --------------------------
(***************************************************************************)
(* Theorems about BlockRelay, for every block tree, every set of signed and *)
(* hardened checkpoints and any number of restarts: in STRICT mode the best *)
(* chain always goes through the synchronized checkpoint, and in any mode   *)
(* the checkpoint only moves to its own descendants.                        *)
(***************************************************************************)
EXTENDS BlockRelay, BlockTreeProofs, TLAPS

-----------------------------------------------------------------------------
(* The last hardened checkpoint is one.                                     *)
LEMMA LastHardenedIsHardened == LastHardened \in Hardened /\ LastHardened \in Block
BY CheckpointAssumption DEF LastHardened

(* A checkpoint and the last hardened one lie on one chain.                 *)
LEMMA CheckpointsOnOneChain ==
    ASSUME NEW c \in Signed \cup Hardened
    PROVE  /\ c \in Block
           /\ c \in Ancestors[LastHardened] \/ LastHardened \in Ancestors[c]
BY LastHardenedIsHardened, CheckpointAssumption, BlockRelayAssumption, SignedAssumption

(* CheckSync lets only descendants of the checkpoint through.               *)
LEMMA CheckSyncDescends ==
    ASSUME NEW b \in Block, b \notin mapBlockIndex, CheckSync(b),
           hashSyncCheckpoint \in Block
    PROVE  hashSyncCheckpoint \in Ancestors[b]
BY SelfAncestor, BlockTreeAssumption DEF CheckSync

-----------------------------------------------------------------------------
(* What is known about the locals of the handlers.  A block on its way to   *)
(* SetBestChain has passed CheckSync; a checkpoint on its way to the disk   *)
(* is in the best chain and descends from the current one.                  *)
Locals ==
    /\ mapBlockIndex \subseteq Block
    /\ pindexBest \in Block
    /\ hashSyncCheckpoint \in Signed \cup Hardened
    /\ hashPendingCheckpoint \in Signed \cup Hardened \cup {NoBlock}
    /\ pc \in {"accept", "best"} => block \in Block
    /\ pc \in {"write", "rewrite"} => hashCheckpoint \in Signed \cup Hardened
    /\ mapOrphanBlocksByPrev \subseteq Block
    /\ waiting \subseteq Block

BestBlockDescends == Strict /\ pc = "best" => hashSyncCheckpoint \in Ancestors[block]

WrittenDescends ==
    /\ pc = "write" => hashSyncCheckpoint \in Ancestors[hashCheckpoint]
    /\ pc \in {"write", "rewrite"} => hashCheckpoint \in Ancestors[pindexBest]

SyncInv == Locals /\ BestBlockDescends /\ WrittenDescends /\ SyncInBestChain

-----------------------------------------------------------------------------
(* The four parts of the invariant once the handler has come to rest or     *)
(* moved to a step that makes no claim on the checkpoint.                   *)
LEMMA SyncInvKept ==
    ASSUME SyncInv,
           mapBlockIndex' \subseteq Block,
           pindexBest' = pindexBest, hashSyncCheckpoint' = hashSyncCheckpoint,
           hashPendingCheckpoint' \in Signed \cup Hardened \cup {NoBlock},
           pc' \notin {"best", "write", "rewrite"},
           pc' = "accept" => block' \in Block,
           mapOrphanBlocksByPrev' \subseteq Block, waiting' \subseteq Block
    PROVE  SyncInv'
BY DEF SyncInv, Locals, BestBlockDescends, WrittenDescends, SyncInBestChain

(* Each step of the handlers keeps the invariant.                           *)
LEMMA SyncInvStep == SyncInv /\ [Next]_vars => SyncInv'
<1> SUFFICES ASSUME SyncInv, [Next]_vars PROVE SyncInv'
  OBVIOUS
<1> USE DEF SyncInv, Locals
<1>a. hashSyncCheckpoint \in Block
  BY CheckpointsOnOneChain
<1>b. \A b : Children(b) \subseteq Block
  BY DEF Children
<1>1. ASSUME NEW b \in Block, Deliver(b) PROVE SyncInv'
  BY <1>1, SyncInvKept DEF Deliver, ReceiveRefused, ReceiveDuplicateOrphan,
    ReceiveOrphan, Receive, orphans, loop, checkpoints
<1>2. ASSUME NEW c \in Signed, ProcessSyncCheckpointPending(c) PROVE SyncInv'
  BY <1>2, SyncInvKept DEF ProcessSyncCheckpointPending, orphans, loop, checkpoints
<1>3. CASE AcceptBlockFails
  BY <1>3, SyncInvKept DEF AcceptBlockFails, AcceptBlockFailed, EraseOrphan, orphans,
    loop, checkpoints
<1>4. CASE SetBestChainFails
  BY <1>4, SyncInvKept DEF SetBestChainFails, AcceptBlockFailed, EraseOrphan, orphans,
    loop, checkpoints
<1>5. CASE AddToBlockIndex
  <2>1. block \in Block /\ block \notin mapBlockIndex /\ (Strict => CheckSync(block))
    BY <1>5 DEF AddToBlockIndex, Acceptable
  <2>2. Strict => hashSyncCheckpoint \in Ancestors[block]
    BY <1>a, <2>1, CheckSyncDescends
  <2> QED
    BY <1>5, <2>1, <2>2 DEF AddToBlockIndex, BestBlockDescends, WrittenDescends,
      SyncInBestChain, orphans, loop, checkpoints
<1>6. CASE SetBestChain
  BY <1>6 DEF SetBestChain, BestBlockDescends, WrittenDescends, SyncInBestChain,
    orphans, loop, checkpoints
<1>7. ASSUME NEW c \in mapBlockIndex, c \in Signed \cup Hardened,
             CheckpointBest(c), hashCheckpoint' = c, pc' = "write",
             UNCHANGED <<mapBlockIndex, mapOrphanBlocksByPrev, waiting>>
      PROVE  SyncInv'
  <2>1. hashSyncCheckpoint \in Ancestors[c] /\ c \in Block
    BY <1>7 DEF CheckpointBest, ValidateSyncCheckpoint
  <2>2. c \in Ancestors[pindexBest'] /\ pindexBest' \in Block
    BY <1>7, <2>1, SelfAncestor DEF CheckpointBest, IsInMainChain
  <2>3. hashSyncCheckpoint \in Ancestors[pindexBest']
    BY <2>1, <2>2, AncestorsTransitive
  <2> QED
    BY <1>7, <2>1, <2>2, <2>3 DEF CheckpointBest, BestBlockDescends,
      WrittenDescends, SyncInBestChain, checkpoints
<1>8. CASE AcceptPendingSyncCheckpoint
  <2>1. ASSUME AcceptBlockDone, UNCHANGED <<mapBlockIndex, pindexBest, hashSyncCheckpoint>>,
               hashPendingCheckpoint' \in {hashPendingCheckpoint, NoBlock}
        PROVE  SyncInv'
    BY <2>1, <1>b, SyncInvKept DEF AcceptBlockDone, EraseOrphan, orphans
  <2>2. CASE ~PendingKnown /\ UNCHANGED <<pindexBest, checkpoints>> /\ AcceptBlockDone
    BY <1>8, <2>1, <2>2 DEF AcceptPendingSyncCheckpoint, checkpoints
  <2>3. CASE CheckpointInvalid(hashPendingCheckpoint) /\ AcceptBlockDone
             /\ hashPendingCheckpoint' = NoBlock
    BY <1>8, <2>1, <2>3 DEF AcceptPendingSyncCheckpoint, CheckpointInvalid
  <2>4. CASE CheckpointNotBest(hashPendingCheckpoint) /\ AcceptBlockDone
    BY <1>8, <2>1, <2>4 DEF AcceptPendingSyncCheckpoint, CheckpointNotBest
  <2>5. CASE /\ PendingKnown /\ CheckpointBest(hashPendingCheckpoint)
             /\ hashCheckpoint' = hashPendingCheckpoint /\ pc' = "write"
             /\ UNCHANGED <<orphans, asked, block, loop, restarts>>
    <3>1. hashPendingCheckpoint \in mapBlockIndex
          /\ hashPendingCheckpoint \in Signed \cup Hardened
      BY <2>5, BlockTreeAssumption DEF PendingKnown
    <3> QED
      BY <1>8, <2>5, <3>1, <1>7 DEF AcceptPendingSyncCheckpoint, orphans, loop
  <2> QED
    BY <1>8, <2>2, <2>3, <2>4, <2>5 DEF AcceptPendingSyncCheckpoint
<1>9. ASSUME NEW c \in Signed, ProcessSyncCheckpoint(c) PROVE SyncInv'
  <2>1. CASE CheckpointBest(c)  /\ hashCheckpoint' = c /\ pc' = "write"
    BY <1>9, <2>1, <1>7 DEF ProcessSyncCheckpoint, orphans, loop
  <2>2. CASE (CheckpointInvalid(c) \/ CheckpointNotBest(c))
             /\ UNCHANGED <<hashPendingCheckpoint, pc, hashCheckpoint>>
    BY <1>9, <2>2, SyncInvKept DEF ProcessSyncCheckpoint, CheckpointInvalid,
      CheckpointNotBest, orphans, loop
  <2> QED
    BY <1>9, <2>1, <2>2 DEF ProcessSyncCheckpoint
<1>10. CASE Write
  <2>1. /\ hashSyncCheckpoint' = hashCheckpoint /\ pindexBest' = pindexBest
        /\ hashPendingCheckpoint' = NoBlock /\ pc' \in {"loop", "idle"}
        /\ mapBlockIndex' = mapBlockIndex
    BY <1>10 DEF Write, WriteSyncCheckpoint
  <2>2. mapOrphanBlocksByPrev' \subseteq Block /\ waiting' \subseteq Block
    BY <1>10, <1>b DEF Write, EraseOrphan, orphans
  <2>3. hashCheckpoint \in Ancestors[pindexBest] /\ hashCheckpoint \in Signed \cup Hardened
    BY <1>10 DEF Write, WrittenDescends
  <2> QED
    BY <2>1, <2>2, <2>3 DEF BestBlockDescends, WrittenDescends, SyncInBestChain
<1>11. ASSUME NEW o \in Block, NextOrphan(o) PROVE SyncInv'
  BY <1>11, SyncInvKept DEF NextOrphan, orphans, loop, checkpoints
<1>12. CASE NextInQueue
  BY <1>12, <1>b, SyncInvKept DEF NextInQueue, orphans, loop, checkpoints
<1>13. CASE Restart
  BY <1>13, SyncInvKept DEF Restart
<1>14. CASE ResetSyncCheckpoint
  <2> DEFINE L == LastHardened
  <2>1. L \in Block /\ L \in Hardened
    BY LastHardenedIsHardened
  <2>2. /\ pindexBest' \in {pindexBest, L}
        /\ pindexBest' = L /\ IsInMainChain(L) => pindexBest' = pindexBest
    BY <1>14 DEF ResetSyncCheckpoint
  <2>3. Strict => hashSyncCheckpoint \in Ancestors[pindexBest']
    <3>1. CASE pindexBest' = pindexBest
      BY <3>1 DEF SyncInBestChain
    <3>2. CASE pindexBest' # pindexBest /\ Strict
      <4>1. pindexBest' = L /\ L \notin Ancestors[pindexBest]
        BY <2>2, <3>2 DEF IsInMainChain
      <4>2. L \notin Ancestors[hashSyncCheckpoint]
        BY <4>1, <3>2, AncestorsTransitive DEF SyncInBestChain
      <4> QED BY <4>1, <4>2, CheckpointsOnOneChain
    <3> QED BY <3>1, <3>2
  <2>4. hashCheckpoint' \in Hardened /\ hashCheckpoint' \in Ancestors[pindexBest']
    BY <1>14 DEF ResetSyncCheckpoint
  <2> QED
    BY <1>14, <2>1, <2>2, <2>3, <2>4 DEF ResetSyncCheckpoint, BestBlockDescends,
      WrittenDescends, SyncInBestChain, orphans, loop
<1>15. CASE ResetWrite
  BY <1>15 DEF ResetWrite, BestBlockDescends, WrittenDescends, SyncInBestChain,
    orphans, loop
<1>16. CASE Version \/ ResetFails
  BY <1>16, SyncInvKept DEF Version, ResetFails, orphans, loop, checkpoints
<1>17. CASE UNCHANGED vars
  BY <1>17 DEF vars, BestBlockDescends, WrittenDescends, SyncInBestChain, orphans,
    loop, checkpoints
<1> QED
  BY <1>1, <1>2, <1>3, <1>4, <1>5, <1>6, <1>8, <1>9, <1>10, <1>11, <1>12, <1>13,
    <1>14, <1>15, <1>16, <1>17 DEF Next, Handler

(* The invariant holds when the node first starts.                          *)
LEMMA SyncInvInit == Init => SyncInv
BY SelfAncestor, BlockTreeAssumption, CheckpointAssumption, LastHardenedIsHardened
  DEF Init, SyncInv, Locals, BestBlockDescends, WrittenDescends, SyncInBestChain

-----------------------------------------------------------------------------
(* STRICT mode: whatever blocks and checkpoints come in, in whatever order, *)
(* wherever the process dies, whichever blocks fail to connect and also     *)
(* when ResetSyncCheckpoint fails, the best chain of the node goes through  *)
(* the synchronized checkpoint.                                             *)
THEOREM CheckpointHolds == Spec => []SyncInBestChain
<1>1. SyncInv => SyncInBestChain
  BY DEF SyncInv
<1> QED
  BY <1>1, SyncInvInit, SyncInvStep, PTL DEF Spec

(* The synchronized checkpoint only moves to its own descendants, except    *)
(* when ResetSyncCheckpoint writes it.                                      *)
THEOREM CheckpointAdvances == Spec => SyncAdvances
<1> DEFINE A == pc = "rewrite" \/ hashSyncCheckpoint \in Ancestors[hashSyncCheckpoint']
<1>1. SyncInv /\ [Next]_vars => [A]_vars
  <2> SUFFICES ASSUME SyncInv, Next PROVE A
    OBVIOUS
  <2>a. hashSyncCheckpoint \in Ancestors[hashSyncCheckpoint]
    BY SelfAncestor, CheckpointsOnOneChain DEF SyncInv, Locals
  <2>1. CASE Write
    BY <2>1 DEF Write, WriteSyncCheckpoint, SyncInv, WrittenDescends
  <2>2. CASE ResetWrite
    BY <2>2 DEF ResetWrite
  <2>3. CASE ~Write /\ ~ResetWrite
    <3>1. hashSyncCheckpoint' = hashSyncCheckpoint
      BY <2>3 DEF Next, Handler, Deliver, ReceiveRefused, ReceiveDuplicateOrphan,
        ReceiveOrphan, Receive, ProcessSyncCheckpointPending, ProcessSyncCheckpoint,
        AcceptBlockFails, AddToBlockIndex, SetBestChain, SetBestChainFails,
        AcceptPendingSyncCheckpoint, NextOrphan, NextInQueue, Version,
        Restart, ResetSyncCheckpoint, ResetFails, CheckpointInvalid, CheckpointNotBest, CheckpointBest,
        checkpoints
    <3> QED BY <2>a, <3>1
  <2> QED BY <2>1, <2>2, <2>3
<1> QED
  BY <1>1, SyncInvInit, SyncInvStep, PTL DEF Spec, SyncAdvances

-----------------------------------------------------------------------------
(* The locals of ProcessBlock.  AcceptBlock works on a block; the work      *)
(* queue holds distinct indexed blocks, the index i one of them, and is     *)
(* empty between two messages; a block that is being accepted and already   *)
(* indexed is not in it yet.                                                *)
QueueOk ==
    /\ vWorkQueue \in Seq(Block)
    /\ vWorkQueue = <<>> => i = 1 /\ waiting = {}
    /\ vWorkQueue # <<>> => i \in 1 .. Len(vWorkQueue)
    /\ \A k \in 1 .. Len(vWorkQueue) : vWorkQueue[k] \in mapBlockIndex
    /\ \A k, l \in 1 .. Len(vWorkQueue) : vWorkQueue[k] = vWorkQueue[l] => k = l
    /\ block \in Block \cup {NoBlock}
    /\ block # NoBlock => pc \in {"accept", "best", "pending", "write"}
    /\ pc \in {"accept", "best", "pending"} => block # NoBlock
    /\ block = NoBlock => (pc = "loop" <=> vWorkQueue # <<>>)
    /\ block # NoBlock /\ pc # "accept" =>
            block \in mapBlockIndex /\ \A k \in 1 .. Len(vWorkQueue) : vWorkQueue[k] # block

(* What the node has stored: the index is closed under pprev and holds the  *)
(* best block and the checkpoints that are written.                         *)
StoredOk ==
    /\ mapBlockIndex \subseteq Block /\ Genesis \in mapBlockIndex
    /\ \A b \in mapBlockIndex : Ancestors[b] \subseteq mapBlockIndex
    /\ pindexBest \in mapBlockIndex /\ hashSyncCheckpoint \in mapBlockIndex
    /\ hashInvalidCheckpoint \in Block \cup {NoBlock}
    /\ hashCheckpoint \in Block \cup {NoBlock}
    /\ pc \in {"write", "rewrite"} => hashCheckpoint \in mapBlockIndex
    /\ setStakeSeen = StakesOf(mapBlockIndex) /\ asked \subseteq Block
    /\ pc \in {"idle", "accept", "best", "pending", "write", "loop", "reset", "rewrite",
              "down"}
    /\ restarts \in 0 .. MaxRestarts

(* The orphans while the children of vWorkQueue[i] are visited: those not   *)
(* yet visited are waiting, the visited one is block, and what is in the    *)
(* multimap only has been visited.                                          *)
OrphansOk ==
    /\ mapOrphanBlocks \subseteq mapOrphanBlocksByPrev
    /\ mapOrphanBlocksByPrev \subseteq Block \ {Genesis}
    /\ setStakeSeenOrphan \subseteq StakesOf(mapOrphanBlocks)
    /\ \A o \in waiting : o \in mapOrphanBlocks /\ Pprev[o] = vWorkQueue[i] /\ o # block
    /\ \A o \in mapOrphanBlocksByPrev \ mapOrphanBlocks :
            vWorkQueue # <<>> /\ Pprev[o] = vWorkQueue[i]
    /\ vWorkQueue # <<>> =>
            /\ block # NoBlock => block \in mapOrphanBlocks /\ Pprev[block] = vWorkQueue[i]
            /\ \A o \in mapOrphanBlocks :
                    Pprev[o] = vWorkQueue[i] => o \in waiting \/ o = block

(* An orphan beside its indexed parent is going to be looked at: it is      *)
(* being visited or in line, its parent is in the work queue or about to    *)
(* enter it; or the parent's chain does not connect.                        *)
InTurn(o) ==
    \/ o \in waiting
    \/ o = block /\ vWorkQueue # <<>>
    \/ Pprev[o] = block /\ pc # "accept"
    \/ \E k \in i + 1 .. Len(vWorkQueue) : Pprev[o] = vWorkQueue[k]

OrphansInTurn ==
    \A o \in mapOrphanBlocks : Pprev[o] \in mapBlockIndex =>
        InTurn(o) \/ ~(Ancestors[Pprev[o]] \subseteq Connects)

-----------------------------------------------------------------------------
(* WantedByOrphan, on a given set of orphans.                               *)
WantedIn(O, o) ==
    LET chain == {a \in Ancestors[o] :
                    \A x \in Ancestors[o] : Height[x] >= Height[a] => x \in O}
        root == CHOOSE a \in chain : \A x \in chain : Height[a] <= Height[x]
    IN  Pprev[root]

(* The walk down from an orphan ends at a block that has a parent.          *)
LEMMA WantedIsBlock ==
    ASSUME NEW O, O \subseteq Block \ {Genesis}, NEW o \in O
    PROVE  WantedIn(O, o) \in Block
<1> DEFINE chain == {a \in Ancestors[o] :
                        \A x \in Ancestors[o] : Height[x] >= Height[a] => x \in O}
           root == CHOOSE a \in chain : \A x \in chain : Height[a] <= Height[x]
           T == {Height[a] : a \in chain}
<1>1. o \in Block /\ o \in Ancestors[o] /\ \A x \in Ancestors[o] : Height[x] \in Nat
  BY SelfAncestor, AncestorsTransitive
<1>2. o \in chain
  <2> SUFFICES ASSUME NEW x \in Ancestors[o], Height[x] >= Height[o] PROVE x = o
    BY <1>1
  <2>1. Height[x] = Height[o]
    BY <1>1, AncestorsTransitive
  <2>2. AncestorAt(o, Height[x]) = x /\ AncestorAt(o, Height[o]) = o
    BY <1>1, AboveAncestor
  <2> QED BY <2>1, <2>2
<1>3. T \subseteq Nat /\ T # {}
  BY <1>1, <1>2
<1>4. \E n \in T : \A m \in T : n <= m
  BY <1>3, LeastNat
<1>5. \E a \in chain : \A x \in chain : Height[a] <= Height[x]
  BY <1>4
<1>6. root \in chain
  BY <1>5
<1>7. root \in O /\ root \in Block \ {Genesis}
  <2> HIDE DEF root
  <2>1. Height[root] >= Height[root]
    BY <1>1, <1>6
  <2> QED BY <1>6, <2>1
<1>8. Pprev[root] \in Block
  <2> HIDE DEF root
  <2> QED BY <1>7, BlockTreeAssumption
<1> QED BY <1>8 DEF WantedIn

-----------------------------------------------------------------------------
(* StoredOk holds when the node first starts, and each step keeps it.       *)
LEMMA StoredInit == Init => StoredOk
BY BlockTreeAssumption, PprevAssumption, BlockRelayAssumption DEF Init, StoredOk, StakesOf

(* The index stays closed under pprev when a block with an indexed parent   *)
(* is added.                                                                *)
LEMMA IndexGrowsClosed ==
    ASSUME StoredOk, NEW b \in Block, b \notin mapBlockIndex, Pprev[b] \in mapBlockIndex
    PROVE  \A a \in mapBlockIndex \cup {b} : Ancestors[a] \subseteq mapBlockIndex \cup {b}
<1>1. b # Genesis
  BY DEF StoredOk
<1>2. Ancestors[b] = Ancestors[Pprev[b]] \cup {b}
  BY <1>1, PprevAssumption
<1> QED BY <1>2 DEF StoredOk

(* The stakes of a set of blocks are stakes.                                *)
LEMMA StakesGrow == \A A, B : A \subseteq B => StakesOf(A) \subseteq StakesOf(B)
BY DEF StakesOf

(* Each step keeps what is stored in order.                                 *)
LEMMA StoredStep == SyncInv /\ QueueOk /\ StoredOk /\ OrphansOk /\ [Next]_vars => StoredOk'
<1> SUFFICES ASSUME SyncInv, QueueOk, StoredOk, OrphansOk, [Next]_vars PROVE StoredOk'
  OBVIOUS
<1>a. AskForPendingSyncCheckpoint \subseteq Block
  BY CheckpointAssumption, BlockRelayAssumption
    DEF AskForPendingSyncCheckpoint, SyncInv, Locals
<1>1. ASSUME NEW b \in Block \ {Genesis}, Deliver(b) PROVE StoredOk'
  <2>1. ASSUME ReceiveOrphan(b) PROVE WantedByOrphan(b)' \in Block
    <3>1. b \in mapOrphanBlocks' /\ mapOrphanBlocks' \subseteq Block \ {Genesis}
      BY <2>1 DEF ReceiveOrphan, OrphansOk
    <3>2. WantedIn(mapOrphanBlocks', b) \in Block
      BY <3>1, WantedIsBlock
    <3> QED BY <3>2 DEF WantedByOrphan, WantedIn
  <2>2. asked' \subseteq Block
    BY <1>1, <1>a, <2>1 DEF StoredOk, Deliver, ReceiveRefused, ReceiveDuplicateOrphan,
      ReceiveOrphan, Receive
  <2> QED
    BY <1>1, <2>2 DEF StoredOk, Deliver, ReceiveRefused, ReceiveDuplicateOrphan,
      ReceiveOrphan, Receive, orphans, loop, checkpoints
<1>2. ASSUME NEW c \in Signed, ProcessSyncCheckpointPending(c) PROVE StoredOk'
  <2>1. c \in mapOrphanBlocks => WantedByOrphan(c) \in Block
    <3>1. mapOrphanBlocks \subseteq Block \ {Genesis}
      BY DEF OrphansOk
    <3> QED BY <3>1, WantedIsBlock DEF WantedByOrphan, WantedIn
  <2>2. asked' \subseteq Block
    BY <1>2, <2>1, BlockRelayAssumption DEF ProcessSyncCheckpointPending, StoredOk
  <2> QED
    BY <1>2, <2>2 DEF ProcessSyncCheckpointPending, StoredOk, orphans, loop
<1>3. CASE AcceptBlockFails \/ SetBestChainFails
  BY <1>3 DEF AcceptBlockFails, SetBestChainFails, AcceptBlockFailed, StoredOk,
    checkpoints, loop
<1>4. CASE AddToBlockIndex
  <2>1. block \in Block /\ block \notin mapBlockIndex /\ Pprev[block] \in mapBlockIndex
    BY <1>4 DEF AddToBlockIndex, Acceptable, QueueOk
  <2>2. mapBlockIndex' = mapBlockIndex \cup {block}
    BY <1>4 DEF AddToBlockIndex
  <2>3. \A a \in mapBlockIndex' : Ancestors[a] \subseteq mapBlockIndex'
    BY <2>1, <2>2, IndexGrowsClosed
  <2>4. setStakeSeen' = StakesOf(mapBlockIndex')
    BY <1>4, <2>2 DEF AddToBlockIndex, StoredOk, StakesOf
  <2> QED
    BY <1>4, <2>1, <2>2, <2>3, <2>4 DEF AddToBlockIndex, StoredOk, checkpoints
<1>5. CASE SetBestChain
  BY <1>5 DEF SetBestChain, StoredOk, QueueOk, checkpoints
<1>6. ASSUME NEW c \in mapBlockIndex, CheckpointInvalid(c) \/ CheckpointNotBest(c),
             UNCHANGED <<mapBlockIndex, hashCheckpoint, setStakeSeen, asked, restarts>>,
             pc' \in {"idle", "loop"}
      PROVE  StoredOk'
  BY <1>6 DEF CheckpointInvalid, CheckpointNotBest, StoredOk
<1>7. ASSUME NEW c \in mapBlockIndex, CheckpointBest(c), hashCheckpoint' = c, pc' = "write",
             UNCHANGED <<mapBlockIndex, setStakeSeen, asked, restarts>>
      PROVE  StoredOk'
  BY <1>7 DEF CheckpointBest, StoredOk, checkpoints
<1>8. CASE AcceptPendingSyncCheckpoint
  <2>1. CASE ~PendingKnown /\ UNCHANGED <<pindexBest, checkpoints>> /\ AcceptBlockDone
    BY <1>8, <2>1 DEF AcceptPendingSyncCheckpoint, AcceptBlockDone, StoredOk, checkpoints
  <2>2. CASE PendingKnown /\ AcceptBlockDone
             /\ (CheckpointInvalid(hashPendingCheckpoint)
                  \/ CheckpointNotBest(hashPendingCheckpoint))
    BY <1>8, <2>2, <1>6 DEF AcceptPendingSyncCheckpoint, AcceptBlockDone, PendingKnown
  <2>3. CASE /\ PendingKnown /\ CheckpointBest(hashPendingCheckpoint)
             /\ hashCheckpoint' = hashPendingCheckpoint /\ pc' = "write"
             /\ UNCHANGED <<orphans, asked, block, loop, restarts>>
    BY <1>8, <2>3, <1>7 DEF AcceptPendingSyncCheckpoint, PendingKnown
  <2> QED BY <1>8, <2>1, <2>2, <2>3 DEF AcceptPendingSyncCheckpoint
<1>9. ASSUME NEW c \in Signed, ProcessSyncCheckpoint(c) PROVE StoredOk'
  BY <1>9, <1>6, <1>7 DEF ProcessSyncCheckpoint
<1>10. CASE Write
  BY <1>10 DEF Write, WriteSyncCheckpoint, StoredOk
<1>11. ASSUME NEW o \in Block, NextOrphan(o) PROVE StoredOk'
  BY <1>11 DEF NextOrphan, StoredOk, checkpoints
<1>12. CASE NextInQueue
  BY <1>12 DEF NextInQueue, StoredOk, checkpoints
<1>13. CASE Restart
  <2>1. setStakeSeen' = StakesOf(mapBlockIndex')
    BY <1>13 DEF Restart, StakesOf
  <2>2. restarts' \in 0 .. MaxRestarts
    BY <1>13, BlockRelayAssumption DEF Restart, StoredOk
  <2> QED BY <1>13, <2>1, <2>2 DEF Restart, StoredOk
<1>14. CASE ResetSyncCheckpoint
  <2>1. pindexBest' \in mapBlockIndex
    BY <1>14 DEF ResetSyncCheckpoint, StoredOk
  <2>2. hashCheckpoint' \in mapBlockIndex
    BY <1>14, <2>1 DEF ResetSyncCheckpoint, StoredOk
  <2> QED BY <1>14, <2>1, <2>2 DEF ResetSyncCheckpoint, StoredOk
<1>15. CASE ResetWrite
  BY <1>15 DEF ResetWrite, StoredOk
<1>16. CASE Version \/ ResetFails
  BY <1>16, <1>a DEF Version, ResetFails, StoredOk, checkpoints
<1>17. CASE UNCHANGED vars
  BY <1>17 DEF vars, StoredOk, checkpoints
<1> QED
  BY <1>1, <1>2, <1>3, <1>4, <1>5, <1>8, <1>9, <1>10, <1>11, <1>12, <1>13,
    <1>14, <1>15, <1>16, <1>17 DEF Next, Handler

-----------------------------------------------------------------------------
(* The part of the invariant that is about ProcessBlock's walk through the  *)
(* orphans, and its three kinds of steps: those that leave the walk alone,  *)
(* a refused block and an accepted one.                                     *)
WalkInv == QueueOk /\ OrphansOk /\ OrphansInTurn

(* The step of another part of the handler, or of another message.          *)
LEMMA WalkUndisturbed ==
    ASSUME WalkInv, UNCHANGED <<mapBlockIndex, orphans, loop, block>>,
           pc # "accept", pc' # "accept",
           block # NoBlock => pc' \in {"best", "pending", "write"},
           block = NoBlock => pc' \notin {"best", "pending"} /\ (pc' = "loop" <=> pc = "loop")
    PROVE  WalkInv'
<1>1. QueueOk'
  BY DEF WalkInv, QueueOk, loop
<1>2. OrphansOk'
  BY DEF WalkInv, OrphansOk, orphans, loop
<1>3. OrphansInTurn'
  BY DEF WalkInv, OrphansInTurn, InTurn, orphans, loop
<1> QED BY <1>1, <1>2, <1>3 DEF WalkInv

(* Erasing the visited orphan releases its stake and leaves the others.     *)
LEMMA ErasedStakes ==
    ASSUME EraseOrphan, setStakeSeenOrphan \subseteq StakesOf(mapOrphanBlocks)
    PROVE  setStakeSeenOrphan' \subseteq StakesOf(mapOrphanBlocks')
BY DEF EraseOrphan, StakesOf

(* AcceptBlock returned false: for the message's block nothing changes, a   *)
(* visited orphan is erased.                                                *)
LEMMA WalkRefused ==
    ASSUME WalkInv, block # NoBlock, AcceptBlockFailed, UNCHANGED mapBlockIndex,
           pc # "accept" => ~(Ancestors[block] \subseteq Connects)
    PROVE  WalkInv'
<1>a. QueueOk /\ OrphansOk /\ OrphansInTurn
  BY DEF WalkInv
<1>b. /\ block' = NoBlock /\ UNCHANGED <<vWorkQueue, i, waiting>>
      /\ pc' = IF FromPeer THEN "idle" ELSE "loop"
  BY DEF AcceptBlockFailed, loop
<1>c. NoBlock \notin Block /\ \A o \in Block \ {Genesis} : Pprev[o] \in Block
  BY BlockTreeAssumption
<1>1. QueueOk'
  BY <1>a, <1>b DEF QueueOk, FromPeer
<1>2. CASE FromPeer
  <2>1. UNCHANGED <<mapOrphanBlocks, mapOrphanBlocksByPrev, setStakeSeenOrphan>>
        /\ waiting = {} /\ vWorkQueue = <<>>
    BY <1>2, <1>a DEF AcceptBlockFailed, orphans, FromPeer, QueueOk
  <2>2. OrphansOk'
    BY <1>a, <1>b, <2>1 DEF OrphansOk
  <2>3. OrphansInTurn'
    BY <1>a, <1>b, <1>c, <2>1 DEF OrphansInTurn, InTurn
  <2> QED BY <1>1, <2>2, <2>3 DEF WalkInv
<1>3. CASE ~FromPeer
  <2>1. EraseOrphan /\ mapOrphanBlocks' = mapOrphanBlocks \ {block}
        /\ mapOrphanBlocksByPrev' = mapOrphanBlocksByPrev
        /\ vWorkQueue # <<>>
    BY <1>3 DEF AcceptBlockFailed, EraseOrphan, FromPeer
  <2>2. setStakeSeenOrphan' \subseteq StakesOf(mapOrphanBlocks')
    BY <2>1, <1>a, ErasedStakes DEF OrphansOk
  <2>3. OrphansOk'
    BY <1>a, <1>b, <1>c, <2>1, <2>2 DEF OrphansOk
  <2>4. OrphansInTurn'
    BY <1>a, <1>b, <1>c, <2>1 DEF OrphansInTurn, InTurn
  <2> QED BY <1>1, <2>3, <2>4 DEF WalkInv
<1> QED BY <1>2, <1>3

(* AcceptBlock returned true: the block enters the work queue, its orphan   *)
(* children have their turn now or when the queue comes to it.              *)
LEMMA WalkAccepted ==
    ASSUME WalkInv, block # NoBlock, pc # "accept",
           block' = NoBlock, pc' = "loop", vWorkQueue' = Append(vWorkQueue, block),
           IF FromPeer THEN waiting' = Children(block) /\ UNCHANGED orphans
                       ELSE EraseOrphan /\ UNCHANGED waiting,
           UNCHANGED <<mapBlockIndex, i>>
    PROVE  WalkInv'
<1>a. QueueOk /\ OrphansOk /\ OrphansInTurn
  BY DEF WalkInv
<1> DEFINE n == Len(vWorkQueue)
<1>b. /\ vWorkQueue \in Seq(Block) /\ block \in Block /\ block \in mapBlockIndex
      /\ \A k \in 1 .. n : vWorkQueue[k] # block
  BY <1>a DEF QueueOk
<1>c. NoBlock \notin Block /\ \A o \in Block \ {Genesis} : Pprev[o] \in Block
  BY BlockTreeAssumption
<1>d. /\ vWorkQueue' \in Seq(Block) /\ Len(vWorkQueue') = n + 1 /\ vWorkQueue' # <<>>
      /\ vWorkQueue'[n + 1] = block /\ n \in Nat
      /\ \A k \in 1 .. n : vWorkQueue'[k] = vWorkQueue[k]
  BY <1>b
<1>e. i \in 1 .. n + 1 /\ (FromPeer => i = 1 /\ n = 0) /\ (~FromPeer => i \in 1 .. n)
  BY <1>a, <1>d DEF QueueOk, FromPeer
<1>1. QueueOk'
  <2>1. \A k \in 1 .. n + 1 : k \in 1 .. n \/ k = n + 1
    BY <1>d
  <2>2. \A k \in 1 .. Len(vWorkQueue') : vWorkQueue'[k] \in mapBlockIndex'
    BY <1>a, <1>b, <1>d, <2>1 DEF QueueOk
  <2>3. \A k, l \in 1 .. Len(vWorkQueue') : vWorkQueue'[k] = vWorkQueue'[l] => k = l
    <3> SUFFICES ASSUME NEW k \in 1 .. n + 1, NEW l \in 1 .. n + 1,
                        vWorkQueue'[k] = vWorkQueue'[l]
                 PROVE  k = l
      BY <1>d
    <3>1. CASE k \in 1 .. n /\ l \in 1 .. n
      BY <1>a, <1>d, <3>1 DEF QueueOk
    <3>2. CASE k = n + 1 \/ l = n + 1
      BY <1>b, <1>d, <2>1, <3>2
    <3> QED BY <2>1, <3>1, <3>2
  <2>4. i' \in 1 .. Len(vWorkQueue')
    BY <1>d, <1>e
  <2> QED BY <1>d, <2>2, <2>3, <2>4 DEF QueueOk
<1>2. CASE FromPeer
  <2>1. /\ waiting = {} /\ vWorkQueue = <<>> /\ waiting' = Children(block) /\ i' = 1 /\ n = 0
        /\ UNCHANGED <<mapOrphanBlocks, mapOrphanBlocksByPrev, setStakeSeenOrphan>>
        /\ vWorkQueue'[i'] = block
    BY <1>2, <1>a, <1>d, <1>e DEF orphans, FromPeer, QueueOk
  <2>2. mapOrphanBlocksByPrev = mapOrphanBlocks
    BY <1>a, <2>1 DEF OrphansOk
  <2>3. waiting' = {o \in mapOrphanBlocks : Pprev[o] = block}
    BY <2>1, <2>2 DEF Children
  <2>4. OrphansOk'
    <3>1. \A o \in mapOrphanBlocks : o # NoBlock
      BY <1>a, <1>c DEF OrphansOk
    <3> QED BY <1>a, <1>d, <2>1, <2>2, <2>3, <3>1 DEF OrphansOk
  <2>5. OrphansInTurn'
    <3> SUFFICES ASSUME NEW o \in mapOrphanBlocks, Pprev[o] \in mapBlockIndex,
                        Ancestors[Pprev[o]] \subseteq Connects
                 PROVE  o \in waiting'
      BY <2>1 DEF OrphansInTurn, InTurn
    <3>1. InTurn(o)
      BY <1>a DEF OrphansInTurn
    <3>2. 1 .. Len(vWorkQueue) = {} /\ i + 1 .. Len(vWorkQueue) = {}
      BY <2>1
    <3> QED BY <2>1, <2>3, <3>1, <3>2 DEF InTurn
  <2> QED BY <1>1, <2>4, <2>5 DEF WalkInv
<1>3. CASE ~FromPeer
  <2>1. /\ EraseOrphan /\ mapOrphanBlocks' = mapOrphanBlocks \ {block}
        /\ mapOrphanBlocksByPrev' = mapOrphanBlocksByPrev
        /\ vWorkQueue # <<>> /\ vWorkQueue'[i'] = vWorkQueue[i] /\ waiting' = waiting
    BY <1>3, <1>d, <1>e DEF EraseOrphan, FromPeer
  <2>2. setStakeSeenOrphan' \subseteq StakesOf(mapOrphanBlocks')
    BY <2>1, <1>a, ErasedStakes DEF OrphansOk
  <2>3. OrphansOk'
    <3>1. \A o \in mapOrphanBlocks : o # NoBlock
      BY <1>a, <1>c DEF OrphansOk
    <3> QED BY <1>a, <1>d, <2>1, <2>2, <3>1 DEF OrphansOk
  <2>4. OrphansInTurn'
    <3> SUFFICES ASSUME NEW o \in mapOrphanBlocks', Pprev[o] \in mapBlockIndex,
                        Ancestors[Pprev[o]] \subseteq Connects
                 PROVE  InTurn(o)'
      BY DEF OrphansInTurn
    <3>1. InTurn(o) /\ o # block
      BY <1>a, <2>1 DEF OrphansInTurn
    <3>2. CASE Pprev[o] = block
      <4>1. n + 1 \in i' + 1 .. Len(vWorkQueue')
        BY <1>d, <1>e, <1>3
      <4> QED BY <1>d, <3>2, <4>1 DEF InTurn
    <3>3. \A k \in i + 1 .. n : k \in i' + 1 .. Len(vWorkQueue')
                                /\ vWorkQueue'[k] = vWorkQueue[k]
      BY <1>d, <1>e, <1>3
    <3> QED BY <2>1, <3>1, <3>2, <3>3 DEF InTurn
  <2> QED BY <1>1, <2>3, <2>4 DEF WalkInv
<1> QED BY <1>2, <1>3

(* The turn of a parent ends: what was left of its children goes, and the   *)
(* children of the next entry have their turn.                              *)
LEMMA WalkNext == WalkInv /\ NextInQueue => WalkInv'
<1> SUFFICES ASSUME WalkInv, NextInQueue PROVE WalkInv'
  OBVIOUS
<1>a. QueueOk /\ OrphansOk /\ OrphansInTurn
  BY DEF WalkInv
<1> DEFINE n == Len(vWorkQueue)
           p == vWorkQueue[i]
<1>b. /\ pc = "loop" /\ block = NoBlock /\ block' = NoBlock /\ waiting = {}
      /\ vWorkQueue \in Seq(Block) /\ vWorkQueue # <<>> /\ i \in 1 .. n /\ n \in Nat
      /\ mapBlockIndex' = mapBlockIndex /\ mapOrphanBlocks' = mapOrphanBlocks
      /\ setStakeSeenOrphan' = setStakeSeenOrphan
      /\ mapOrphanBlocksByPrev' = mapOrphanBlocksByPrev \ Children(p)
  BY <1>a DEF NextInQueue, QueueOk
<1>c. NoBlock \notin Block /\ \A o \in Block \ {Genesis} : Pprev[o] \in Block /\ o # NoBlock
  BY BlockTreeAssumption
<1>d. \A o \in mapOrphanBlocks : Pprev[o] # p /\ o \in Block \ {Genesis}
  BY <1>a, <1>b, <1>c DEF OrphansOk
<1>e. mapOrphanBlocksByPrev' = mapOrphanBlocks
  BY <1>a, <1>b, <1>d DEF OrphansOk, Children
<1>1. CASE i < n
  <2>1. /\ i' = i + 1 /\ waiting' = Children(vWorkQueue[i + 1])
        /\ vWorkQueue' = vWorkQueue /\ pc' = pc
    BY <1>1 DEF NextInQueue
  <2>2. vWorkQueue[i + 1] # p /\ i + 1 \in 1 .. n
    BY <1>a, <1>b, <1>1 DEF QueueOk
  <2>3. waiting' = {o \in mapOrphanBlocks : Pprev[o] = vWorkQueue'[i']}
    BY <1>a, <1>b, <2>1, <2>2 DEF OrphansOk, Children
  <2>4. QueueOk'
    BY <1>a, <1>b, <2>1, <2>2 DEF QueueOk
  <2>5. OrphansOk'
    BY <1>a, <1>b, <1>c, <1>d, <1>e, <2>1, <2>3 DEF OrphansOk
  <2>6. OrphansInTurn'
    <3> SUFFICES ASSUME NEW o \in mapOrphanBlocks, Pprev[o] \in mapBlockIndex,
                        Ancestors[Pprev[o]] \subseteq Connects
                 PROVE  InTurn(o)'
      BY <1>b DEF OrphansInTurn
    <3>1. PICK k \in i + 1 .. n : Pprev[o] = vWorkQueue[k]
      BY <1>a, <1>b, <1>c, <1>d DEF OrphansInTurn, InTurn
    <3>2. k = i + 1 \/ k \in i' + 1 .. Len(vWorkQueue')
      BY <1>b, <2>1
    <3> QED BY <2>1, <2>3, <3>1, <3>2 DEF InTurn
  <2> QED BY <2>4, <2>5, <2>6 DEF WalkInv
<1>2. CASE ~(i < n)
  <2>1. i' = 1 /\ waiting' = {} /\ vWorkQueue' = <<>> /\ pc' = "idle"
    BY <1>2, <1>b DEF NextInQueue
  <2>2. QueueOk'
    BY <1>b, <2>1 DEF QueueOk
  <2>3. OrphansOk'
    BY <1>a, <1>b, <1>d, <1>e, <2>1 DEF OrphansOk
  <2>4. OrphansInTurn'
    <3>1. i + 1 .. n = {}
      BY <1>b, <1>2
    <3>2. \A o \in mapOrphanBlocks : ~InTurn(o)
      BY <1>b, <1>c, <1>d, <3>1 DEF InTurn
    <3> QED BY <1>a, <1>b, <3>2 DEF OrphansInTurn
  <2> QED BY <2>2, <2>3, <2>4 DEF WalkInv
<1> QED BY <1>1, <1>2

(* Each step keeps the walk in order.                                       *)
LEMMA WalkStep == WalkInv /\ StoredOk /\ [Next]_vars => WalkInv'
<1> SUFFICES ASSUME WalkInv, StoredOk, [Next]_vars PROVE WalkInv'
  OBVIOUS
<1>a. QueueOk /\ OrphansOk /\ OrphansInTurn
  BY DEF WalkInv
<1>b. pc \in {"idle", "loop", "reset", "rewrite"} => block = NoBlock
  BY <1>a DEF QueueOk
<1>c. NoBlock \notin Block /\ \A o \in Block \ {Genesis} : Pprev[o] \in Block /\ o # NoBlock
  BY BlockTreeAssumption
<1>d. mapOrphanBlocks \subseteq Block \ {Genesis}
  BY <1>a DEF OrphansOk
<1>e. ASSUME pc \in {"idle", "reset", "rewrite"}
      PROVE  /\ vWorkQueue = <<>> /\ i = 1 /\ waiting = {}
             /\ mapOrphanBlocksByPrev = mapOrphanBlocks
             /\ \A o \in mapOrphanBlocks : ~InTurn(o)
  <2>1. block = NoBlock /\ vWorkQueue = <<>> /\ i = 1 /\ waiting = {}
    BY <1>a, <1>b, <1>e DEF QueueOk
  <2>2. i + 1 .. Len(vWorkQueue) = {}
    BY <2>1
  <2>3. \A o \in mapOrphanBlocks : ~InTurn(o)
    BY <1>c, <1>d, <2>1, <2>2 DEF InTurn
  <2> QED BY <1>a, <2>1, <2>3 DEF OrphansOk
<1>1. ASSUME NEW b \in Block \ {Genesis}, Deliver(b) PROVE WalkInv'
  <2>1. CASE ReceiveRefused(b) \/ ReceiveDuplicateOrphan(b)
    BY <1>b, <2>1, WalkUndisturbed DEF ReceiveRefused, ReceiveDuplicateOrphan
  <2>2. CASE ReceiveOrphan(b)
    <3>1. /\ pc = "idle" /\ Pprev[b] \notin mapBlockIndex /\ b \notin mapOrphanBlocks
          /\ mapOrphanBlocks' = mapOrphanBlocks \cup {b}
          /\ mapOrphanBlocksByPrev' = mapOrphanBlocksByPrev \cup {b}
          /\ setStakeSeenOrphan' = setStakeSeenOrphan \cup StakesOf({b})
          /\ UNCHANGED <<mapBlockIndex, vWorkQueue, i, waiting, block, pc>>
      BY <2>2 DEF ReceiveOrphan, Refused, AlreadyHave, loop
    <3>2. setStakeSeenOrphan' \subseteq StakesOf(mapOrphanBlocks')
      BY <1>a, <3>1 DEF OrphansOk, StakesOf
    <3>3. QueueOk'
      BY <1>a, <3>1 DEF QueueOk
    <3>4. OrphansOk'
      BY <1>a, <1>e, <3>1, <3>2 DEF OrphansOk
    <3>5. OrphansInTurn'
      BY <1>a, <1>e, <3>1 DEF OrphansInTurn
    <3> QED BY <3>3, <3>4, <3>5 DEF WalkInv
  <2>3. CASE Receive(b)
    <3>1. /\ pc = "idle" /\ block' = b /\ pc' = "accept"
          /\ UNCHANGED <<mapBlockIndex, mapOrphanBlocks, mapOrphanBlocksByPrev,
                         setStakeSeenOrphan, vWorkQueue, i, waiting>>
      BY <2>3 DEF Receive, orphans, loop
    <3>2. QueueOk'
      BY <1>a, <1>c, <1>e, <3>1 DEF QueueOk
    <3>3. OrphansOk'
      BY <1>a, <1>e, <3>1 DEF OrphansOk
    <3>4. OrphansInTurn'
      BY <1>a, <1>e, <3>1 DEF OrphansInTurn
    <3> QED BY <3>2, <3>3, <3>4 DEF WalkInv
  <2> QED BY <1>1, <2>1, <2>2, <2>3 DEF Deliver
<1>2. ASSUME NEW c \in Signed, ProcessSyncCheckpointPending(c) \/ ProcessSyncCheckpoint(c)
      PROVE  WalkInv'
  BY <1>2, <1>b, WalkUndisturbed DEF ProcessSyncCheckpointPending, ProcessSyncCheckpoint
<1>3. CASE AcceptBlockFails
  BY <1>3, <1>a, WalkRefused DEF AcceptBlockFails, QueueOk
<1>4. CASE SetBestChainFails
  BY <1>4, <1>a, WalkRefused DEF SetBestChainFails, CanBeBest, QueueOk
<1>5. CASE AddToBlockIndex
  <2>1. /\ pc = "accept" /\ block \notin mapBlockIndex /\ block \in Block
        /\ mapBlockIndex' = mapBlockIndex \cup {block} /\ pc' \in {"best", "pending"}
        /\ UNCHANGED <<mapOrphanBlocks, mapOrphanBlocksByPrev,
                       setStakeSeenOrphan, vWorkQueue, i, waiting, block>>
    BY <1>5, <1>a DEF AddToBlockIndex, Acceptable, QueueOk, orphans, loop
  <2>2. QueueOk'
    BY <1>a, <1>c, <2>1 DEF QueueOk
  <2>3. OrphansOk'
    BY <1>a, <2>1 DEF OrphansOk
  <2>4. OrphansInTurn'
    BY <1>a, <2>1 DEF OrphansInTurn, InTurn
  <2> QED BY <2>2, <2>3, <2>4 DEF WalkInv
<1>6. CASE SetBestChain
  BY <1>6, <1>a, WalkUndisturbed DEF SetBestChain, QueueOk
<1>7. CASE AcceptPendingSyncCheckpoint
  <2>1. pc = "pending" /\ block # NoBlock /\ mapBlockIndex' = mapBlockIndex
    BY <1>7, <1>a DEF AcceptPendingSyncCheckpoint, QueueOk
  <2>2. CASE AcceptBlockDone
    BY <2>1, <2>2, WalkAccepted DEF AcceptBlockDone
  <2>3. CASE pc' = "write" /\ UNCHANGED <<orphans, asked, block, loop, restarts>>
    BY <2>1, <2>3, WalkUndisturbed
  <2> QED BY <1>7, <2>2, <2>3 DEF AcceptPendingSyncCheckpoint
<1>8. CASE Write
  <2>1. CASE block # NoBlock
    BY <1>8, <2>1, WalkAccepted DEF Write
  <2>2. CASE block = NoBlock
    BY <1>8, <2>2, WalkUndisturbed DEF Write, loop
  <2> QED BY <2>1, <2>2
<1>9. ASSUME NEW o \in Block, NextOrphan(o) PROVE WalkInv'
  <2>1. /\ pc = "loop" /\ block = NoBlock /\ o \in waiting /\ waiting' = waiting \ {o}
        /\ block' = o /\ pc' = "accept" /\ vWorkQueue # <<>>
        /\ UNCHANGED <<mapBlockIndex, mapOrphanBlocks, mapOrphanBlocksByPrev,
                       setStakeSeenOrphan, vWorkQueue, i>>
    BY <1>9, <1>a, <1>b DEF NextOrphan, QueueOk, orphans
  <2>2. QueueOk'
    BY <1>a, <1>c, <2>1 DEF QueueOk
  <2>3. OrphansOk'
    BY <1>a, <1>c, <1>d, <2>1 DEF OrphansOk
  <2>4. OrphansInTurn'
    BY <1>a, <1>c, <1>d, <2>1 DEF OrphansInTurn, InTurn
  <2> QED BY <2>2, <2>3, <2>4 DEF WalkInv
<1>10. CASE NextInQueue
  BY <1>10, WalkNext
<1>11. CASE Version \/ ResetSyncCheckpoint \/ ResetFails \/ ResetWrite
  BY <1>11, <1>b, WalkUndisturbed DEF Version, ResetSyncCheckpoint, ResetFails, ResetWrite
<1>12. CASE Restart
  <2>1. QueueOk'
    BY <1>12 DEF Restart, QueueOk
  <2>2. OrphansOk' /\ OrphansInTurn'
    BY <1>12 DEF Restart, OrphansOk, OrphansInTurn, StakesOf
  <2> QED BY <2>1, <2>2 DEF WalkInv
<1>13. CASE UNCHANGED vars
  <2>1. QueueOk'
    BY <1>13, <1>a DEF vars, loop, QueueOk
  <2>2. OrphansOk' /\ OrphansInTurn'
    BY <1>13, <1>a DEF vars, loop, orphans, OrphansOk, OrphansInTurn, InTurn
  <2> QED BY <2>1, <2>2 DEF WalkInv
<1> QED
  BY <1>1, <1>2, <1>3, <1>4, <1>5, <1>6, <1>7, <1>8, <1>9, <1>10, <1>11, <1>12, <1>13
    DEF Next, Handler

-----------------------------------------------------------------------------
(* The whole inductive invariant of the block relay.                        *)
HoldingInv == SyncInv /\ StoredOk /\ WalkInv

(* It holds in every reachable state.                                       *)
LEMMA HoldingInvHolds == Spec => []HoldingInv
<1>1. Init => WalkInv
  <2> SUFFICES ASSUME Init PROVE WalkInv
    OBVIOUS
  <2>1. QueueOk
    BY DEF Init, QueueOk
  <2>2. OrphansOk /\ OrphansInTurn
    BY DEF Init, OrphansOk, OrphansInTurn, StakesOf
  <2> QED BY <2>1, <2>2 DEF WalkInv
<1>2. Init => HoldingInv
  BY <1>1, SyncInvInit, StoredInit DEF HoldingInv
<1>3. HoldingInv /\ [Next]_vars => HoldingInv'
  BY SyncInvStep, StoredStep, WalkStep DEF HoldingInv, WalkInv
<1> QED BY <1>2, <1>3, PTL DEF Spec

(* The state of the relay always has its declared shape: in particular the  *)
(* best block and the checkpoint are indexed, and ProcessBlock only visits  *)
(* orphans that exist.                                                      *)
THEOREM BlockRelayTypeCorrect == Spec => []TypeOK
<1>1. HoldingInv => TypeOK
  <2> SUFFICES ASSUME HoldingInv PROVE TypeOK
    OBVIOUS
  <2>1. SyncInv /\ StoredOk /\ QueueOk /\ OrphansOk
    BY DEF HoldingInv, WalkInv
  <2>2. hashPendingCheckpoint \in Block \cup {NoBlock}
    BY <2>1, CheckpointAssumption, BlockRelayAssumption DEF SyncInv, Locals
  <2>3. setStakeSeenOrphan \subseteq StakesOf(Block)
    <3>1. mapOrphanBlocks \subseteq Block
      BY <2>1 DEF OrphansOk
    <3> QED BY <2>1, <3>1, StakesGrow DEF OrphansOk
  <2>4. i \in 1 .. Len(vWorkQueue) + 1
    BY <2>1 DEF QueueOk
  <2> QED
    BY <2>1, <2>2, <2>3, <2>4 DEF TypeOK, StoredOk, QueueOk, OrphansOk
<1> QED BY <1>1, HoldingInvHolds, PTL

(* No deleted block is reached through mapOrphanBlocksByPrev, in whatever   *)
(* order the children of a block are visited and accepted or refused.       *)
THEOREM OrphanPointersSafe == Spec => []OrphanPointersLive
<1>1. HoldingInv => OrphanPointersLive
  BY DEF HoldingInv, WalkInv, QueueOk, OrphansOk, OrphanPointersLive
<1> QED BY <1>1, HoldingInvHolds, PTL

(* A proof of stake is held against other orphans only while an orphan that *)
(* carries it is kept.                                                      *)
THEOREM OrphanStakesReleased == Spec => []StakeSeenOrphanReleased
<1>1. HoldingInv => StakeSeenOrphanReleased
  BY DEF HoldingInv, WalkInv, OrphansOk, StakeSeenOrphanReleased
<1> QED BY <1>1, HoldingInvHolds, PTL

(* Between two messages an orphan is kept beside its indexed parent only    *)
(* when the parent's chain does not connect.                                *)
THEOREM OrphansNotStuck == Spec => []ValidOrphanNotStuck
<1>1. HoldingInv => ValidOrphanNotStuck
  <2> SUFFICES ASSUME HoldingInv, pc = "idle", NEW o \in mapOrphanBlocks,
                      Pprev[o] \in mapBlockIndex, Ancestors[Pprev[o]] \subseteq Connects
               PROVE  FALSE
    BY DEF ValidOrphanNotStuck
  <2>1. QueueOk /\ OrphansOk /\ OrphansInTurn
    BY DEF HoldingInv, WalkInv
  <2>2. block = NoBlock /\ vWorkQueue = <<>> /\ i = 1 /\ waiting = {}
    BY <2>1 DEF QueueOk
  <2>3. Pprev[o] # NoBlock
    BY <2>1, BlockTreeAssumption DEF OrphansOk
  <2>4. i + 1 .. Len(vWorkQueue) = {}
    BY <2>2
  <2> QED BY <2>1, <2>2, <2>3, <2>4 DEF OrphansInTurn, InTurn
<1> QED BY <1>1, HoldingInvHolds, PTL

=============================================================================
