----------------------------- MODULE ChainState -----------------------------
(***************************************************************************)
(* How the node moves its best chain (main.cpp: AddToBlockIndex,            *)
(* SetBestChain, SetBestChainInner, Reorganize, ConnectBlock,               *)
(* DisconnectBlock, InvalidChainFound; checkpoints.cpp: the calls of        *)
(* SetBestChain for a checkpoint; txdb-leveldb.cpp: the TxnBegin /          *)
(* TxnCommit / TxnAbort batch and LoadBlockIndex).                          *)
(*                                                                          *)
(* Everything here runs under cs_main, so the steps of one SetBestChain are *)
(* never interleaved with those of another; what can come between two       *)
(* steps is the death of the process.  A step is one ConnectBlock or        *)
(* DisconnectBlock inside the batch, one commit, or one transaction handed  *)
(* to the memory pool.  Memory written between two commits is lost with the *)
(* process, so it is updated together with the commit before it.            *)
(***************************************************************************)
EXTENDS MemPool, BlockTree, FiniteSets

CONSTANTS
    Vtx,              \* Vtx[b]: the transactions of b, in order
    BadBlock,         \* blocks refused whatever the transaction index holds:
                      \* CheckBlock, sigops, scripts, fees, rewards
    CoinbaseMaturity, \* nCoinbaseMaturity
    LastCheckpoint,   \* Checkpoints::GetTotalBlocksEstimate()
    Checkpoint,       \* the blocks a hardened or a signed checkpoint names
    MaxCrashes        \* bound on the number of crashes explored

TxsOf(b) == {Vtx[b][i] : i \in DOMAIN Vtx[b]}

ASSUME ChainAssumption ==
    /\ NotIndexed \notin Block
    /\ Vtx \in [Block -> Seq(Tx)]
    /\ BadBlock \subseteq Block \ {Genesis}
    /\ Checkpoint \subseteq Block \ {Genesis}
    /\ CoinbaseMaturity \in Nat /\ LastCheckpoint \in Nat /\ MaxCrashes \in Nat

(* CheckBlock refuses a block that holds a transaction twice, AcceptBlock   *)
(* one whose coinbase does not start with its height, so on one chain a     *)
(* coinbase cannot come back.  LoadBlockIndex makes the genesis block of a  *)
(* coinbase alone.                                                          *)
ASSUME CoinbaseAssumption ==
    \A b \in Block :
        /\ \A i, j \in DOMAIN Vtx[b] : Vtx[b][i] = Vtx[b][j] => i = j
        /\ \A a \in Ancestors[b] \ {b} :
            \A t \in TxsOf(a) \cap TxsOf(b) : ~IsCoinBase(t)
    /\ \A t \in TxsOf(Genesis) : IsCoinBase(t)

VARIABLES
    mapBlockIndex,      \* the blocks known in memory
    pnext,              \* CBlockIndex::pnext
    pindexBest,         \* with hashBestChain, nBestHeight, nBestChainTrust
    nBestInvalidTrust,
    diskBlocks,         \* LevelDB "blockindex" records, without hashNext
    diskInvalidTrust,   \* LevelDB "bnBestInvalidTrust"
    disk,               \* LevelDB: hashNext, best, and the "tx" records
    batch,              \* disk as seen through CTxDB::activeBatch
    mempool,
    pc,                 \* where SetBestChain stands
    pindexNew,          \* the block SetBestChain was called for
    vDisconnect, vConnect,  \* the branches Reorganize swaps
    done,                   \* how many of their blocks it has treated
    vpindexSecondary,       \* blocks still to be connected one by one
    vResurrect, vDelete,    \* transactions still to be handed to the pool
    crashes

memory == <<mapBlockIndex, pnext, pindexBest, nBestInvalidTrust>>
diskIndex == <<diskBlocks, diskInvalidTrust>>
branches == <<pindexNew, vDisconnect, vConnect>>
queues == <<vResurrect, vDelete>>
vars == <<memory, diskIndex, disk, batch, mempool, pc, branches, done,
          vpindexSecondary, queues, crashes>>

-----------------------------------------------------------------------------
(* The blocks ConnectInputs walks from pindexBlock to test maturity.        *)
Recent(b) == {a \in Ancestors[b] : Height[b] - Height[a] < CoinbaseMaturity}

(* Mutant: the double-spend test of ConnectInputs left out.                 *)
TxConnects_NoSpentTest(txdb, b, i) ==
    \A o \in Vin[Vtx[b][i]] :
        txdb.pos[o[1]] # NotIndexed \/ o[1] \in {Vtx[b][j] : j \in 1 .. i - 1}

(* ConnectBlock, per transaction: the BIP30 test, FetchInputs (every        *)
(* previous transaction is indexed or stands earlier in the block),         *)
(* ConnectInputs (mature, not spent before).                                *)
TxConnects(txdb, b, i) ==
    LET t == Vtx[b][i]
        earlier == {Vtx[b][j] : j \in 1 .. i - 1}
    IN  /\ txdb.pos[t] # NotIndexed => Outs(t) \subseteq txdb.spent
        /\ InRange(t)
        /\ \A o \in Vin[t] :
            /\ txdb.pos[o[1]] # NotIndexed \/ o[1] \in earlier
            /\ Minted(o[1]) => txdb.pos[o[1]] \notin Recent(b)
                               /\ (CoinbaseMaturity > 0 => o[1] \notin earlier)
            /\ \/ o \in ZeroValue
               \/ /\ o \notin txdb.spent \/ o[1] \in earlier
                  /\ \A e \in earlier : o \notin Vin[e]

ConnectBlockOk(txdb, b) ==
    /\ b \notin BadBlock
    /\ \A i \in DOMAIN Vtx[b] : TxConnects(txdb, b, i)

(* ConnectBlock, on success: index the block's transactions, mark what they *)
(* spend, and write this block's and the previous one's hashNext.           *)
ConnectBlock(txdb, b) ==
    [txdb EXCEPT
        !.pos = [t \in Tx |-> IF t \in TxsOf(b) THEN b ELSE @[t]],
        !.spent = {o \in @ : o[1] \notin TxsOf(b)}
                    \cup UNION {Vin[t] : t \in TxsOf(b)},
        !.hashNext = [@ EXCEPT ![b] = pnext[b], ![Pprev[b]] = b]]

(* Mutant: the block undone first transaction first.                        *)
DisconnectBlockOk_Forward(txdb, b) ==
    \A i \in DOMAIN Vtx[b] : \A o \in Vin[Vtx[b][i]] :
        /\ txdb.pos[o[1]] # NotIndexed
        /\ \A j \in DOMAIN Vtx[b] : j < i => Vtx[b][j] # o[1]

(* DisconnectInputs finds the index entry of every previous transaction,    *)
(* the block being undone last transaction first.                           *)
DisconnectBlockOk(txdb, b) ==
    \A i \in DOMAIN Vtx[b] : \A o \in Vin[Vtx[b][i]] :
        /\ txdb.pos[o[1]] # NotIndexed
        /\ o[2] < NOut[o[1]]
        /\ \A j \in DOMAIN Vtx[b] : j > i => Vtx[b][j] # o[1]

(* Mutant: the spent pointers of the inputs are not released.               *)
DisconnectBlock_KeepSpent(txdb, b) ==
    [txdb EXCEPT
        !.pos = [t \in Tx |-> IF t \in TxsOf(b) THEN NotIndexed ELSE @[t]],
        !.spent = {o \in @ : o[1] \notin TxsOf(b)},
        !.hashNext[Pprev[b]] = NoBlock]

DisconnectBlock(txdb, b) ==
    [txdb EXCEPT
        !.pos = [t \in Tx |-> IF t \in TxsOf(b) THEN NotIndexed ELSE @[t]],
        !.spent = {o \in @ : o[1] \notin TxsOf(b)}
                    \ UNION {Vin[t] : t \in TxsOf(b)},
        !.hashNext[Pprev[b]] = NoBlock]

-----------------------------------------------------------------------------
(* Reorganize: what a disconnected block gives back to the memory pool (the *)
(* minted transactions among them, which the code does not queue, are       *)
(* passed over by Resurrect).                                               *)
Resurrected(b) == IF Height[b] > LastCheckpoint THEN Vtx[b] ELSE <<>>

-----------------------------------------------------------------------------
(* The genesis block is made best without ConnectBlock, so its coinbase is  *)
(* never indexed and cannot be spent.                                       *)
Init ==
    /\ mapBlockIndex = {Genesis}
    /\ pnext = [b \in Block |-> NoBlock]
    /\ pindexBest = Genesis
    /\ nBestInvalidTrust = 0
    /\ diskBlocks = {Genesis}
    /\ diskInvalidTrust = 0
    /\ disk = [hashNext |-> [b \in Block |-> NoBlock],
               best     |-> Genesis,
               pos      |-> [t \in Tx |-> NotIndexed],
               spent    |-> {}]
    /\ batch = disk
    /\ mempool = EmptyPool
    /\ pc = "idle"
    /\ pindexNew = NoBlock
    /\ vDisconnect = <<>> /\ vConnect = <<>> /\ done = 0
    /\ vpindexSecondary = <<>> /\ vResurrect = <<>> /\ vDelete = <<>>
    /\ crashes = 0

(* The locals of SetBestChain and Reorganize as they go out of scope.       *)
Return ==
    /\ pc' = "idle"
    /\ pindexNew' = NoBlock
    /\ vDisconnect' = <<>> /\ vConnect' = <<>> /\ done' = 0
    /\ vpindexSecondary' = <<>> /\ vResurrect' = <<>> /\ vDelete' = <<>>

(* InvalidChainFound(b): the record of the best invalid trust is kept in    *)
(* memory and written to disk outside the batch.                            *)
InvalidChainFound(b) ==
    IF Trust[b] > nBestInvalidTrust
      THEN nBestInvalidTrust' = Trust[b] /\ diskInvalidTrust' = Trust[b]
      ELSE UNCHANGED <<nBestInvalidTrust, diskInvalidTrust>>

-----------------------------------------------------------------------------
(* Mutant: a block with as much trust as the best one is preferred to it.   *)
AddToBlockIndex_Tie(b) ==
    /\ pc = "idle" /\ b \notin mapBlockIndex /\ Pprev[b] \in mapBlockIndex
    /\ mapBlockIndex' = mapBlockIndex \cup {b}
    /\ diskBlocks' = diskBlocks \cup {b}
    /\ IF Trust[b] >= Trust[pindexBest]
         THEN pc' = "begin" /\ pindexNew' = b
         ELSE UNCHANGED <<pc, pindexNew>>
    /\ UNCHANGED <<pnext, pindexBest, nBestInvalidTrust, diskInvalidTrust, disk,
                   batch, mempool, vDisconnect, vConnect, done,
                   vpindexSecondary, queues, crashes>>

(* Mutant: the block's index entry is not written to disk.                  *)
AddToBlockIndex_NotWritten(b) ==
    /\ pc = "idle" /\ b \notin mapBlockIndex /\ Pprev[b] \in mapBlockIndex
    /\ mapBlockIndex' = mapBlockIndex \cup {b}
    /\ IF Trust[b] > Trust[pindexBest]
         THEN pc' = "begin" /\ pindexNew' = b
         ELSE UNCHANGED <<pc, pindexNew>>
    /\ UNCHANGED <<pnext, pindexBest, nBestInvalidTrust, diskIndex, disk,
                   batch, mempool, vDisconnect, vConnect, done,
                   vpindexSecondary, queues, crashes>>

(* Mutant: only a child of the best block is offered to SetBestChain.       *)
AddToBlockIndex_ChildOnly(b) ==
    /\ pc = "idle" /\ b \notin mapBlockIndex /\ Pprev[b] \in mapBlockIndex
    /\ mapBlockIndex' = mapBlockIndex \cup {b}
    /\ diskBlocks' = diskBlocks \cup {b}
    /\ IF Pprev[b] = pindexBest
         THEN pc' = "begin" /\ pindexNew' = b
         ELSE UNCHANGED <<pc, pindexNew>>
    /\ UNCHANGED <<pnext, pindexBest, nBestInvalidTrust, diskInvalidTrust, disk,
                   batch, mempool, vDisconnect, vConnect, done,
                   vpindexSecondary, queues, crashes>>

(* AcceptBlock has let b through: AddToBlockIndex commits its index entry,  *)
(* then calls SetBestChain if it carries more trust than the best block.    *)
AddToBlockIndex(b) ==
    /\ pc = "idle"
    /\ b \notin mapBlockIndex
    /\ Pprev[b] \in mapBlockIndex
    /\ mapBlockIndex' = mapBlockIndex \cup {b}
    /\ diskBlocks' = diskBlocks \cup {b}
    /\ IF Trust[b] > Trust[pindexBest]
         THEN pc' = "begin" /\ pindexNew' = b
         ELSE UNCHANGED <<pc, pindexNew>>
    /\ UNCHANGED <<pnext, pindexBest, nBestInvalidTrust, diskInvalidTrust, disk,
                   batch, mempool, vDisconnect, vConnect, done,
                   vpindexSecondary, queues, crashes>>

IsInMainChain(b) == b # NoBlock /\ (pnext[b] # NoBlock \/ b = pindexBest)

(* A checkpoint has become known (AcceptPendingSyncCheckpoint,              *)
(* ProcessSyncCheckpoint) or is reset (ResetSyncCheckpoint): unless it is   *)
(* in the main chain already, SetBestChain is called for it, whatever its   *)
(* trust.  Which checkpoint is enforced when is BlockRelay's subject; here  *)
(* it may be any that is known, at any time between two blocks.             *)
EnforceCheckpoint(c) ==
    /\ pc = "idle"
    /\ c \in Checkpoint \cap mapBlockIndex
    /\ ~IsInMainChain(c)
    /\ pc' = "begin" /\ pindexNew' = c
    /\ UNCHANGED <<memory, diskIndex, disk, batch, mempool, vDisconnect,
                   vConnect, done, vpindexSecondary, queues, crashes>>

(* SetBestChain: TxnBegin, then extend the best chain, or work out what to  *)
(* reorganise in one batch and what to connect afterwards.                  *)
SetBestChain ==
    /\ pc = "begin"
    /\ batch' = disk
    /\ IF Pprev[pindexNew] = pindexBest
         THEN /\ pc' = "extend"
              /\ UNCHANGED <<vDisconnect, vConnect, vpindexSecondary>>
         ELSE LET mid == Intermediate(pindexNew, pindexBest)
                  fork == Fork(pindexBest, mid)
              IN  /\ pc' = "reorganize"
                  /\ vpindexSecondary' = PathUp(pindexNew, mid)
                  /\ vDisconnect' = PathDown(pindexBest, fork)
                  /\ vConnect' = PathUp(mid, fork)
    /\ UNCHANGED <<memory, diskIndex, disk, mempool, pindexNew, done, queues,
                   crashes>>

(* Mutant: the block's transactions stay in the memory pool.                *)
SetBestChainInner_NoRemove(b) ==
    LET connected == [ConnectBlock(batch, b) EXCEPT !.best = b] IN
    /\ ConnectBlockOk(batch, b)
    /\ disk' = connected /\ batch' = connected
    /\ pnext' = [pnext EXCEPT ![Pprev[b]] = b]
    /\ UNCHANGED <<mapBlockIndex, nBestInvalidTrust, diskIndex, mempool, crashes>>

(* SetBestChainInner(b) up to its commit, and what follows it: the new      *)
(* pnext, and the block's transactions leave the pool, their rivals stay.   *)
SetBestChainInner(b) ==
    LET connected == [ConnectBlock(batch, b) EXCEPT !.best = b] IN
    /\ ConnectBlockOk(batch, b)
    /\ disk' = connected
    /\ batch' = connected
    /\ pnext' = [pnext EXCEPT ![Pprev[b]] = b]
    /\ mempool' = Drop(mempool, TxsOf(b))
    /\ UNCHANGED <<mapBlockIndex, nBestInvalidTrust, diskIndex, crashes>>

(* "New best block": the assignments at the end of SetBestChain.            *)
NewBest ==
    /\ pindexBest' = pindexNew
    /\ Return

(* hashPrevBlock == hashBestChain                                           *)
Extend ==
    /\ pc = "extend"
    /\ SetBestChainInner(pindexNew)
    /\ NewBest

(* TxnAbort and InvalidChainFound; pindexBest keeps its value.              *)
ExtendFails ==
    /\ pc = "extend"
    /\ ~ConnectBlockOk(batch, pindexNew)
    /\ batch' = disk
    /\ InvalidChainFound(pindexNew)
    /\ Return
    /\ UNCHANGED <<mapBlockIndex, pnext, pindexBest, diskBlocks, disk, mempool,
                   crashes>>

-----------------------------------------------------------------------------
(* The next block Reorganize treats, in vDisconnect and then in vConnect.   *)
Disconnecting == pc = "reorganize" /\ done < Len(vDisconnect)
Connecting == /\ pc = "reorganize"
              /\ done \in Len(vDisconnect) .. Len(vDisconnect) + Len(vConnect) - 1
ToDisconnect == vDisconnect[done + 1]
ToConnect == vConnect[done + 1 - Len(vDisconnect)]

(* "Disconnect shorter branch"                                              *)
ReorganizeDisconnect ==
    /\ Disconnecting
    /\ DisconnectBlockOk(batch, ToDisconnect)
    /\ batch' = DisconnectBlock(batch, ToDisconnect)
    /\ vResurrect' = Resurrected(ToDisconnect) \o vResurrect
    /\ done' = done + 1
    /\ UNCHANGED <<memory, diskIndex, disk, mempool, pc, branches,
                   vpindexSecondary, vDelete, crashes>>

(* "Connect longer branch"                                                  *)
ReorganizeConnect ==
    /\ Connecting
    /\ ConnectBlockOk(batch, ToConnect)
    /\ batch' = ConnectBlock(batch, ToConnect)
    /\ vDelete' = vDelete \o Vtx[ToConnect]
    /\ done' = done + 1
    /\ UNCHANGED <<memory, diskIndex, disk, mempool, pc, branches,
                   vpindexSecondary, vResurrect, crashes>>

(* Reorganize returns false: TxnAbort and InvalidChainFound.                *)
ReorganizeFails ==
    /\ \/ Disconnecting /\ ~DisconnectBlockOk(batch, ToDisconnect)
       \/ Connecting /\ ~ConnectBlockOk(batch, ToConnect)
    /\ batch' = disk
    /\ InvalidChainFound(pindexNew)
    /\ Return
    /\ UNCHANGED <<mapBlockIndex, pnext, pindexBest, diskBlocks, disk, mempool,
                   crashes>>

(* The block Reorganize was called for.  The branch to connect is empty     *)
(* only if that is an ancestor of a best block that never was connected.    *)
ReorganizedTo ==
    IF vConnect # <<>> THEN vConnect[Len(vConnect)]
                       ELSE Pprev[vDisconnect[Len(vDisconnect)]]

(* Mutant: pnext of the abandoned branch is not cleared.                    *)
ReorganizeCommit_StalePnext ==
    /\ pc = "reorganize"
    /\ done = Len(vDisconnect) + Len(vConnect)
    /\ disk' = [batch EXCEPT !.best = ReorganizedTo]
    /\ batch' = disk'
    /\ pnext' = [b \in Block |->
            IF \E i \in DOMAIN vConnect : Pprev[vConnect[i]] = b
              THEN CHOOSE c \in Range(vConnect) : Pprev[c] = b ELSE pnext[b]]
    /\ pc' = "pool"
    /\ UNCHANGED <<mapBlockIndex, pindexBest, nBestInvalidTrust, diskIndex,
                   mempool, branches, done, vpindexSecondary, queues, crashes>>

(* WriteHashBestChain and TxnCommit, then pnext of both branches.           *)
ReorganizeCommit ==
    /\ pc = "reorganize"
    /\ done = Len(vDisconnect) + Len(vConnect)
    /\ disk' = [batch EXCEPT !.best = ReorganizedTo]
    /\ batch' = disk'
    /\ pnext' = [b \in Block |->
            IF \E i \in DOMAIN vConnect : Pprev[vConnect[i]] = b
              THEN CHOOSE c \in Range(vConnect) : Pprev[c] = b
            ELSE IF \E i \in DOMAIN vDisconnect : Pprev[vDisconnect[i]] = b
              THEN NoBlock ELSE pnext[b]]
    /\ pc' = "pool"
    /\ UNCHANGED <<mapBlockIndex, pindexBest, nBestInvalidTrust, diskIndex,
                   mempool, branches, done, vpindexSecondary, queues, crashes>>

(* "Resurrect memory transactions": AcceptToMemoryPool, while pindexBest    *)
(* is still the block the chain has just left.                              *)
Resurrect ==
    /\ pc = "pool" /\ vResurrect # <<>>
    /\ LET t == Head(vResurrect) IN
        mempool' = IF ~Minted(t) /\ Acceptable(mempool, disk, t, Recent(pindexBest))
                     THEN AddUnchecked(mempool, t) ELSE mempool
    /\ vResurrect' = Tail(vResurrect)
    /\ UNCHANGED <<memory, diskIndex, disk, batch, pc, branches, done,
                   vpindexSecondary, vDelete, crashes>>

(* "Delete redundant memory transactions that are in the connected branch"  *)
DeleteRedundant ==
    /\ pc = "pool" /\ vResurrect = <<>> /\ vDelete # <<>>
    /\ LET t == Head(vDelete) IN
        mempool' = RemoveConflicts(Remove(mempool, t, FALSE), t)
    /\ vDelete' = Tail(vDelete)
    /\ UNCHANGED <<memory, diskIndex, disk, batch, pc, branches, done,
                   vpindexSecondary, vResurrect, crashes>>

(* SetBestChain, "Connect further blocks": each in a batch of its own.      *)
Secondary == pc = "pool" /\ vResurrect = <<>> /\ vDelete = <<>>

ConnectSecondary ==
    /\ Secondary /\ vpindexSecondary # <<>>
    /\ SetBestChainInner(Head(vpindexSecondary))
    /\ vpindexSecondary' = Tail(vpindexSecondary)
    /\ UNCHANGED <<pindexBest, pc, branches, done, queues>>

(* "errors now are not fatal": TxnAbort, InvalidChainFound, and the loop is *)
(* left, but the assignments of a new best block follow all the same.       *)
SecondaryFails ==
    /\ Secondary /\ vpindexSecondary # <<>>
    /\ ~ConnectBlockOk(batch, Head(vpindexSecondary))
    /\ batch' = disk
    /\ InvalidChainFound(Head(vpindexSecondary))
    /\ NewBest
    /\ UNCHANGED <<mapBlockIndex, pnext, diskBlocks, disk, mempool, crashes>>

SetBestChainDone ==
    /\ Secondary /\ vpindexSecondary = <<>>
    /\ NewBest
    /\ UNCHANGED <<mapBlockIndex, pnext, nBestInvalidTrust, diskIndex, disk,
                   batch, mempool, crashes>>

-----------------------------------------------------------------------------
(* A loose transaction reaches AcceptToMemoryPool between two blocks.       *)
AcceptToMemoryPool(t) ==
    /\ pc = "idle"
    /\ Acceptable(mempool, disk, t, Recent(pindexBest))
    /\ mempool' = AddUnchecked(mempool, t)
    /\ UNCHANGED <<memory, diskIndex, disk, batch, pc, branches, done,
                   vpindexSecondary, queues, crashes>>

(* The process dies and starts again: the batch and all memory are lost,    *)
(* and CTxDB::LoadBlockIndex rebuilds the index from disk.                  *)
CrashAndLoadBlockIndex ==
    /\ crashes < MaxCrashes
    /\ crashes' = crashes + 1
    /\ mapBlockIndex' = diskBlocks
    /\ pnext' = disk.hashNext
    /\ pindexBest' = disk.best
    /\ nBestInvalidTrust' = diskInvalidTrust
    /\ batch' = disk
    /\ mempool' = EmptyPool
    /\ Return
    /\ UNCHANGED <<diskIndex, disk>>

Step == \/ SetBestChain
        \/ Extend \/ ExtendFails
        \/ ReorganizeDisconnect \/ ReorganizeConnect
        \/ ReorganizeFails \/ ReorganizeCommit
        \/ Resurrect \/ DeleteRedundant
        \/ ConnectSecondary \/ SecondaryFails \/ SetBestChainDone

Next == \/ \E b \in Block \ {Genesis} : AddToBlockIndex(b)
        \/ \E c \in Checkpoint : EnforceCheckpoint(c)
        \/ \E t \in Tx : AcceptToMemoryPool(t)
        \/ Step
        \/ CrashAndLoadBlockIndex

(* SetBestChain is ordinary sequential code of the thread that called it.   *)
Spec == Init /\ [][Next]_vars /\ WF_vars(Step)

(* After SecondaryFails the best block is one that was never connected, and *)
(* a SetBestChain that starts from it undoes, or builds on, what is not in  *)
(* the index.  ConnectedSpec leaves those behaviours out: while the best    *)
(* block is not the committed one, SetBestChain is not called again before  *)
(* a restart.                                                               *)
StartsConnected == pc = "begin" => pindexBest = disk.best

ConnectedSpec == Init /\ [][Next /\ StartsConnected']_vars /\ WF_vars(Step)

-----------------------------------------------------------------------------
(* What a chain is, said of the blocks alone.                               *)
ChainTxs(b) == UNION {TxsOf(a) : a \in Ancestors[b] \ {Genesis}}

(* Block a can follow its ancestors: every input is the output of an        *)
(* earlier transaction, mature, and of value spent nowhere earlier.         *)
ValidBlock(a) ==
    /\ a \notin BadBlock
    /\ \A i \in DOMAIN Vtx[a] :
        LET before == ChainTxs(Pprev[a]) \cup {Vtx[a][j] : j \in 1 .. i - 1}
        IN  /\ Vtx[a][i] \notin before
            /\ InRange(Vtx[a][i])
            /\ \A o \in Vin[Vtx[a][i]] :
                /\ o[1] \in before
                /\ o \in ZeroValue \/ \A t \in before : o \notin Vin[t]
                /\ Minted(o[1]) => \A r \in Recent(a) : o[1] \notin TxsOf(r)

ValidChain(b) == \A a \in Ancestors[b] \ {Genesis} : ValidBlock(a)

(* The transaction index txdb is what connecting the chain of b in order    *)
(* gives.  Only outputs of value are compared: one without value may be     *)
(* spent twice, and undoing the second spend forgets the first.             *)
IsIndexOf(txdb, b) ==
    /\ \A t \in Tx : txdb.pos[t] = NotIndexed <=> t \notin ChainTxs(b)
    /\ \A a \in Ancestors[b] \ {Genesis} : \A t \in TxsOf(a) : txdb.pos[t] = a
    /\ txdb.spent \ ZeroValue = (UNION {Vin[t] : t \in ChainTxs(b)}) \ ZeroValue

(* hashNext (or pnext) leads from the genesis block to b and nowhere else.  *)
LeadsTo(next, b) ==
    \A a \in Block : \A c \in Block \ {Genesis} :
        next[a] = c <=> c \in Ancestors[b] /\ Pprev[c] = a

-----------------------------------------------------------------------------
TxDB == [hashNext : [Block -> Block \cup {NoBlock}], best : Block,
         pos : [Tx -> Block \cup {NotIndexed}], spent : SUBSET OutPoint]

(* The shape of the state; every block known in memory has its record on    *)
(* disk.                                                                    *)
TypeOK ==
    /\ mapBlockIndex \subseteq diskBlocks /\ diskBlocks \subseteq Block
    /\ pnext \in [Block -> Block \cup {NoBlock}]
    /\ pindexBest \in Block
    /\ nBestInvalidTrust \in Nat /\ diskInvalidTrust \in Nat
    /\ disk \in TxDB /\ batch \in TxDB
    /\ mempool.mapTx \subseteq Tx
    /\ pc \in {"idle", "begin", "extend", "reorganize", "pool"}
    /\ pindexNew \in Block \cup {NoBlock}
    /\ vDisconnect \in Seq(Block) /\ vConnect \in Seq(Block)
    /\ done \in 0 .. Len(vDisconnect) + Len(vConnect)
    /\ vpindexSecondary \in Seq(Block)
    /\ vResurrect \in Seq(Tx) /\ vDelete \in Seq(Tx)
    /\ crashes \in 0 .. MaxCrashes

(* Whatever is connected, disconnected, aborted or cut short by a crash,    *)
(* the committed transaction index is exactly that of the committed best    *)
(* chain, and the committed hashNext links lead to it.                      *)
DiskMatchesBest ==
    IsIndexOf(disk, disk.best) /\ LeadsTo(disk.hashNext, disk.best)

(* The committed best chain spends nothing twice, nothing immature and      *)
(* nothing that does not exist.                                             *)
BestChainValid == ValidChain(disk.best)

(* Reorganize never meets a block it cannot undo: DisconnectBlock's error   *)
(* returns ("ReadTxIndex failed", "prevout.n out of range") are dead.       *)
DisconnectNeverFails == Disconnecting => DisconnectBlockOk(batch, ToDisconnect)

(* Between two calls of SetBestChain, what memory holds of the chain is     *)
(* what a restart would read back, unless the best block is one that        *)
(* SetBestChain could not connect (see BestInValidWay).                     *)
MemoryMatchesDisk ==
    pc = "idle" /\ ValidChain(pindexBest) =>
        /\ mapBlockIndex = diskBlocks
        /\ pindexBest = disk.best
        /\ pnext = disk.hashNext
        /\ nBestInvalidTrust = diskInvalidTrust

(* The two maps of the memory pool agree through block connection,          *)
(* resurrection and conflict removal.                                       *)
PoolConsistent == PoolAgrees(mempool)

(* No transaction of the best chain waits in the pool.                      *)
PoolUnconfirmed ==
    pc = "idle" => \A t \in mempool.mapTx : disk.pos[t] = NotIndexed

(* main.cpp, SetBestChain: "errors now are not fatal, we still did a        *)
(* reorganisation to a new chain in a valid way": the chain the node is on  *)
(* when SetBestChain returns is one it has connected.                       *)
BestInValidWay == pc = "idle" => pindexBest = disk.best /\ ValidChain(pindexBest)

(* SetBestChain is about to leave the best block for a checkpoint with no   *)
(* more trust, and with less than b has.                                    *)
LoweredBelow(b) ==
    /\ pc = "begin"
    /\ Trust[pindexNew] <= Trust[pindexBest] /\ Trust[pindexNew] < Trust[b]

(* A known valid chain is eventually the best or beaten by a better one,    *)
(* unless the process dies first or a checkpoint with less trust is         *)
(* enforced: what that leaves behind is not offered to SetBestChain again.  *)
BestIsReached ==
    \A b \in Block :
        []~LoweredBelow(b) =>
            ((b \in mapBlockIndex /\ ValidChain(b))
                ~> (Trust[pindexBest] >= Trust[b] \/ crashes > 0))

(* The committed chain implements BestChain: a commit keeps the best block, *)
(* replaces it by a valid one with more trust, or enforces a checkpoint     *)
(* that was not in the chain; so a crash at any point, in the middle of a   *)
(* reorganisation too, loses at most work that the next block, or the next  *)
(* checkpoint, triggers again.                                              *)
Abstract == INSTANCE BestChain WITH
                known <- diskBlocks, best <- disk.best,
                Valid <- {b \in Block : ValidChain(b)}

ImplementsBestChain == Abstract!Spec

=============================================================================
