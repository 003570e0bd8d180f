-------------------------- MODULE ChainStateProofs --------------------------
(***************************************************************************)
(* Theorems about ChainState, for every block tree, every universe of       *)
(* transactions and any number of crashes: the pool's two maps agree; what  *)
(* ConnectBlock and DisconnectBlock do to the index of a chain; and, from   *)
(* it, that what is committed is at any moment the index of a valid chain,  *)
(* with more trust than the one before or with a checkpoint it did not hold.*)
(***************************************************************************)
EXTENDS ChainState, BlockTreeProofs, TLAPS

-----------------------------------------------------------------------------
(* Adding a transaction whose inputs no pooled transaction spends.          *)
LEMMA AddUncheckedAgrees ==
    ASSUME NEW p, NEW t, PoolAgrees(p), Vin[t] \cap DOMAIN p.mapNextTx = {}
    PROVE  PoolAgrees(AddUnchecked(p, t))
BY DEF PoolAgrees, AddUnchecked

(* Dropping any set of transactions, with their inputs.                     *)
LEMMA DropAgrees ==
    ASSUME NEW p, NEW D, PoolAgrees(p)
    PROVE  PoolAgrees(Drop(p, D))
<1> DEFINE gone == D \cap p.mapTx
           kept == DOMAIN p.mapNextTx \ UNION {Vin[d] : d \in gone}
           q == Drop(p, D)
<1>1. /\ q.mapTx = p.mapTx \ gone
      /\ DOMAIN q.mapNextTx = kept
      /\ \A o \in kept : q.mapNextTx[o] = p.mapNextTx[o]
  BY DEF Drop, Restrict
<1>2. \A t \in p.mapTx \ gone : Vin[t] \subseteq kept
  BY DEF PoolAgrees
<1>3. kept \subseteq UNION {Vin[t] : t \in p.mapTx \ gone}
  BY DEF PoolAgrees
<1>4. DOMAIN q.mapNextTx = UNION {Vin[t] : t \in q.mapTx}
  <2> HIDE DEF gone, kept, q
  <2> QED BY <1>1, <1>2, <1>3
<1>5. \A t \in q.mapTx : \A o \in Vin[t] : q.mapNextTx[o] = t
  BY <1>1, <1>2 DEF PoolAgrees
<1> QED BY <1>4, <1>5 DEF PoolAgrees

(* CTxMemPool::remove and CTxMemPool::removeConflicts only drop.            *)
LEMMA RemoveAgrees ==
    ASSUME NEW p, NEW t, NEW r, PoolAgrees(p)
    PROVE  PoolAgrees(Remove(p, t, r))
BY DropAgrees DEF Remove

(* CTxMemPool::removeConflicts keeps the two maps of the pool in step.      *)
LEMMA RemoveConflictsAgrees ==
    ASSUME NEW p, NEW t, PoolAgrees(p)
    PROVE  PoolAgrees(RemoveConflicts(p, t))
BY DropAgrees DEF RemoveConflicts

-----------------------------------------------------------------------------
(* No step of the chain parts the two maps of the pool.                     *)
LEMMA PoolStep == PoolConsistent /\ [Next]_vars => PoolConsistent'
<1> SUFFICES ASSUME PoolConsistent, [Next]_vars PROVE PoolConsistent'
  OBVIOUS
<1> USE DEF PoolConsistent
<1>1. ASSUME mempool' = mempool PROVE PoolConsistent'
  BY <1>1 DEF PoolAgrees
<1>2. ASSUME NEW b, SetBestChainInner(b) PROVE PoolConsistent'
  BY <1>2, DropAgrees DEF SetBestChainInner
<1>3. ASSUME NEW t, NEW d, NEW R, Acceptable(mempool, d, t, R),
             mempool' = AddUnchecked(mempool, t)
      PROVE  PoolConsistent'
  BY <1>3, AddUncheckedAgrees DEF Acceptable, PreAccept
<1>4. CASE \E b \in Block \ {Genesis} : AddToBlockIndex(b)
  BY <1>4, <1>1 DEF AddToBlockIndex
<1>5. CASE \E t \in Tx : AcceptToMemoryPool(t)
  BY <1>5, <1>3 DEF AcceptToMemoryPool
<1>6. CASE CrashAndLoadBlockIndex
  BY <1>6 DEF CrashAndLoadBlockIndex, EmptyPool, PoolAgrees
<1>7. CASE SetBestChain \/ ExtendFails \/ ReorganizeDisconnect
           \/ ReorganizeConnect \/ ReorganizeFails \/ ReorganizeCommit
           \/ SecondaryFails \/ SetBestChainDone
  BY <1>7, <1>1 DEF SetBestChain, ExtendFails, ReorganizeDisconnect,
      ReorganizeConnect, ReorganizeFails, ReorganizeCommit, SecondaryFails,
      SetBestChainDone
<1>8. CASE Extend
  BY <1>8, <1>2 DEF Extend
<1>9. CASE ConnectSecondary
  BY <1>9, <1>2 DEF ConnectSecondary
<1>10. CASE Resurrect
  BY <1>10, <1>1, <1>3 DEF Resurrect
<1>11. CASE DeleteRedundant
  BY <1>11, RemoveAgrees, RemoveConflictsAgrees DEF DeleteRedundant
<1>12. CASE UNCHANGED vars
  BY <1>12, <1>1 DEF vars
<1>13. CASE \E c \in Checkpoint : EnforceCheckpoint(c)
  BY <1>13, <1>1 DEF EnforceCheckpoint
<1> QED
  BY <1>4, <1>5, <1>6, <1>7, <1>8, <1>9, <1>10, <1>11, <1>12, <1>13 DEF Next, Step

(* mapNextTx holds exactly the inputs of the pooled transactions, whatever  *)
(* blocks come, in whatever order, and wherever the process dies: no two    *)
(* pooled transactions ever spend the same output.                          *)
THEOREM PoolConsistency == Spec => []PoolConsistent
<1>1. Init => PoolConsistent
  BY DEF Init, PoolConsistent, PoolAgrees, EmptyPool
<1>2. PoolConsistent /\ [Next]_vars => PoolConsistent'
  BY PoolStep
<1> QED BY <1>1, <1>2, PTL DEF Spec

-----------------------------------------------------------------------------
(* TypeOK is not inductive: that the commit of Reorganize finds a block to  *)
(* record needs that SetBestChain was called for another block than the     *)
(* best one, so that there is something to connect or to disconnect.        *)
Located ==
    /\ pc # "idle" => pindexNew \in Block
    /\ pc = "begin" => pindexNew # pindexBest
    /\ pc \in {"idle", "begin"} => done = 0
    /\ pc = "reorganize" => ReorganizedTo \in Block

(* The operators on the transaction index keep its shape.                   *)
LEMMA ConnectBlockType ==
    ASSUME NEW txdb \in TxDB, NEW b \in Block,
           pnext \in [Block -> Block \cup {NoBlock}]
    PROVE  ConnectBlock(txdb, b) \in TxDB
           /\ [ConnectBlock(txdb, b) EXCEPT !.best = b] \in TxDB
<1>1. \A t \in TxsOf(b) : t \in Tx /\ Vin[t] \subseteq OutPoint
  BY ChainAssumption, TransactionsAssumption DEF TxsOf
<1>2. pnext[b] \in Block \cup {NoBlock}
  OBVIOUS
<1> DEFINE hn == [txdb.hashNext EXCEPT ![b] = pnext[b], ![Pprev[b]] = b]
           ps == [t \in Tx |-> IF t \in TxsOf(b) THEN b ELSE txdb.pos[t]]
           sp == {o \in txdb.spent : o[1] \notin TxsOf(b)}
                    \cup UNION {Vin[t] : t \in TxsOf(b)}
<1>3. hn \in [Block -> Block \cup {NoBlock}]
  BY <1>2 DEF TxDB
<1>4. ps \in [Tx -> Block \cup {NotIndexed}]
  BY DEF TxDB
<1>5. sp \in SUBSET OutPoint
  BY <1>1 DEF TxDB
<1>6. ConnectBlock(txdb, b) =
        [txdb EXCEPT !.pos = ps, !.spent = sp, !.hashNext = hn]
  BY DEF ConnectBlock
<1> HIDE DEF hn, ps, sp
<1>7. /\ ConnectBlock(txdb, b) = [hashNext |-> hn, best |-> txdb.best,
                                  pos |-> ps, spent |-> sp]
      /\ txdb.best \in Block
  BY <1>6 DEF TxDB
<1> QED BY <1>3, <1>4, <1>5, <1>7 DEF TxDB

(* Undoing a block leaves a well-formed transaction database.               *)
LEMMA DisconnectBlockType ==
    ASSUME NEW txdb \in TxDB, NEW b \in Block
    PROVE  DisconnectBlock(txdb, b) \in TxDB
BY DEF DisconnectBlock, TxDB

(* What SetBestChain works out.                                             *)
LEMMA BranchTypes ==
    ASSUME NEW new \in Block, NEW best \in Block, new # best
    PROVE  LET mid == Intermediate(new, best)
               fork == Fork(best, mid)
               up == PathUp(mid, fork)
               down == PathDown(best, fork)
           IN  /\ PathUp(new, mid) \in Seq(Block)
               /\ down \in Seq(Block) /\ up \in Seq(Block)
               /\ (IF up # <<>> THEN up[Len(up)] ELSE Pprev[down[Len(down)]]) \in Block
<1> DEFINE mid == Intermediate(new, best)
           fork == Fork(best, mid)
           up == PathUp(mid, fork)
           down == PathDown(best, fork)
<1>1. /\ mid \in Ancestors[new] /\ mid \in Block
      /\ mid = new \/ Trust[mid] > Trust[best]
  BY IntermediateIs, AncestorsTransitive
<1> HIDE DEF mid
<1>2. fork \in Ancestors[best] /\ fork \in Ancestors[mid] /\ fork \in Block
  BY <1>1, ForkIs, AncestorsTransitive
<1> HIDE DEF fork
<1>3. /\ PathUp(new, mid) \in Seq(Block) /\ down \in Seq(Block) /\ up \in Seq(Block)
      /\ Len(up) = Height[mid] - Height[fork] /\ Len(down) = Height[best] - Height[fork]
  BY <1>1, <1>2, PathTypes
<1>4. \A i \in 1 .. Height[best] - Height[fork] : down[i] # Genesis
  BY <1>2, PathDownIs
<1> HIDE DEF up, down
<1>5. ASSUME up # <<>> PROVE up[Len(up)] \in Block
  BY <1>3, <1>5
<1>6. ASSUME up = <<>> PROVE Pprev[down[Len(down)]] \in Block
  <2>1. Height[fork] = Height[mid] /\ Height[mid] \in Nat
    BY <1>1, <1>2, <1>3, <1>6, BlockTreeAssumption
  <2>2. fork = mid
    BY <1>1, <1>2, <2>1, SelfAncestor, Ancestry DEF WellRooted
  <2>3. fork # best
    BY <1>1, <2>2, BlockTreeAssumption
  <2>4. Height[fork] # Height[best] /\ Height[fork] \in Nat /\ Height[best] \in Nat
        /\ Height[fork] <= Height[best]
    BY <1>2, <2>3, SelfAncestor, Ancestry, BlockTreeAssumption DEF WellRooted
  <2>5. Len(down) \in 1 .. Height[best] - Height[fork]
    BY <1>3, <2>4
  <2>6. down[Len(down)] \in Block \ {Genesis}
    BY <1>3, <1>4, <2>5
  <2> QED BY <2>6, BlockTreeAssumption
<1> QED BY <1>3, <1>5, <1>6 DEF fork, mid, up, down

(* Returning from SetBestChain leaves well-formed locals.                   *)
LEMMA ReturnLocals ==
    ASSUME Return
    PROVE  /\ pc' \in {"idle", "begin", "extend", "reorganize", "pool"}
           /\ pindexNew' \in Block \cup {NoBlock}
           /\ vDisconnect' \in Seq(Block) /\ vConnect' \in Seq(Block)
           /\ done' \in 0 .. Len(vDisconnect') + Len(vConnect')
           /\ vpindexSecondary' \in Seq(Block)
           /\ vResurrect' \in Seq(Tx) /\ vDelete' \in Seq(Tx)
           /\ Located'
BY DEF Return, Located

(* The first state has it.                                                  *)
LEMMA ShapeInit == Init => TypeOK /\ Located
BY BlockTreeAssumption, ChainAssumption DEF Init, TypeOK, Located, TxDB, EmptyPool

(* Every step keeps the shape of the state and where SetBestChain stands.   *)
LEMMA ShapeStep == TypeOK /\ Located /\ [Next]_vars => TypeOK' /\ Located'
<1> SUFFICES ASSUME TypeOK, Located, [Next]_vars PROVE TypeOK' /\ Located'
  OBVIOUS
<1>1. ASSUME NEW b, InvalidChainFound(b), b \in Block
      PROVE  nBestInvalidTrust' \in Nat /\ diskInvalidTrust' \in Nat
  BY <1>1, BlockTreeAssumption DEF InvalidChainFound, TypeOK
<1>2. ASSUME NEW b \in Block, SetBestChainInner(b)
      PROVE  /\ mapBlockIndex' \subseteq diskBlocks' /\ diskBlocks' \subseteq Block
             /\ pnext' \in [Block -> Block \cup {NoBlock}]
             /\ nBestInvalidTrust' \in Nat /\ diskInvalidTrust' \in Nat
             /\ disk' \in TxDB /\ batch' \in TxDB
             /\ mempool'.mapTx \subseteq Tx
             /\ crashes' \in 0 .. MaxCrashes
  BY <1>2, ConnectBlockType DEF SetBestChainInner, TypeOK, Drop, diskIndex
<1>3. CASE \E b \in Block \ {Genesis} : AddToBlockIndex(b)
  BY <1>3, BlockTreeAssumption DEF AddToBlockIndex, TypeOK, Located, queues
<1>4. CASE \E t \in Tx : AcceptToMemoryPool(t)
  BY <1>4 DEF AcceptToMemoryPool, AddUnchecked, TypeOK, Located, memory,
              diskIndex, branches, queues
<1>5. CASE SetBestChain
  <2>1. CASE Pprev[pindexNew] = pindexBest
    BY <1>5, <2>1 DEF SetBestChain, TypeOK, Located, memory, diskIndex, queues
  <2>2. CASE Pprev[pindexNew] # pindexBest
    <3>1. /\ pc' = "reorganize" /\ vDisconnect' \in Seq(Block) /\ vConnect' \in Seq(Block)
          /\ vpindexSecondary' \in Seq(Block) /\ ReorganizedTo' \in Block
      BY <1>5, <2>2, BranchTypes DEF SetBestChain, TypeOK, Located, ReorganizedTo
    <3> QED BY <1>5, <3>1
            DEF SetBestChain, TypeOK, Located, memory, diskIndex, queues
  <2> QED BY <2>1, <2>2
<1>6. CASE Extend
  BY <1>6, <1>2, ReturnLocals DEF Extend, NewBest, TypeOK, Located
<1>7. CASE ExtendFails
  BY <1>7, <1>1, ReturnLocals DEF ExtendFails, TypeOK, Located
<1>8. CASE ReorganizeDisconnect
  <2>1. ToDisconnect \in Block
    BY <1>8 DEF ReorganizeDisconnect, Disconnecting, ToDisconnect, TypeOK
  <2>2. batch' \in TxDB
    BY <1>8, <2>1, DisconnectBlockType DEF ReorganizeDisconnect, TypeOK
  <2>3. Resurrected(ToDisconnect) \in Seq(Tx)
    BY <2>1, ChainAssumption DEF Resurrected
  <2>4. vResurrect' \in Seq(Tx)
    BY <1>8, <2>3 DEF ReorganizeDisconnect, TypeOK
  <2> QED BY <1>8, <2>2, <2>4
          DEF ReorganizeDisconnect, Disconnecting, TypeOK, Located, memory,
              diskIndex, branches, ReorganizedTo
<1>9. CASE ReorganizeConnect
  <2>1. ToConnect \in Block
    BY <1>9 DEF ReorganizeConnect, Connecting, ToConnect, TypeOK
  <2>2. batch' \in TxDB
    BY <1>9, <2>1, ConnectBlockType DEF ReorganizeConnect, TypeOK
  <2>3. vDelete' \in Seq(Tx)
    BY <1>9, <2>1, ChainAssumption DEF ReorganizeConnect, TypeOK
  <2> QED BY <1>9, <2>2, <2>3
          DEF ReorganizeConnect, Connecting, TypeOK, Located, memory,
              diskIndex, branches, ReorganizedTo
<1>10. CASE ReorganizeFails
  BY <1>10, <1>1, ReturnLocals
     DEF ReorganizeFails, Disconnecting, Connecting, TypeOK, Located
<1>11. CASE ReorganizeCommit
  <2>1. ReorganizedTo \in Block
    BY <1>11 DEF ReorganizeCommit, TypeOK, Located
  <2>2. disk' \in TxDB /\ batch' \in TxDB
    BY <1>11, <2>1 DEF ReorganizeCommit, TypeOK, TxDB
  <2>3. pnext' \in [Block -> Block \cup {NoBlock}]
    <3>1. Range(vConnect) \subseteq Block
      BY DEF Range, TypeOK
    <3>2. ASSUME NEW b \in Block, NEW k \in DOMAIN vConnect, Pprev[vConnect[k]] = b
          PROVE  (CHOOSE c \in Range(vConnect) : Pprev[c] = b) \in Block
      BY <3>1, <3>2 DEF Range
    <3> QED BY <1>11, <3>2 DEF ReorganizeCommit, TypeOK
  <2> QED BY <1>11, <2>2, <2>3
          DEF ReorganizeCommit, TypeOK, Located, diskIndex, branches, queues
<1>12. CASE Resurrect
  <2>1. Head(vResurrect) \in Tx /\ Tail(vResurrect) \in Seq(Tx)
    BY <1>12 DEF Resurrect, TypeOK
  <2> QED BY <1>12, <2>1
          DEF Resurrect, AddUnchecked, TypeOK, Located, memory, diskIndex, branches
<1>13. CASE DeleteRedundant
  <2>1. mempool'.mapTx \subseteq mempool.mapTx
    BY <1>13 DEF DeleteRedundant, RemoveConflicts, Remove, Drop
  <2>2. vDelete' \in Seq(Tx)
    BY <1>13 DEF DeleteRedundant, TypeOK
  <2> QED BY <1>13, <2>1, <2>2
          DEF DeleteRedundant, TypeOK, Located, memory, diskIndex, branches
<1>14. CASE ConnectSecondary
  <2>1. Head(vpindexSecondary) \in Block /\ Tail(vpindexSecondary) \in Seq(Block)
    BY <1>14 DEF ConnectSecondary, TypeOK
  <2> QED BY <1>14, <2>1, <1>2
          DEF ConnectSecondary, Secondary, TypeOK, Located, branches, queues
<1>15. CASE SecondaryFails
  <2>1. Head(vpindexSecondary) \in Block
    BY <1>15 DEF SecondaryFails, TypeOK
  <2> QED BY <1>15, <2>1, <1>1, ReturnLocals
          DEF SecondaryFails, Secondary, NewBest, TypeOK, Located
<1>16. CASE SetBestChainDone
  BY <1>16, ReturnLocals
     DEF SetBestChainDone, Secondary, NewBest, TypeOK, Located, diskIndex
<1>17. CASE CrashAndLoadBlockIndex
  <2>1. disk.best \in Block /\ disk.hashNext \in [Block -> Block \cup {NoBlock}]
    BY DEF TypeOK, TxDB
  <2>2. mempool'.mapTx \subseteq Tx
    BY <1>17 DEF CrashAndLoadBlockIndex, EmptyPool
  <2>3. crashes' \in 0 .. MaxCrashes
    BY <1>17, ChainAssumption DEF CrashAndLoadBlockIndex, TypeOK
  <2> QED BY <1>17, <2>1, <2>2, <2>3, ReturnLocals
          DEF CrashAndLoadBlockIndex, TypeOK, diskIndex
<1>18. CASE UNCHANGED vars
  BY <1>18 DEF vars, memory, diskIndex, branches, queues, TypeOK, Located,
               ReorganizedTo
<1>19. CASE \E c \in Checkpoint : EnforceCheckpoint(c)
  <2>1. PICK c \in Checkpoint : EnforceCheckpoint(c)
    BY <1>19
  <2>2. c \in Block /\ c # pindexBest
    BY <2>1, ChainAssumption, BlockTreeAssumption DEF EnforceCheckpoint, IsInMainChain
  <2> QED BY <2>1, <2>2
          DEF EnforceCheckpoint, TypeOK, Located, memory, diskIndex, queues
<1> QED
  BY <1>3, <1>4, <1>5, <1>6, <1>7, <1>8, <1>9, <1>10, <1>11, <1>12, <1>13,
     <1>14, <1>15, <1>16, <1>17, <1>18, <1>19 DEF Next, Step

(* The shape of the state and where SetBestChain stands.                    *)
LEMMA StateShape == Spec => [](TypeOK /\ Located)
<1> DEFINE Inv == TypeOK /\ Located
<1>1. Init => Inv
  BY ShapeInit
<1>2. Inv /\ [Next]_vars => Inv'
  BY ShapeStep
<1> QED BY <1>1, <1>2, PTL DEF Spec

(* The state keeps its shape, for every tree and any number of crashes.     *)
THEOREM TypeCorrect == Spec => []TypeOK
BY StateShape, PTL

-----------------------------------------------------------------------------
(* Sequence s climbs from the block above low to high, one pprev at a time. *)
Climbs(low, s, high) ==
    /\ high = IF s = <<>> THEN low ELSE s[Len(s)]
    /\ \A i \in DOMAIN s : /\ s[i] \in Block \ {Genesis}
                           /\ Pprev[s[i]] = IF i = 1 THEN low ELSE s[i - 1]

(* ... and falls from high to the block above low.                          *)
Falls(high, s, low) ==
    /\ high = IF s = <<>> THEN low ELSE s[1]
    /\ \A i \in DOMAIN s : /\ s[i] \in Block \ {Genesis}
                           /\ Pprev[s[i]] = IF i = Len(s) THEN low ELSE s[i + 1]

(* The fork Reorganize has found, and the block whose chain the batch holds.*)
Base == Pprev[vConnect[1]]
Tip == IF pc # "reorganize" THEN disk.best
       ELSE IF done < Len(vDisconnect) THEN vDisconnect[done + 1]
       ELSE IF done = Len(vDisconnect) THEN Base
       ELSE vConnect[done - Len(vDisconnect)]

(* The branches of Reorganize hang together as SetBestChain worked them out.*)
BranchesOk ==
    /\ pc = "begin" =>
        /\ pindexNew \notin Ancestors[disk.best]
        /\ Trust[pindexNew] > Trust[disk.best] \/ pindexNew \in Checkpoint
    /\ pc = "extend" => pindexNew # Genesis /\ Pprev[pindexNew] = disk.best
    /\ pc = "reorganize" =>
        /\ vConnect # <<>> /\ Base \in Ancestors[disk.best]
        /\ Falls(disk.best, vDisconnect, Base)
        /\ Climbs(Base, vConnect, vConnect[Len(vConnect)])
        /\ Climbs(vConnect[Len(vConnect)], vpindexSecondary, pindexNew)
        /\ Range(vDisconnect) = Ancestors[disk.best] \ Ancestors[Base]
        /\ Range(vConnect) = Ancestors[vConnect[Len(vConnect)]] \ Ancestors[Base]
        /\ Range(vConnect) \cap Ancestors[disk.best] = {}
        /\ \/ Trust[vConnect[Len(vConnect)]] > Trust[disk.best]
           \/ vConnect[Len(vConnect)] \in Checkpoint
        /\ vConnect[Len(vConnect)] \in Ancestors[pindexNew]
    /\ pc = "pool" => Climbs(disk.best, vpindexSecondary, pindexNew)
    /\ pc \in {"reorganize", "pool"} =>
        Range(vpindexSecondary) \subseteq Ancestors[pindexNew]

(* No link leads back to the genesis block.                                 *)
Forward(next) == \A a \in Block : next[a] # Genesis

(* A transaction database holds the index of the chain of b, a valid one.   *)
Holds(txdb, b) ==
    /\ IsIndexOf(txdb, b) /\ ValidChain(b)
    /\ LeadsTo(txdb.hashNext, b) /\ Forward(txdb.hashNext)

(* What memory and disk hold of the chain.                                  *)
IndexOk ==
    /\ Holds(disk, disk.best)
    /\ Holds(batch, Tip)
    /\ pc # "reorganize" => batch = disk
    /\ LeadsTo(pnext, disk.best) /\ Forward(pnext)
    /\ pc \in {"begin", "extend", "reorganize"} => pindexBest = disk.best
    /\ pc = "idle" => pindexBest = disk.best \/ ~ValidChain(pindexBest)

(* The known blocks are the same on disk, and closed under pprev.           *)
KnownOk ==
    /\ mapBlockIndex = diskBlocks
    /\ nBestInvalidTrust = diskInvalidTrust
    /\ \A b \in diskBlocks : Ancestors[b] \subseteq diskBlocks
    /\ pc # "idle" => pindexNew \in diskBlocks \ {Genesis}

ChainInv == BranchesOk /\ IndexOk /\ KnownOk

(* No pooled transaction is indexed, unless it is queued for deletion.      *)
PoolQueued ==
    /\ pc # "reorganize" => batch = disk
    /\ pc # "pool" => \A t \in mempool.mapTx : disk.pos[t] = NotIndexed
    /\ pc \in {"reorganize", "pool"} =>
        \A t \in mempool.mapTx : batch.pos[t] = NotIndexed \/ t \in Range(vDelete)

-----------------------------------------------------------------------------
(* The transactions of a chain, block by block.                             *)
LEMMA ChainTxsOf ==
    /\ ChainTxs(Genesis) = {}
    /\ \A b \in Block \ {Genesis} : ChainTxs(b) = ChainTxs(Pprev[b]) \cup TxsOf(b)
    /\ \A b \in Block : \A a \in Ancestors[b] : ChainTxs(a) \subseteq ChainTxs(b)
    /\ \A b \in Block : ChainTxs(b) \subseteq Tx
<1>1. ChainTxs(Genesis) = {}
  BY PprevAssumption DEF ChainTxs
<1>2. ASSUME NEW b \in Block \ {Genesis}
      PROVE  ChainTxs(b) = ChainTxs(Pprev[b]) \cup TxsOf(b)
  <2>1. Ancestors[b] \ {Genesis} = (Ancestors[Pprev[b]] \ {Genesis}) \cup {b}
    BY PprevAssumption
  <2> QED BY <2>1 DEF ChainTxs
<1>3. ASSUME NEW b \in Block, NEW a \in Ancestors[b]
      PROVE  ChainTxs(a) \subseteq ChainTxs(b)
  BY AncestorsTransitive DEF ChainTxs
<1>4. ASSUME NEW b \in Block PROVE ChainTxs(b) \subseteq Tx
  <2>1. \A a \in Ancestors[b] : TxsOf(a) \subseteq Tx
    BY AncestorsTransitive, ChainAssumption DEF TxsOf
  <2> QED BY <2>1 DEF ChainTxs
<1> QED BY <1>1, <1>2, <1>3, <1>4

(* A chain is valid if its last block is and what comes before it is.       *)
LEMMA ValidChainOf ==
    /\ ValidChain(Genesis)
    /\ \A b \in Block \ {Genesis} : ValidChain(b) <=> ValidChain(Pprev[b]) /\ ValidBlock(b)
    /\ \A b \in Block : \A a \in Ancestors[b] : ValidChain(b) => ValidChain(a)
<1>1. ValidChain(Genesis)
  BY PprevAssumption DEF ValidChain
<1>2. ASSUME NEW b \in Block \ {Genesis}
      PROVE  ValidChain(b) <=> ValidChain(Pprev[b]) /\ ValidBlock(b)
  <2>1. Ancestors[b] \ {Genesis} = (Ancestors[Pprev[b]] \ {Genesis}) \cup {b}
    BY PprevAssumption
  <2> QED BY <2>1 DEF ValidChain
<1>3. ASSUME NEW b \in Block, NEW a \in Ancestors[b], ValidChain(b) PROVE ValidChain(a)
  BY <1>3, AncestorsTransitive DEF ValidChain
<1> QED BY <1>1, <1>2, <1>3

(* What a transaction of a valid chain spends was created on that chain.    *)
LEMMA InputsOnChain ==
    ASSUME NEW b \in Block, ValidChain(b), NEW t \in ChainTxs(b), NEW o \in Vin[t]
    PROVE  o[1] \in ChainTxs(b)
<1>1. PICK a \in Ancestors[b] \ {Genesis} : t \in TxsOf(a)
  BY DEF ChainTxs
<1>2. PICK i \in DOMAIN Vtx[a] : t = Vtx[a][i]
  BY <1>1 DEF TxsOf
<1>3. a \in Block /\ Vtx[a] \in Seq(Tx)
  BY <1>1, AncestorsTransitive, ChainAssumption
<1>4. o[1] \in ChainTxs(Pprev[a]) \cup {Vtx[a][j] : j \in 1 .. i - 1}
  BY <1>1, <1>2 DEF ValidChain, ValidBlock
<1>5. {Vtx[a][j] : j \in 1 .. i - 1} \subseteq TxsOf(a)
  BY <1>2, <1>3 DEF TxsOf
<1>6. ChainTxs(Pprev[a]) \cup TxsOf(a) \subseteq ChainTxs(b)
  BY <1>1, <1>3, ChainTxsOf
<1> QED BY <1>4, <1>5, <1>6

(* What ConnectBlock lets through is not on the chain yet: a repeated       *)
(* transaction would spend again, at the latest where the first repeated    *)
(* one of the block stands.                                                 *)
LEMMA ConnectsFresh ==
    ASSUME NEW txdb, NEW b \in Block \ {Genesis}, ValidChain(Pprev[b]),
           IsIndexOf(txdb, Pprev[b]), ConnectBlockOk(txdb, b)
    PROVE  TxsOf(b) \cap ChainTxs(Pprev[b]) = {}
<1> DEFINE p == Pprev[b]
           R == {i \in DOMAIN Vtx[b] : Vtx[b][i] \in ChainTxs(p)}
<1>1. p \in Block /\ Vtx[b] \in Seq(Tx) /\ p \in Ancestors[b] /\ b \notin Ancestors[p]
      /\ Ancestors[p] \subseteq Ancestors[b]
  <2>1. p \in Block /\ Vtx[b] \in Seq(Tx) /\ Ancestors[b] = Ancestors[p] \cup {b}
        /\ Height[b] = Height[p] + 1 /\ Height[p] \in Nat
    BY BlockTreeAssumption, PprevAssumption, ChainAssumption
  <2>2. ~(Height[b] <= Height[p])
    BY <2>1
  <2> QED BY <2>1, <2>2, SelfAncestor, AncestorsTransitive
<1>2. DOMAIN Vtx[b] = 1 .. Len(Vtx[b]) /\ R \subseteq Nat
  BY <1>1
<1>3. ASSUME R # {} PROVE FALSE
  <2>1. PICK i \in R : \A j \in R : i <= j
    BY <1>2, <1>3, LeastNat
  <2> DEFINE t == Vtx[b][i]
             earlier == {Vtx[b][j] : j \in 1 .. i - 1}
  <2>2. i \in DOMAIN Vtx[b] /\ t \in Tx /\ t \in TxsOf(b) /\ t \in ChainTxs(p)
    BY <1>1, <2>1 DEF TxsOf
  <2>3. PICK a \in Ancestors[p] \ {Genesis} : t \in TxsOf(a)
    BY <2>2 DEF ChainTxs
  <2>4. ~IsCoinBase(t)
    BY <1>1, <2>2, <2>3, CoinbaseAssumption
  <2>5. PICK o \in Vin[t] : o \notin ZeroValue
    BY <2>2, <2>4, ValueAssumption
  <2>6. o \in txdb.spent
    BY <2>2, <2>5 DEF IsIndexOf
  <2>7. o[1] \in ChainTxs(p)
    BY <1>1, <2>2, InputsOnChain
  <2>8. o[1] \in earlier
    BY <2>2, <2>5, <2>6 DEF ConnectBlockOk, TxConnects
  <2>9. PICK j \in 1 .. i - 1 : o[1] = Vtx[b][j]
    BY <2>8
  <2>10. j \in R /\ ~(i <= j)
    BY <1>2, <2>1, <2>7, <2>9
  <2> QED BY <2>1, <2>10
<1> QED BY <1>3 DEF TxsOf

(* ConnectBlock, on the index of a valid chain, accepts exactly the blocks  *)
(* that may follow it.                                                      *)
LEMMA ConnectsValid ==
    ASSUME NEW txdb, NEW b \in Block \ {Genesis}, ValidChain(Pprev[b]),
           IsIndexOf(txdb, Pprev[b])
    PROVE  ConnectBlockOk(txdb, b) <=> ValidBlock(b)
<1> DEFINE p == Pprev[b]
           earlier(i) == {Vtx[b][j] : j \in 1 .. i - 1}
           before(i) == ChainTxs(p) \cup earlier(i)
<1>1. p \in Block /\ Vtx[b] \in Seq(Tx) /\ Ancestors[b] = Ancestors[p] \cup {b}
  BY BlockTreeAssumption, PprevAssumption, ChainAssumption
<1>2. \A i \in DOMAIN Vtx[b] : earlier(i) \subseteq TxsOf(b) /\ Vtx[b][i] \in TxsOf(b)
  BY <1>1 DEF TxsOf
<1>3. \A t \in Tx : txdb.pos[t] # NotIndexed <=> t \in ChainTxs(p)
  BY DEF IsIndexOf
<1>4. \A t \in Tx : Vin[t] \subseteq OutPoint /\ \A o \in Vin[t] : o[1] \in Tx
  BY TransactionsAssumption DEF OutPoint
<1>5. ASSUME NEW t \in ChainTxs(p)
      PROVE  txdb.pos[t] \in Ancestors[p] \ {Genesis} /\ t \in TxsOf(txdb.pos[t])
             /\ \A r \in Ancestors[p] \ {Genesis} : t \in TxsOf(r) => r = txdb.pos[t]
  BY DEF IsIndexOf, ChainTxs
<1>6. \A o \in OutPoint \ ZeroValue : o \in txdb.spent <=> \E t \in ChainTxs(p) : o \in Vin[t]
  BY DEF IsIndexOf
<1>7. b \in Recent(b) <=> CoinbaseMaturity > 0
  <2>1. Height[b] - Height[b] = 0
    BY BlockTreeAssumption
  <2> QED BY <2>1, <1>1, ChainAssumption DEF Recent
<1> HIDE DEF p
<1>8. ASSUME ConnectBlockOk(txdb, b) PROVE ValidBlock(b)
  <2>1. TxsOf(b) \cap ChainTxs(p) = {}
    BY <1>8, ConnectsFresh DEF p
  <2>2. ASSUME NEW i \in DOMAIN Vtx[b] PROVE Vtx[b][i] \notin before(i)
    <3>1. Vtx[b][i] \notin earlier(i)
      BY <1>1, CoinbaseAssumption
    <3> QED BY <3>1, <2>1, <1>2
  <2>3. ASSUME NEW i \in DOMAIN Vtx[b], NEW o \in Vin[Vtx[b][i]]
        PROVE  o[1] \in before(i)
    <3>1. o[1] \in Tx
      BY <1>1, <1>4
    <3> QED BY <1>3, <1>8, <3>1 DEF ConnectBlockOk, TxConnects
  <2>4. ASSUME NEW i \in DOMAIN Vtx[b], NEW o \in Vin[Vtx[b][i]], o \notin ZeroValue,
               NEW t \in before(i), o \in Vin[t]
        PROVE  FALSE
    <3>1. t \in ChainTxs(p) /\ o[1] \in earlier(i)
      <4>1. o \in OutPoint
        BY <1>1, <1>4
      <4>2. /\ \A e \in earlier(i) : o \notin Vin[e]
            /\ o \notin txdb.spent \/ o[1] \in earlier(i)
        BY <1>8, <2>4 DEF ConnectBlockOk, TxConnects
      <4> QED BY <1>6, <2>4, <4>1, <4>2
    <3>2. o[1] \in ChainTxs(p)
      BY <1>1, <2>4, <3>1, InputsOnChain DEF p
    <3> QED BY <1>2, <2>1, <3>1, <3>2
  <2>5. ASSUME NEW i \in DOMAIN Vtx[b], NEW o \in Vin[Vtx[b][i]], Minted(o[1]),
               NEW r \in Recent(b), o[1] \in TxsOf(r)
        PROVE  FALSE
    <3>1. /\ txdb.pos[o[1]] \notin Recent(b)
          /\ CoinbaseMaturity > 0 => o[1] \notin earlier(i)
      BY <1>8, <2>5 DEF ConnectBlockOk, TxConnects
    <3>2. r \in Ancestors[b] /\ (r = b => CoinbaseMaturity > 0)
      BY <1>7, <2>5 DEF Recent
    <3>3. CASE r = b
      BY <2>1, <2>3, <2>5, <3>1, <3>2, <3>3
    <3>4. CASE r \in Ancestors[p] \ {Genesis}
      <4>1. o[1] \in ChainTxs(p)
        BY <2>5, <3>4 DEF ChainTxs
      <4> QED BY <1>5, <2>5, <3>1, <3>4, <4>1
    <3>5. CASE r = Genesis
      <4>1. IsCoinBase(o[1])
        BY <2>5, <3>5, CoinbaseAssumption
      <4>2. PICK a \in Ancestors[b] \ {Genesis} : o[1] \in TxsOf(a)
        BY <1>1, <1>2, <2>3 DEF ChainTxs
      <4>3. a \in Block /\ Genesis \in Ancestors[a] \ {a}
        BY <4>2, AncestorsTransitive, Ancestry DEF WellRooted
      <4> QED BY <2>5, <3>5, <4>1, <4>2, <4>3, CoinbaseAssumption
    <3> QED BY <1>1, <3>2, <3>3, <3>4, <3>5
  <2> QED BY <1>8, <2>2, <2>3, <2>4, <2>5
          DEF ValidBlock, ConnectBlockOk, TxConnects, p
<1>9. ASSUME ValidBlock(b) PROVE ConnectBlockOk(txdb, b)
  <2>1. ASSUME NEW i \in DOMAIN Vtx[b]
        PROVE  /\ Vtx[b][i] \notin before(i) /\ InRange(Vtx[b][i])
               /\ \A o \in Vin[Vtx[b][i]] :
                    /\ o[1] \in before(i)
                    /\ o \in ZeroValue \/ \A t \in before(i) : o \notin Vin[t]
                    /\ Minted(o[1]) => \A r \in Recent(b) : o[1] \notin TxsOf(r)
    BY <1>9 DEF ValidBlock, p
  <2>2. ASSUME NEW i \in DOMAIN Vtx[b] PROVE txdb.pos[Vtx[b][i]] = NotIndexed
    BY <1>1, <1>3, <2>1
  <2>3. ASSUME NEW i \in DOMAIN Vtx[b], NEW o \in Vin[Vtx[b][i]]
        PROVE  txdb.pos[o[1]] # NotIndexed \/ o[1] \in earlier(i)
    BY <1>1, <1>3, <1>4, <2>1
  <2>4. ASSUME NEW i \in DOMAIN Vtx[b], NEW o \in Vin[Vtx[b][i]], Minted(o[1])
        PROVE  /\ txdb.pos[o[1]] \notin Recent(b)
               /\ CoinbaseMaturity > 0 => o[1] \notin earlier(i)
    <3>1. ASSUME txdb.pos[o[1]] \in Recent(b) PROVE FALSE
      <4>1. txdb.pos[o[1]] \in Block
        BY <3>1, BlockTreeAssumption DEF Recent
      <4>2. o[1] \in ChainTxs(p)
        BY <1>1, <1>3, <1>4, <4>1, ChainAssumption
      <4> QED BY <1>5, <2>1, <2>4, <3>1, <4>2
    <3>2. ASSUME CoinbaseMaturity > 0, o[1] \in earlier(i) PROVE FALSE
      BY <1>2, <1>7, <2>1, <2>4, <3>2
    <3> QED BY <3>1, <3>2
  <2>5. ASSUME NEW i \in DOMAIN Vtx[b], NEW o \in Vin[Vtx[b][i]], o \notin ZeroValue
        PROVE  o \notin txdb.spent /\ \A e \in earlier(i) : o \notin Vin[e]
    <3>1. o \in OutPoint
      BY <1>1, <1>4
    <3> QED BY <1>6, <2>1, <2>5, <3>1
  <2> QED BY <1>9, <2>1, <2>2, <2>3, <2>4, <2>5 DEF ConnectBlockOk, TxConnects, ValidBlock
<1> QED BY <1>8, <1>9

(* Connecting a valid block to the index of its chain gives the index of    *)
(* the longer chain.                                                        *)
LEMMA ConnectIndexes ==
    ASSUME NEW txdb \in TxDB, NEW b \in Block \ {Genesis}, ValidChain(b),
           IsIndexOf(txdb, Pprev[b]), NEW d, d.pos = ConnectBlock(txdb, b).pos,
           d.spent = ConnectBlock(txdb, b).spent
    PROVE  IsIndexOf(d, b)
<1> DEFINE p == Pprev[b]
<1>1. /\ p \in Block /\ ValidChain(p) /\ ValidBlock(b)
      /\ Ancestors[b] = Ancestors[p] \cup {b}
      /\ ChainTxs(b) = ChainTxs(p) \cup TxsOf(b)
  BY BlockTreeAssumption, PprevAssumption, ValidChainOf, ChainTxsOf
<1>2. TxsOf(b) \cap ChainTxs(p) = {}
  BY <1>1 DEF ValidBlock, TxsOf
<1>3. /\ \A t \in Tx : d.pos[t] = IF t \in TxsOf(b) THEN b ELSE txdb.pos[t]
      /\ d.spent = {o \in txdb.spent : o[1] \notin TxsOf(b)}
                    \cup UNION {Vin[t] : t \in TxsOf(b)}
  BY DEF ConnectBlock, TxDB
<1> HIDE DEF p
<1>4. ASSUME NEW t \in Tx PROVE d.pos[t] = NotIndexed <=> t \notin ChainTxs(b)
  BY <1>1, <1>3, ChainAssumption DEF IsIndexOf, p
<1>5. ASSUME NEW a \in Ancestors[b] \ {Genesis}, NEW t \in TxsOf(a) PROVE d.pos[t] = a
  <2>1. t \in Tx
    BY AncestorsTransitive, ChainAssumption DEF TxsOf
  <2>2. CASE a = b
    BY <1>3, <2>1, <2>2
  <2>3. CASE a \in Ancestors[p]
    <3>1. t \in ChainTxs(p)
      BY <2>3 DEF ChainTxs
    <3> QED BY <1>2, <1>3, <2>1, <2>3, <3>1 DEF IsIndexOf, p
  <2> QED BY <1>1, <2>2, <2>3
<1>6. ASSUME NEW o, o \notin ZeroValue
      PROVE  o \in d.spent <=> \E t \in ChainTxs(b) : o \in Vin[t]
  <2>1. o \in txdb.spent <=> \E t \in ChainTxs(p) : o \in Vin[t]
    BY <1>6 DEF IsIndexOf, p
  <2>2. ASSUME NEW t \in ChainTxs(p), o \in Vin[t] PROVE o[1] \notin TxsOf(b)
    BY <1>1, <1>2, <2>2, InputsOnChain
  <2> QED BY <1>1, <1>3, <2>1, <2>2
<1> QED BY <1>4, <1>5, <1>6 DEF IsIndexOf

(* Disconnecting the last block of a valid chain gives the index of the     *)
(* rest.                                                                    *)
LEMMA DisconnectIndexes ==
    ASSUME NEW txdb \in TxDB, NEW b \in Block \ {Genesis}, ValidChain(b),
           IsIndexOf(txdb, b)
    PROVE  DisconnectBlockOk(txdb, b) /\ IsIndexOf(DisconnectBlock(txdb, b), Pprev[b])
<1> DEFINE p == Pprev[b]
           d == DisconnectBlock(txdb, b)
<1>1. /\ p \in Block /\ ValidChain(p) /\ ValidBlock(b)
      /\ Ancestors[b] = Ancestors[p] \cup {b}
      /\ ChainTxs(b) = ChainTxs(p) \cup TxsOf(b)
      /\ Vtx[b] \in Seq(Tx)
  BY BlockTreeAssumption, PprevAssumption, ValidChainOf, ChainTxsOf, ChainAssumption
<1>2. TxsOf(b) \cap ChainTxs(p) = {}
  BY <1>1 DEF ValidBlock, TxsOf
<1>3. /\ \A t \in Tx : d.pos[t] = IF t \in TxsOf(b) THEN NotIndexed ELSE txdb.pos[t]
      /\ d.spent = {o \in txdb.spent : o[1] \notin TxsOf(b)}
                    \ UNION {Vin[t] : t \in TxsOf(b)}
  BY DEF DisconnectBlock, TxDB
<1> HIDE DEF p, d
<1>4. ASSUME NEW t \in Tx PROVE d.pos[t] = NotIndexed <=> t \notin ChainTxs(p)
  BY <1>1, <1>2, <1>3 DEF IsIndexOf
<1>5. ASSUME NEW a \in Ancestors[p] \ {Genesis}, NEW t \in TxsOf(a) PROVE d.pos[t] = a
  <2>1. t \in Tx /\ t \in ChainTxs(p)
    BY <1>1, AncestorsTransitive, ChainAssumption DEF TxsOf, ChainTxs
  <2> QED BY <1>1, <1>2, <1>3, <2>1 DEF IsIndexOf
<1>6. ASSUME NEW o, o \notin ZeroValue
      PROVE  o \in d.spent <=> \E t \in ChainTxs(p) : o \in Vin[t]
  <2>1. o \in txdb.spent <=> \E t \in ChainTxs(b) : o \in Vin[t]
    BY <1>6 DEF IsIndexOf
  <2>2. ASSUME NEW t \in ChainTxs(p), o \in Vin[t] PROVE o[1] \notin TxsOf(b)
    BY <1>1, <1>2, <2>2, InputsOnChain
  <2>3. ASSUME NEW t \in ChainTxs(p), o \in Vin[t], NEW s \in TxsOf(b) PROVE o \notin Vin[s]
    BY <1>1, <1>6, <2>3 DEF ValidBlock, TxsOf, p
  <2> QED BY <1>1, <1>3, <2>1, <2>2, <2>3
<1>7. IsIndexOf(d, p)
  BY <1>4, <1>5, <1>6 DEF IsIndexOf
<1>8. ASSUME NEW i \in DOMAIN Vtx[b], NEW o \in Vin[Vtx[b][i]]
      PROVE  /\ txdb.pos[o[1]] # NotIndexed /\ o[2] < NOut[o[1]]
             /\ \A j \in DOMAIN Vtx[b] : j > i => Vtx[b][j] # o[1]
  <2>1. o[1] \in ChainTxs(p) \cup {Vtx[b][j] : j \in 1 .. i - 1}
        /\ o[2] < NOut[o[1]]
    BY <1>1 DEF ValidBlock, InRange, p
  <2>2. o[1] \in Tx
    BY <1>1, TransactionsAssumption DEF OutPoint
  <2>3. o[1] \in ChainTxs(b)
    BY <1>1, <2>1 DEF TxsOf
  <2>4. ASSUME NEW j \in DOMAIN Vtx[b], j > i PROVE Vtx[b][j] # o[1]
    <3>1. Vtx[b][j] \notin ChainTxs(p) \cup {Vtx[b][k] : k \in 1 .. j - 1}
      BY <1>1 DEF ValidBlock, p
    <3>2. 1 .. i - 1 \subseteq 1 .. j - 1
      BY <1>1, <2>4
    <3> QED BY <2>1, <3>1, <3>2
  <2> QED BY <2>1, <2>2, <2>3, <2>4 DEF IsIndexOf
<1> QED BY <1>7, <1>8 DEF DisconnectBlockOk, d, p

-----------------------------------------------------------------------------
(* A block is not an ancestor of its parent.                                *)
LEMMA NotBelowParent ==
    ASSUME NEW b \in Block \ {Genesis}
    PROVE  /\ Pprev[b] \in Block /\ b \notin Ancestors[Pprev[b]] /\ b # Pprev[b]
           /\ Ancestors[b] = Ancestors[Pprev[b]] \cup {b}
<1>1. /\ Pprev[b] \in Block /\ Ancestors[b] = Ancestors[Pprev[b]] \cup {b}
      /\ Height[b] = Height[Pprev[b]] + 1 /\ Height[Pprev[b]] \in Nat
  BY BlockTreeAssumption, PprevAssumption
<1>2. ~(Height[b] <= Height[Pprev[b]])
  BY <1>1
<1> QED BY <1>1, <1>2, AncestorsTransitive, SelfAncestor

(* The links ConnectBlock writes lead to the block it connects.             *)
LEMMA ConnectLinks ==
    ASSUME NEW next \in [Block -> Block \cup {NoBlock}], NEW b \in Block \ {Genesis},
           LeadsTo(next, Pprev[b]), Forward(next), NEW m,
           m = [next EXCEPT ![b] = NoBlock, ![Pprev[b]] = b]
    PROVE  LeadsTo(m, b) /\ Forward(m)
<1> DEFINE p == Pprev[b]
<1>1. p \in Block /\ b \notin Ancestors[p] /\ b # p /\ Ancestors[b] = Ancestors[p] \cup {b}
  BY NotBelowParent
<1>2. m[p] = b /\ m[b] = NoBlock /\ \A a \in Block \ {b, p} : m[a] = next[a]
  BY <1>1
<1>3. ASSUME NEW a \in Block, NEW c \in Block \ {Genesis}
      PROVE  m[a] = c <=> c \in Ancestors[b] /\ Pprev[c] = a
  <2>1. CASE a = p
    BY <1>2, <2>1, SelfAncestor, ParentAncestor
  <2>2. CASE a = b
    <3>1. ASSUME c \in Ancestors[b], Pprev[c] = b PROVE FALSE
      BY <1>1, <3>1, ParentAncestor
    <3> QED BY <1>2, <2>2, <3>1, BlockTreeAssumption
  <2>3. CASE a \in Block \ {b, p}
    BY <1>1, <1>2, <2>3 DEF LeadsTo
  <2> QED BY <2>1, <2>2, <2>3
<1>4. Forward(m)
  BY <1>1, <1>2, BlockTreeAssumption DEF Forward
<1> QED BY <1>3, <1>4 DEF LeadsTo

(* The link DisconnectBlock clears is the last one of the chain.            *)
LEMMA DisconnectLinks ==
    ASSUME NEW next \in [Block -> Block \cup {NoBlock}], NEW b \in Block \ {Genesis},
           LeadsTo(next, b), Forward(next), NEW m,
           m = [next EXCEPT ![Pprev[b]] = NoBlock]
    PROVE  LeadsTo(m, Pprev[b]) /\ Forward(m)
<1> DEFINE p == Pprev[b]
<1>1. p \in Block /\ b \notin Ancestors[p] /\ b # p /\ Ancestors[b] = Ancestors[p] \cup {b}
  BY NotBelowParent
<1>2. m[p] = NoBlock /\ \A a \in Block \ {p} : m[a] = next[a]
  BY <1>1
<1>3. ASSUME NEW a \in Block, NEW c \in Block \ {Genesis}
      PROVE  m[a] = c <=> c \in Ancestors[p] /\ Pprev[c] = a
  <2>1. CASE a = p
    <3>1. ASSUME c \in Ancestors[p], Pprev[c] = p PROVE FALSE
      BY <1>1, <3>1, ParentAncestor, SelfAncestor
    <3> QED BY <1>2, <2>1, <3>1, BlockTreeAssumption
  <2>2. CASE a # p
    BY <1>1, <1>2, <2>2 DEF LeadsTo
  <2> QED BY <2>1, <2>2
<1>4. Forward(m)
  BY <1>1, <1>2, BlockTreeAssumption DEF Forward
<1> QED BY <1>3, <1>4 DEF LeadsTo

(* Links that lead to a block say nothing of blocks off its chain, and      *)
(* there is one way to lead there.                                          *)
LEMMA LinksDetermined ==
    ASSUME NEW b \in Block, NEW next \in [Block -> Block \cup {NoBlock}],
           LeadsTo(next, b), Forward(next)
    PROVE  /\ \A a \in Block \ Ancestors[b] : next[a] = NoBlock
           /\ next[b] = NoBlock
           /\ \A m \in [Block -> Block \cup {NoBlock}] :
                LeadsTo(m, b) /\ Forward(m) => m = next
<1>1. ASSUME NEW a \in Block \ Ancestors[b] PROVE next[a] = NoBlock
  BY ParentAncestor DEF LeadsTo, Forward
<1>2. next[b] = NoBlock
  <2>1. ASSUME NEW c \in Ancestors[b] \ {Genesis}, Pprev[c] = b PROVE FALSE
    <3>1. Height[c] = Height[b] + 1 /\ Height[c] <= Height[b] /\ Height[b] \in Nat
      BY <2>1, ParentAncestor, AncestorsTransitive, BlockTreeAssumption
    <3> QED BY <3>1
  <2> QED BY <2>1 DEF LeadsTo, Forward
<1>3. ASSUME NEW m \in [Block -> Block \cup {NoBlock}], LeadsTo(m, b), Forward(m)
      PROVE  m = next
  <2>1. ASSUME NEW a \in Block PROVE m[a] = next[a]
    BY <1>3 DEF LeadsTo, Forward
  <2> QED BY <2>1
<1> QED BY <1>1, <1>2, <1>3

(* ConnectBlock takes a database that holds a chain to one that holds the   *)
(* chain with the block, and refuses a block only if that chain is invalid. *)
LEMMA ConnectHolds ==
    ASSUME NEW txdb \in TxDB, NEW b \in Block \ {Genesis}, Holds(txdb, Pprev[b]),
           pnext[b] = NoBlock
    PROVE  /\ ConnectBlockOk(txdb, b) => /\ Holds(ConnectBlock(txdb, b), b)
                                         /\ Holds([ConnectBlock(txdb, b) EXCEPT !.best = b], b)
           /\ ~ConnectBlockOk(txdb, b) => ~ValidChain(b)
<1>1. ConnectBlockOk(txdb, b) <=> ValidChain(b)
  BY ConnectsValid, ValidChainOf DEF Holds
<1>2. ASSUME ValidChain(b), NEW d,
             d.pos = ConnectBlock(txdb, b).pos,
             d.spent = ConnectBlock(txdb, b).spent,
             d.hashNext = ConnectBlock(txdb, b).hashNext
      PROVE  Holds(d, b)
  <2>1. IsIndexOf(d, b)
    BY <1>2, ConnectIndexes DEF Holds
  <2>2. d.hashNext = [txdb.hashNext EXCEPT ![b] = NoBlock, ![Pprev[b]] = b]
    BY <1>2 DEF ConnectBlock, TxDB
  <2>3. txdb.hashNext \in [Block -> Block \cup {NoBlock}]
    BY DEF TxDB
  <2> QED BY <1>2, <2>1, <2>2, <2>3, ConnectLinks DEF Holds
<1>3. LET d == ConnectBlock(txdb, b)
          e == [ConnectBlock(txdb, b) EXCEPT !.best = b]
      IN  d.pos = e.pos /\ d.spent = e.spent /\ d.hashNext = e.hashNext
  BY DEF ConnectBlock, TxDB
<1> QED BY <1>1, <1>2, <1>3

(* DisconnectBlock undoes the last block of the chain a database holds.     *)
LEMMA DisconnectHolds ==
    ASSUME NEW txdb \in TxDB, NEW b \in Block \ {Genesis}, Holds(txdb, b)
    PROVE  DisconnectBlockOk(txdb, b) /\ Holds(DisconnectBlock(txdb, b), Pprev[b])
<1>1. DisconnectBlockOk(txdb, b) /\ IsIndexOf(DisconnectBlock(txdb, b), Pprev[b])
  BY DisconnectIndexes DEF Holds
<1>2. /\ DisconnectBlock(txdb, b).hashNext = [txdb.hashNext EXCEPT ![Pprev[b]] = NoBlock]
      /\ txdb.hashNext \in [Block -> Block \cup {NoBlock}]
  BY DEF DisconnectBlock, TxDB
<1> QED BY <1>1, <1>2, DisconnectLinks, ValidChainOf DEF Holds

-----------------------------------------------------------------------------
(* The paths SetBestChain and Reorganize collect, as sequences.             *)
LEMMA PathsShape ==
    ASSUME NEW high \in Block, NEW low \in Ancestors[high]
    PROVE  LET up == PathUp(high, low)
               down == PathDown(high, low)
           IN  /\ up \in Seq(Block) /\ Climbs(low, up, high)
               /\ Range(up) = Ancestors[high] \ Ancestors[low]
               /\ down \in Seq(Block) /\ Falls(high, down, low)
               /\ Range(down) = Ancestors[high] \ Ancestors[low]
               /\ high # low => up # <<>>
<1> DEFINE up == PathUp(high, low)
           down == PathDown(high, low)
           n == Height[high] - Height[low]
<1>1. n \in Nat /\ (n = 0 => high = low)
  <2>1. Height[low] \in Nat /\ Height[high] \in Nat /\ Height[low] <= Height[high]
    BY AncestorsTransitive, BlockTreeAssumption
  <2>2. Height[low] = Height[high] => high = low
    BY SelfAncestor, Ancestry DEF WellRooted
  <2> QED BY <2>1, <2>2
<1>2. /\ up \in Seq(Block) /\ down \in Seq(Block) /\ Len(up) = n /\ Len(down) = n
  BY PathTypes
<1>3. /\ \A i \in 1 .. n : /\ up[i] \in Ancestors[high] \ Ancestors[low]
                           /\ up[i] # Genesis
                           /\ Pprev[up[i]] = IF i = 1 THEN low ELSE up[i - 1]
      /\ \A c \in Ancestors[high] \ Ancestors[low] : \E i \in 1 .. n : c = up[i]
      /\ n > 0 => up[n] = high
  BY PathUpIs
<1>4. /\ \A i \in 1 .. n : /\ down[i] \in Ancestors[high] \ Ancestors[low]
                           /\ down[i] # Genesis
                           /\ Pprev[down[i]] = IF i = n THEN low ELSE down[i + 1]
      /\ \A c \in Ancestors[high] \ Ancestors[low] : \E i \in 1 .. n : c = down[i]
      /\ n > 0 => down[1] = high
  BY PathDownIs
<1> HIDE DEF up, down, n
<1>5. /\ DOMAIN up = 1 .. n /\ DOMAIN down = 1 .. n
      /\ (up = <<>> <=> n = 0) /\ (down = <<>> <=> n = 0)
  BY <1>1, <1>2
<1>6. Range(up) = Ancestors[high] \ Ancestors[low]
      /\ Range(down) = Ancestors[high] \ Ancestors[low]
  <2>1. Range(up) = {up[i] : i \in 1 .. n} /\ Range(down) = {down[i] : i \in 1 .. n}
    BY <1>5 DEF Range
  <2> QED BY <1>3, <1>4, <2>1
<1>7. Climbs(low, up, high)
  BY <1>1, <1>2, <1>3, <1>5 DEF Climbs
<1>8. Falls(high, down, low)
  BY <1>1, <1>2, <1>4, <1>5 DEF Falls
<1> QED BY <1>1, <1>2, <1>5, <1>6, <1>7, <1>8 DEF up, down

(* What SetBestChain works out before it calls Reorganize.                  *)
LEMMA BranchesFound ==
    ASSUME NEW new \in Block, NEW best \in Block, new \notin Ancestors[best],
           NEW mid, mid = Intermediate(new, best), NEW fork, fork = Fork(best, mid),
           NEW vc, vc = PathUp(mid, fork)
    PROVE  /\ fork \in Ancestors[best] /\ fork \in Ancestors[mid] /\ mid \in Ancestors[new]
           /\ mid \in Block /\ fork \in Block
           /\ mid = new \/ Trust[mid] > Trust[best]
           /\ vc # <<>> /\ Pprev[vc[1]] = fork /\ vc[Len(vc)] = mid
           /\ Range(vc) \cap Ancestors[best] = {}
<1>1. /\ mid \in Ancestors[new] /\ mid \in Block
      /\ mid = new \/ Trust[mid] > Trust[best]
  BY IntermediateIs, AncestorsTransitive
<1>2. /\ fork \in Ancestors[best] /\ fork \in Ancestors[mid] /\ fork \in Block
      /\ \A g \in Ancestors[best] \cap Ancestors[mid] : Height[g] <= Height[fork]
  BY <1>1, ForkIs, AncestorsTransitive
<1>3. fork # mid
  BY <1>1, <1>2, Ancestry, BlockTreeAssumption DEF WellRooted
<1>4. vc \in Seq(Block) /\ vc # <<>> /\ Climbs(fork, vc, mid)
      /\ Range(vc) = Ancestors[mid] \ Ancestors[fork]
  BY <1>1, <1>2, <1>3, PathsShape
<1>5. Pprev[vc[1]] = fork /\ vc[Len(vc)] = mid
  BY <1>4 DEF Climbs
<1>6. Range(vc) \cap Ancestors[best] = {}
  BY <1>1, <1>2, <1>4, AboveAncestor
<1> QED BY <1>1, <1>2, <1>4, <1>5, <1>6

-----------------------------------------------------------------------------
(* SetBestChainInner, called for a child of the committed best block.       *)
LEMMA InnerHolds ==
    ASSUME TypeOK, Holds(disk, disk.best), batch = disk,
           LeadsTo(pnext, disk.best), Forward(pnext),
           NEW b \in Block \ {Genesis}, Pprev[b] = disk.best
    PROVE  /\ SetBestChainInner(b) =>
                /\ disk'.best = b /\ Holds(disk', b) /\ batch' = disk'
                /\ LeadsTo(pnext', b) /\ Forward(pnext')
           /\ ~ConnectBlockOk(batch, b) => ~ValidChain(b)
<1>1. /\ disk \in TxDB /\ disk.best \in Block
      /\ pnext \in [Block -> Block \cup {NoBlock}]
  BY DEF TypeOK, TxDB
<1>2. b \notin Ancestors[disk.best] /\ b # disk.best
  BY NotBelowParent
<1>3. pnext[b] = NoBlock
  BY <1>1, <1>2, LinksDetermined
<1>4. ASSUME SetBestChainInner(b)
      PROVE  disk'.best = b /\ Holds(disk', b) /\ batch' = disk'
  BY <1>1, <1>3, <1>4, ConnectHolds, ConnectBlockType DEF SetBestChainInner, TxDB
<1>5. ASSUME SetBestChainInner(b) PROVE LeadsTo(pnext', b) /\ Forward(pnext')
  <2>1. pnext' = [pnext EXCEPT ![b] = NoBlock, ![Pprev[b]] = b]
    BY <1>1, <1>2, <1>3, <1>5 DEF SetBestChainInner
  <2> QED BY <1>1, <2>1, ConnectLinks
<1> QED BY <1>1, <1>3, <1>4, <1>5, ConnectHolds

(* Taking the first block off a path leaves the path from that block.       *)
LEMMA ClimbsTail ==
    ASSUME NEW s \in Seq(Block), s # <<>>, NEW low, NEW high, Climbs(low, s, high)
    PROVE  /\ Head(s) \in Block \ {Genesis} /\ Pprev[Head(s)] = low
           /\ Climbs(Head(s), Tail(s), high)
           /\ Head(s) \in Range(s) /\ Range(Tail(s)) \subseteq Range(s)
<1> DEFINE t == Tail(s)
<1>1. /\ Len(s) \in Nat /\ Len(s) >= 1 /\ DOMAIN s = 1 .. Len(s) /\ Head(s) = s[1]
      /\ t \in Seq(Block) /\ Len(t) = Len(s) - 1 /\ DOMAIN t = 1 .. Len(t)
  OBVIOUS
<1>2. \A i \in 1 .. Len(t) : t[i] = s[i + 1] /\ i + 1 \in 1 .. Len(s)
  BY <1>1
<1> HIDE DEF t
<1>3. t = <<>> <=> Len(s) = 1
  <2>1. t = <<>> <=> Len(t) = 0
    BY <1>1
  <2> QED BY <1>1, <2>1
<1>4. high = IF t = <<>> THEN Head(s) ELSE t[Len(t)]
  BY <1>1, <1>2, <1>3 DEF Climbs
<1>5. ASSUME NEW i \in DOMAIN t
      PROVE  t[i] \in Block \ {Genesis} /\ Pprev[t[i]] = IF i = 1 THEN Head(s) ELSE t[i - 1]
  <2>1. t[i] = s[i + 1] /\ i + 1 \in DOMAIN s /\ i + 1 # 1 /\ (i + 1) - 1 = i
    BY <1>1, <1>2
  <2>2. t[i] \in Block \ {Genesis} /\ Pprev[t[i]] = s[i]
    BY <2>1 DEF Climbs
  <2>3. i # 1 => i - 1 \in 1 .. Len(t) /\ (i - 1) + 1 = i
    BY <1>1
  <2> QED BY <1>1, <1>2, <2>2, <2>3
<1>6. Head(s) \in Block \ {Genesis} /\ Pprev[Head(s)] = low /\ Head(s) \in Range(s)
  BY <1>1 DEF Climbs, Range
<1>7. Range(t) \subseteq Range(s)
  BY <1>1, <1>2 DEF Range
<1> QED BY <1>4, <1>5, <1>6, <1>7 DEF Climbs, t

(* The commit of Reorganize swaps the links of the branches in memory.      *)
LEMMA CommitLinks ==
    ASSUME TypeOK, BranchesOk, ReorganizeCommit,
           LeadsTo(pnext, disk.best), Forward(pnext)
    PROVE  LeadsTo(pnext', vConnect[Len(vConnect)]) /\ Forward(pnext')
<1> DEFINE best == disk.best
           mid == vConnect[Len(vConnect)]
           C == Range(vConnect)
           D == Range(vDisconnect)
<1>1. /\ best \in Block /\ pnext \in [Block -> Block \cup {NoBlock}]
      /\ vConnect \in Seq(Block) /\ vDisconnect \in Seq(Block)
      /\ pc = "reorganize"
  BY DEF TypeOK, TxDB, ReorganizeCommit
<1>2. /\ vConnect # <<>> /\ Base \in Ancestors[best] /\ Base = Pprev[vConnect[1]]
      /\ C = Ancestors[mid] \ Ancestors[Base] /\ D = Ancestors[best] \ Ancestors[Base]
      /\ \A i \in DOMAIN vConnect : vConnect[i] # Genesis
      /\ \A i \in DOMAIN vDisconnect : vDisconnect[i] # Genesis
  BY <1>1 DEF BranchesOk, Falls, Climbs, Base
<1>3. /\ mid \in Block /\ 1 \in DOMAIN vConnect /\ vConnect[1] \in C
      /\ C \subseteq Block \ {Genesis} /\ D \subseteq Block \ {Genesis}
  BY <1>1, <1>2 DEF Range
<1>4. Base \in Ancestors[mid] /\ Base \in Block
      /\ Ancestors[Base] \subseteq Ancestors[mid] /\ Ancestors[Base] \subseteq Ancestors[best]
  <2>1. Base \in Ancestors[mid] /\ Base \in Block
    BY <1>2, <1>3, ParentAncestor
  <2> QED BY <1>1, <1>2, <1>3, <2>1, AncestorsTransitive
<1>5. pnext' = [a \in Block |->
            IF \E c \in C : Pprev[c] = a
              THEN CHOOSE c \in C : Pprev[c] = a
            ELSE IF \E d \in D : Pprev[d] = a
              THEN NoBlock ELSE pnext[a]]
  BY DEF ReorganizeCommit, Range
<1> HIDE DEF best, mid, C, D
<1>6. ASSUME NEW a \in Block, NEW c \in Block \ {Genesis}
      PROVE  pnext'[a] = c <=> c \in Ancestors[mid] /\ Pprev[c] = a
  <2>1. CASE \E v \in C : Pprev[v] = a
    <3>1. PICK v \in C : Pprev[v] = a /\ pnext'[a] = v
      BY <1>5, <2>1
    <3>2. v \in Ancestors[mid] \ {Genesis}
      BY <1>2, <1>3
    <3> QED BY <1>3, <3>1, <3>2, ParentAncestor
  <2>2. CASE ~(\E v \in C : Pprev[v] = a) /\ \E d \in D : Pprev[d] = a
    <3>1. PICK d \in D : Pprev[d] = a
      BY <2>2
    <3>2. pnext'[a] = NoBlock
      BY <1>5, <2>2
    <3>3. ASSUME c \in Ancestors[mid], Pprev[c] = a PROVE FALSE
      <4>1. c \in Ancestors[Base]
        BY <1>2, <2>2, <3>3
      <4>2. c \in Ancestors[best] \ {Genesis} /\ d \in Ancestors[best] \ {Genesis}
        BY <1>2, <1>3, <1>4, <4>1
      <4>3. c = d
        BY <1>1, <3>1, <3>3, <4>2, ParentAncestor DEF best
      <4> QED BY <1>2, <4>1, <4>3
    <3> QED BY <3>2, <3>3, BlockTreeAssumption
  <2>3. CASE ~(\E v \in C : Pprev[v] = a) /\ ~(\E d \in D : Pprev[d] = a)
    <3>1. pnext'[a] = pnext[a]
      BY <1>5, <2>3
    <3>2. pnext[a] = c <=> c \in Ancestors[best] /\ Pprev[c] = a
      BY DEF LeadsTo, best
    <3> QED BY <1>2, <1>4, <2>3, <3>1, <3>2
  <2> QED BY <2>1, <2>2, <2>3
<1>7. Forward(pnext')
  <2> SUFFICES ASSUME NEW a \in Block PROVE pnext'[a] # Genesis
    BY DEF Forward
  <2>1. CASE \E v \in C : Pprev[v] = a
    <3>1. pnext'[a] \in C
      BY <1>5, <2>1
    <3> QED BY <1>3, <3>1
  <2>2. CASE ~(\E v \in C : Pprev[v] = a)
    BY <1>5, <2>2, BlockTreeAssumption DEF Forward
  <2> QED BY <2>1, <2>2
<1> QED BY <1>6, <1>7 DEF LeadsTo, mid

-----------------------------------------------------------------------------
(* ConnectedSpec only leaves out behaviours of Spec.                        *)
LEMMA ConnectedShape == ConnectedSpec => [](TypeOK /\ Located)
<1>1. [Next /\ StartsConnected']_vars => [Next]_vars
  OBVIOUS
<1> QED BY <1>1, StateShape, PTL DEF ConnectedSpec, Spec

(* The chain of the genesis block, before any other is known.               *)
LEMMA ChainInvInit == Init => ChainInv
<1> SUFFICES ASSUME Init PROVE ChainInv
  OBVIOUS
<1>1. /\ disk.best = Genesis /\ disk.spent = {} /\ batch = disk
      /\ disk.hashNext = [b \in Block |-> NoBlock] /\ pnext = disk.hashNext
      /\ disk.pos = [t \in Tx |-> NotIndexed]
      /\ pc = "idle" /\ diskBlocks = {Genesis} /\ mapBlockIndex = diskBlocks
      /\ pindexBest = Genesis /\ nBestInvalidTrust = diskInvalidTrust
  BY DEF Init
<1>2. Ancestors[Genesis] = {Genesis} /\ ValidChain(Genesis) /\ ChainTxs(Genesis) = {}
  BY PprevAssumption, ValidChainOf, ChainTxsOf
<1>3. IsIndexOf(disk, Genesis)
  BY <1>1, <1>2 DEF IsIndexOf
<1>4. LeadsTo(pnext, Genesis) /\ Forward(pnext)
  BY <1>1, <1>2, BlockTreeAssumption DEF LeadsTo, Forward
<1> QED BY <1>1, <1>2, <1>3, <1>4 DEF ChainInv, BranchesOk, IndexOk, KnownOk, Holds, Tip

(* Every step keeps ChainInv, if SetBestChain starts from the committed     *)
(* best block.                                                              *)
LEMMA ChainInvStep ==
    TypeOK /\ Located /\ TypeOK' /\ ChainInv /\ [Next /\ StartsConnected']_vars => ChainInv'
<1> DEFINE N == Next /\ StartsConnected'
<1> SUFFICES ASSUME TypeOK, Located, TypeOK', ChainInv, [N]_vars PROVE ChainInv'
  OBVIOUS
<1>1. /\ disk \in TxDB /\ batch \in TxDB /\ disk.best \in Block
      /\ pnext \in [Block -> Block \cup {NoBlock}] /\ pindexBest \in Block
      /\ vDisconnect \in Seq(Block) /\ vConnect \in Seq(Block)
      /\ vpindexSecondary \in Seq(Block) /\ diskBlocks \subseteq Block
      /\ done \in 0 .. Len(vDisconnect) + Len(vConnect)
  BY DEF TypeOK, TxDB
<1>2. BranchesOk /\ IndexOk /\ KnownOk
  BY DEF ChainInv
<1>3. ASSUME Return, disk' = disk, batch' = disk, pnext' = pnext, pc # "idle",
             pindexBest' = disk.best \/ ~ValidChain(pindexBest'),
             NEW b, InvalidChainFound(b), UNCHANGED <<mapBlockIndex, diskBlocks>>
      PROVE  ChainInv'
  <2>1. BranchesOk' /\ IndexOk'
    BY <1>2, <1>3 DEF Return, BranchesOk, IndexOk, Tip
  <2>2. KnownOk'
    BY <1>2, <1>3 DEF Return, KnownOk, InvalidChainFound
  <2> QED BY <2>1, <2>2 DEF ChainInv
<1>4. CASE \E b \in Block \ {Genesis} : AddToBlockIndex(b) /\ StartsConnected'
  <2>1. PICK b \in Block \ {Genesis} : AddToBlockIndex(b) /\ StartsConnected'
    BY <1>4
  <2>2. BranchesOk' /\ IndexOk'
    <3>1. \A a \in Ancestors[disk.best] : ~(Trust[a] > Trust[disk.best])
      <4> TAKE a \in Ancestors[disk.best]
      <4>1. a = disk.best \/ Trust[a] < Trust[disk.best]
        BY <1>1, Ancestry DEF WellRooted
      <4>2. Trust[a] \in Nat /\ Trust[disk.best] \in Nat
        BY <1>1, BlockTreeAssumption
      <4> QED BY <4>1, <4>2
    <3> QED BY <1>2, <2>1, <3>1
            DEF AddToBlockIndex, StartsConnected, BranchesOk, IndexOk, Tip
  <2>3. KnownOk'
    <3>1. Ancestors[b] = Ancestors[Pprev[b]] \cup {b}
      BY NotBelowParent
    <3> QED BY <1>2, <2>1, <3>1 DEF AddToBlockIndex, KnownOk
  <2> QED BY <2>2, <2>3 DEF ChainInv
<1>5. CASE \E t \in Tx : AcceptToMemoryPool(t)
  BY <1>2, <1>5 DEF AcceptToMemoryPool, memory, diskIndex, branches, queues,
                    ChainInv, BranchesOk, IndexOk, KnownOk, Tip, Base
<1>6. CASE SetBestChain
  <2>1. /\ pc = "begin" /\ pindexBest = disk.best /\ pindexNew \in Block \ {Genesis}
        /\ pindexNew \notin Ancestors[disk.best] /\ done = 0
        /\ Trust[pindexNew] > Trust[disk.best] \/ pindexNew \in Checkpoint
        /\ batch' = disk /\ disk' = disk /\ pnext' = pnext
        /\ pindexBest' = pindexBest /\ pindexNew' = pindexNew /\ done' = done
        /\ Holds(disk, disk.best)
    BY <1>1, <1>2, <1>6 DEF SetBestChain, Located, BranchesOk, IndexOk, KnownOk, memory
  <2>2. KnownOk'
    BY <1>2, <1>6 DEF SetBestChain, KnownOk, memory, diskIndex
  <2>3. CASE Pprev[pindexNew] = pindexBest
    <3>1. pc' = "extend"
      BY <1>6, <2>3 DEF SetBestChain
    <3>2. BranchesOk'
      BY <2>1, <2>3, <3>1 DEF BranchesOk
    <3>3. IndexOk'
      BY <1>2, <2>1, <3>1 DEF IndexOk, Tip
    <3> QED BY <2>2, <3>2, <3>3 DEF ChainInv
  <2>4. CASE Pprev[pindexNew] # pindexBest
    <3> DEFINE best == disk.best
               mid == Intermediate(pindexNew, best)
               fork == Fork(best, mid)
    <3>1. /\ pc' = "reorganize"
          /\ vpindexSecondary' = PathUp(pindexNew, mid)
          /\ vDisconnect' = PathDown(best, fork)
          /\ vConnect' = PathUp(mid, fork)
      BY <1>6, <2>1, <2>4 DEF SetBestChain
    <3>2. /\ fork \in Ancestors[best] /\ fork \in Ancestors[mid]
          /\ mid \in Ancestors[pindexNew] /\ mid \in Block /\ fork \in Block
          /\ mid = pindexNew \/ Trust[mid] > Trust[best]
          /\ vConnect' # <<>> /\ Base' = fork /\ vConnect'[Len(vConnect')] = mid
          /\ Range(vConnect') \cap Ancestors[best] = {}
      BY <1>1, <2>1, <3>1, BranchesFound DEF Base
    <3> HIDE DEF mid, fork
    <3>3. /\ Climbs(mid, vpindexSecondary', pindexNew)
          /\ Range(vpindexSecondary') \subseteq Ancestors[pindexNew]
      BY <2>1, <3>1, <3>2, PathsShape
    <3>4. /\ Falls(best, vDisconnect', fork)
          /\ Range(vDisconnect') = Ancestors[best] \ Ancestors[fork]
      BY <1>1, <3>1, <3>2, PathsShape
    <3>5. /\ Climbs(fork, vConnect', mid)
          /\ Range(vConnect') = Ancestors[mid] \ Ancestors[fork]
      BY <3>1, <3>2, PathsShape
    <3>6. BranchesOk'
      BY <2>1, <3>1, <3>2, <3>3, <3>4, <3>5 DEF BranchesOk
    <3>7. Tip' = disk.best
      <5>1. /\ vDisconnect' \in Seq(Block)
            /\ best = IF vDisconnect' = <<>> THEN fork ELSE vDisconnect'[1]
        BY <3>4 DEF Falls, TypeOK
      <5>2. CASE vDisconnect' = <<>>
        BY <2>1, <3>1, <3>2, <5>1, <5>2 DEF Tip
      <5>3. CASE vDisconnect' # <<>>
        <6>1. 0 < Len(vDisconnect')
          BY <5>1, <5>3
        <6> QED BY <2>1, <3>1, <5>1, <5>3, <6>1 DEF Tip
      <5> QED BY <5>2, <5>3
    <3>8. IndexOk'
      BY <1>2, <2>1, <3>1, <3>7 DEF IndexOk
    <3> QED BY <2>2, <3>6, <3>8 DEF ChainInv
  <2> QED BY <2>3, <2>4
<1>7. CASE Extend
  <2>1. /\ pc = "extend" /\ pindexNew \in Block \ {Genesis} /\ Pprev[pindexNew] = disk.best
        /\ batch = disk /\ Holds(disk, disk.best) /\ LeadsTo(pnext, disk.best)
        /\ Forward(pnext) /\ SetBestChainInner(pindexNew)
    BY <1>1, <1>2, <1>7 DEF Extend, BranchesOk, IndexOk, KnownOk
  <2>2. /\ disk'.best = pindexNew /\ Holds(disk', pindexNew) /\ batch' = disk'
        /\ LeadsTo(pnext', pindexNew) /\ Forward(pnext')
    BY <2>1, InnerHolds
  <2>3. BranchesOk' /\ IndexOk'
    BY <1>7, <2>2 DEF Extend, NewBest, Return, BranchesOk, IndexOk, Tip
  <2>4. KnownOk'
    BY <1>2, <1>7 DEF Extend, SetBestChainInner, NewBest, Return, KnownOk, diskIndex
  <2> QED BY <2>3, <2>4 DEF ChainInv
<1>8. CASE ExtendFails
  BY <1>2, <1>3, <1>8 DEF ExtendFails, IndexOk
<1>9. CASE ReorganizeDisconnect
  <2> DEFINE b == ToDisconnect
  <2>1. /\ pc = "reorganize" /\ done \in Nat /\ done < Len(vDisconnect)
        /\ done + 1 \in DOMAIN vDisconnect /\ b = vDisconnect[done + 1]
    BY <1>1, <1>9 DEF ReorganizeDisconnect, Disconnecting, ToDisconnect
  <2>2. /\ b \in Block \ {Genesis}
        /\ Pprev[b] = IF done + 1 = Len(vDisconnect) THEN Base ELSE vDisconnect[done + 2]
    BY <1>2, <2>1 DEF BranchesOk, Falls
  <2>3. Tip = b
    BY <2>1 DEF Tip
  <2>4. Holds(batch', Pprev[b])
    BY <1>1, <1>2, <1>9, <2>2, <2>3, DisconnectHolds DEF ReorganizeDisconnect, IndexOk
  <2>5. /\ done' = done + 1
        /\ UNCHANGED <<memory, diskIndex, disk, pc, branches, vpindexSecondary>>
    BY <1>9 DEF ReorganizeDisconnect
  <2>6. Tip' = Pprev[b]
    <3>1. CASE done + 1 = Len(vDisconnect)
      BY <2>1, <2>2, <2>5, <3>1 DEF Tip, Base, branches
    <3>2. CASE done + 1 # Len(vDisconnect)
      <5>1. done + 1 < Len(vDisconnect) /\ done' + 1 = done + 2
        BY <1>1, <2>1, <2>5, <3>2
      <5> QED BY <2>1, <2>2, <2>5, <3>2, <5>1 DEF Tip, branches
    <3> QED BY <3>1, <3>2
  <2>7. IndexOk'
    BY <1>2, <2>1, <2>4, <2>5, <2>6 DEF IndexOk, memory
  <2>8. BranchesOk' /\ KnownOk'
    BY <1>2, <2>5 DEF BranchesOk, KnownOk, Base, memory, diskIndex, branches
  <2> QED BY <2>7, <2>8 DEF ChainInv
<1>10. CASE ReorganizeConnect
  <2> DEFINE k == done - Len(vDisconnect)
             b == ToConnect
  <2>1. /\ pc = "reorganize" /\ k \in Nat /\ k + 1 \in DOMAIN vConnect
        /\ b = vConnect[k + 1] /\ done = Len(vDisconnect) + k
        /\ Len(vDisconnect) \in Nat
    BY <1>1, <1>10 DEF ReorganizeConnect, Connecting, ToConnect
  <2>2. /\ b \in Block \ {Genesis}
        /\ Pprev[b] = IF k = 0 THEN Base ELSE vConnect[k]
    BY <1>2, <2>1 DEF BranchesOk, Climbs
  <2>3. Tip = Pprev[b]
    BY <2>1, <2>2 DEF Tip
  <2>4. b \notin Ancestors[disk.best]
    BY <1>2, <2>1 DEF BranchesOk, Range
  <2>5. pnext[b] = NoBlock
    BY <1>1, <1>2, <2>2, <2>4, LinksDetermined DEF IndexOk
  <2>6. Holds(batch', b)
    BY <1>1, <1>2, <1>10, <2>2, <2>3, <2>5, ConnectHolds DEF ReorganizeConnect, IndexOk
  <2>7. /\ done' = done + 1
        /\ UNCHANGED <<memory, diskIndex, disk, pc, branches, vpindexSecondary>>
    BY <1>10 DEF ReorganizeConnect
  <2>8. Tip' = b
    <3>1. /\ ~(done' < Len(vDisconnect')) /\ done' # Len(vDisconnect')
          /\ done' - Len(vDisconnect') = k + 1
      BY <2>1, <2>7 DEF branches
    <3> QED BY <2>1, <2>7, <3>1 DEF Tip, branches
  <2>9. IndexOk'
    BY <1>2, <2>1, <2>6, <2>7, <2>8 DEF IndexOk, memory
  <2>10. BranchesOk' /\ KnownOk'
    BY <1>2, <2>7 DEF BranchesOk, KnownOk, Base, memory, diskIndex, branches
  <2> QED BY <2>9, <2>10 DEF ChainInv
<1>11. CASE ReorganizeFails
  BY <1>2, <1>3, <1>11 DEF ReorganizeFails, Disconnecting, Connecting, IndexOk
<1>12. CASE ReorganizeCommit
  <2> DEFINE mid == vConnect[Len(vConnect)]
  <2>1. /\ pc = "reorganize" /\ vConnect # <<>> /\ pc' = "pool"
        /\ disk' = [batch EXCEPT !.best = mid] /\ batch' = disk'
        /\ done = Len(vDisconnect) + Len(vConnect)
        /\ UNCHANGED <<mapBlockIndex, nBestInvalidTrust, diskIndex, branches,
                       vpindexSecondary>>
    BY <1>2, <1>12 DEF ReorganizeCommit, BranchesOk, ReorganizedTo
  <2>2. Tip = mid
    <3>1. /\ ~(done < Len(vDisconnect)) /\ done # Len(vDisconnect)
          /\ done - Len(vDisconnect) = Len(vConnect)
      BY <1>1, <2>1
    <3> QED BY <2>1, <3>1 DEF Tip
  <2>3. disk'.best = mid /\ Holds(disk', mid)
    BY <1>1, <1>2, <2>1, <2>2 DEF IndexOk, Holds, IsIndexOf, TxDB
  <2>4. LeadsTo(pnext', mid) /\ Forward(pnext')
    BY <1>2, <1>12, CommitLinks DEF IndexOk
  <2>5. IndexOk'
    BY <2>1, <2>3, <2>4 DEF IndexOk, Tip
  <2>6. BranchesOk' /\ KnownOk'
    BY <1>2, <2>1, <2>3 DEF BranchesOk, KnownOk, diskIndex, branches
  <2> QED BY <2>5, <2>6 DEF ChainInv
<1>13. CASE Resurrect \/ DeleteRedundant
  <2>1. UNCHANGED <<memory, diskIndex, disk, batch, pc, branches, done,
                    vpindexSecondary>>
    BY <1>13 DEF Resurrect, DeleteRedundant
  <2> QED BY <1>2, <2>1 DEF memory, diskIndex, branches, ChainInv, BranchesOk,
                            IndexOk, KnownOk, Tip, Base
<1>14. CASE ConnectSecondary
  <2> DEFINE b == Head(vpindexSecondary)
  <2>1. /\ pc = "pool" /\ vpindexSecondary # <<>> /\ SetBestChainInner(b)
        /\ vpindexSecondary' = Tail(vpindexSecondary)
        /\ pc' = pc /\ pindexBest' = pindexBest /\ pindexNew' = pindexNew
        /\ Climbs(disk.best, vpindexSecondary, pindexNew)
        /\ Range(vpindexSecondary) \subseteq Ancestors[pindexNew]
    BY <1>2, <1>14 DEF ConnectSecondary, Secondary, BranchesOk, branches
  <2>2. /\ b \in Block \ {Genesis} /\ Pprev[b] = disk.best
        /\ Climbs(b, vpindexSecondary', pindexNew)
        /\ Range(vpindexSecondary') \subseteq Ancestors[pindexNew]
    BY <1>1, <2>1, ClimbsTail
  <2> HIDE DEF b
  <2>3. /\ disk'.best = b /\ Holds(disk', b) /\ batch' = disk'
        /\ LeadsTo(pnext', b) /\ Forward(pnext')
    BY <1>2, <2>1, <2>2, InnerHolds DEF IndexOk
  <2>4. BranchesOk' /\ IndexOk'
    BY <2>1, <2>2, <2>3 DEF BranchesOk, IndexOk, Tip
  <2>5. KnownOk'
    BY <1>2, <1>14 DEF ConnectSecondary, SetBestChainInner, KnownOk, diskIndex, branches
  <2> QED BY <2>4, <2>5 DEF ChainInv
<1>15. CASE SecondaryFails
  <2> DEFINE b == Head(vpindexSecondary)
  <2>1. /\ pc = "pool" /\ vpindexSecondary # <<>> /\ ~ConnectBlockOk(batch, b)
        /\ Climbs(disk.best, vpindexSecondary, pindexNew) /\ pindexBest' = pindexNew
        /\ Range(vpindexSecondary) \subseteq Ancestors[pindexNew]
        /\ pindexNew \in Block
    BY <1>1, <1>2, <1>15 DEF SecondaryFails, Secondary, NewBest, BranchesOk, KnownOk
  <2>2. b \in Block \ {Genesis} /\ Pprev[b] = disk.best /\ b \in Ancestors[pindexNew]
    BY <1>1, <2>1, ClimbsTail
  <2> HIDE DEF b
  <2>3. ~ValidChain(b)
    BY <1>2, <2>1, <2>2, InnerHolds DEF IndexOk
  <2>4. ~ValidChain(pindexBest')
    BY <2>1, <2>2, <2>3, ValidChainOf
  <2> QED BY <1>2, <1>3, <1>15, <2>1, <2>4 DEF SecondaryFails, NewBest
<1>16. CASE SetBestChainDone
  <2>1. pindexBest' = disk.best
    BY <1>2, <1>16 DEF SetBestChainDone, Secondary, NewBest, BranchesOk, Climbs
  <2>2. BranchesOk' /\ IndexOk'
    BY <1>2, <1>16, <2>1 DEF SetBestChainDone, Secondary, NewBest, Return,
                             BranchesOk, IndexOk, Tip
  <2>3. KnownOk'
    BY <1>2, <1>16 DEF SetBestChainDone, NewBest, Return, KnownOk, diskIndex
  <2> QED BY <2>2, <2>3 DEF ChainInv
<1>17. CASE CrashAndLoadBlockIndex
  <2>1. BranchesOk' /\ IndexOk'
    BY <1>2, <1>17 DEF CrashAndLoadBlockIndex, Return, BranchesOk, IndexOk, Tip, Holds
  <2>2. KnownOk'
    BY <1>2, <1>17 DEF CrashAndLoadBlockIndex, Return, KnownOk, diskIndex
  <2> QED BY <2>1, <2>2 DEF ChainInv
<1>18. CASE UNCHANGED vars
  BY <1>2, <1>18 DEF vars, memory, diskIndex, branches, queues, ChainInv,
                     BranchesOk, IndexOk, KnownOk, Tip, Base
<1>19. CASE \E c \in Checkpoint : EnforceCheckpoint(c) /\ StartsConnected'
  <2>1. PICK c \in Checkpoint : EnforceCheckpoint(c) /\ StartsConnected'
    BY <1>19
  <2>2. /\ pc = "idle" /\ pc' = "begin" /\ pindexNew' = c /\ c \in Block \ {Genesis}
        /\ c \in diskBlocks /\ pnext[c] = NoBlock /\ c # disk.best /\ pindexBest = disk.best
        /\ UNCHANGED <<memory, diskIndex, disk, batch>>
    BY <1>2, <2>1, ChainAssumption, BlockTreeAssumption
       DEF EnforceCheckpoint, IsInMainChain, StartsConnected, KnownOk, memory
  <2>3. c \notin Ancestors[disk.best]
    <3> SUFFICES ASSUME c \in Ancestors[disk.best] PROVE FALSE
      OBVIOUS
    <3>1. PICK d \in Ancestors[disk.best] \ {Genesis} : Pprev[d] = c
      BY <1>1, <2>2, ChildOnChain
    <3>2. d \in Block
      BY <1>1, <3>1, AncestorsTransitive
    <3>3. pnext[c] = d
      BY <1>2, <2>2, <3>1, <3>2 DEF IndexOk, LeadsTo
    <3> QED BY <2>2, <3>2, <3>3, BlockTreeAssumption
  <2>4. BranchesOk' /\ IndexOk'
    BY <1>2, <2>1, <2>2, <2>3 DEF BranchesOk, IndexOk, Tip, memory
  <2>5. KnownOk'
    BY <1>2, <2>2 DEF KnownOk, memory, diskIndex
  <2> QED BY <2>4, <2>5 DEF ChainInv
<1> QED
  BY <1>4, <1>5, <1>6, <1>7, <1>8, <1>9, <1>10, <1>11, <1>12, <1>13, <1>14,
     <1>15, <1>16, <1>17, <1>18, <1>19 DEF Next, Step

(* ChainInv is an inductive invariant of the behaviours in which            *)
(* SetBestChain starts from the committed best block.                       *)
LEMMA ChainInvHolds == ConnectedSpec => []ChainInv
<1> QED BY ConnectedShape, ChainInvInit, ChainInvStep, PTL DEF ConnectedSpec

-----------------------------------------------------------------------------
(* Whatever is connected, disconnected, aborted or cut short by a crash,    *)
(* the committed transaction index is that of the committed best chain, and *)
(* the committed hashNext links lead to it, for every block tree, as long   *)
(* as SetBestChain starts from the committed best block.                    *)
THEOREM CommittedIndex == ConnectedSpec => []DiskMatchesBest
<1>1. ChainInv => DiskMatchesBest
  BY DEF ChainInv, IndexOk, Holds, DiskMatchesBest
<1> QED BY <1>1, ChainInvHolds, PTL

(* Under the same condition the committed best chain spends nothing twice,  *)
(* nothing immature and nothing that does not exist: ConnectBlock's tests   *)
(* against the index are enough, duplicate transactions included.           *)
THEOREM CommittedValid == ConnectedSpec => []BestChainValid
<1>1. ChainInv => BestChainValid
  BY DEF ChainInv, IndexOk, Holds, BestChainValid
<1> QED BY <1>1, ChainInvHolds, PTL

(* The error returns of DisconnectBlock and DisconnectInputs are dead.      *)
THEOREM DisconnectSafe == ConnectedSpec => []DisconnectNeverFails
<1>1. TypeOK /\ ChainInv => DisconnectNeverFails
  <2> SUFFICES ASSUME TypeOK, ChainInv, Disconnecting
               PROVE  DisconnectBlockOk(batch, ToDisconnect)
    BY DEF DisconnectNeverFails
  <2>1. /\ pc = "reorganize" /\ done < Len(vDisconnect) /\ batch \in TxDB
        /\ done + 1 \in DOMAIN vDisconnect
    BY DEF Disconnecting, TypeOK
  <2>2. ToDisconnect \in Block \ {Genesis} /\ Tip = ToDisconnect
    BY <2>1 DEF ChainInv, BranchesOk, Falls, Tip, ToDisconnect
  <2> QED BY <2>1, <2>2, DisconnectHolds DEF ChainInv, IndexOk
<1> QED BY <1>1, ConnectedShape, ChainInvHolds, PTL

(* Between two calls of SetBestChain memory is what a restart would read    *)
(* back, or the best block's chain is one that cannot be connected.         *)
THEOREM MemoryReadBack == ConnectedSpec => []MemoryMatchesDisk
<1>1. TypeOK /\ ChainInv => MemoryMatchesDisk
  <2> SUFFICES ASSUME TypeOK, ChainInv, pc = "idle", ValidChain(pindexBest)
               PROVE  /\ mapBlockIndex = diskBlocks /\ pindexBest = disk.best
                      /\ pnext = disk.hashNext /\ nBestInvalidTrust = diskInvalidTrust
    BY DEF MemoryMatchesDisk
  <2>1. /\ disk.best \in Block /\ pnext \in [Block -> Block \cup {NoBlock}]
        /\ disk.hashNext \in [Block -> Block \cup {NoBlock}]
    BY DEF TypeOK, TxDB
  <2>2. pnext = disk.hashNext
    BY <2>1, LinksDetermined DEF ChainInv, IndexOk, Holds
  <2> QED BY <2>2 DEF ChainInv, IndexOk, KnownOk
<1> QED BY <1>1, ConnectedShape, ChainInvHolds, PTL

(* What is committed implements BestChain: a crash at any point, an abort   *)
(* or a failed reorganisation keeps the best block, and every commit        *)
(* replaces it by a known valid block, with more trust or a checkpoint that *)
(* the chain did not hold.                                                  *)
THEOREM CommitsImplementBestChain == ConnectedSpec => ImplementsBestChain
<1> DEFINE A == [Abstract!Next]_<<diskBlocks, disk.best>>
<1>1. Init => Abstract!Init
  BY DEF Init, Abstract!Init
<1>2. TypeOK /\ ChainInv /\ ChainInv' /\ [Next]_vars => A
  <2> SUFFICES ASSUME TypeOK, ChainInv, ChainInv', [Next]_vars PROVE A
    OBVIOUS
  <2>1. /\ \A b \in diskBlocks : b \in Block /\ Ancestors[b] \subseteq diskBlocks
        /\ disk.best \in Block /\ disk \in TxDB
        /\ pindexBest \in Block /\ vConnect \in Seq(Block) /\ vpindexSecondary \in Seq(Block)
        /\ pc # "idle" => pindexNew \in diskBlocks \ {Genesis}
        /\ mapBlockIndex = diskBlocks
        /\ ValidChain(disk'.best)
    BY DEF ChainInv, KnownOk, IndexOk, Holds, TypeOK, TxDB
  <2>2. ASSUME NEW b \in diskBlocks \ {Genesis}, disk'.best = b, diskBlocks' = diskBlocks,
               Trust[b] > Trust[disk.best]
        PROVE  A
    BY <2>1, <2>2 DEF Abstract!Next, Abstract!Advance
  <2>14. ASSUME NEW b \in diskBlocks \ {Genesis}, disk'.best = b, diskBlocks' = diskBlocks,
               b \in Checkpoint, b \notin Ancestors[disk.best]
        PROVE  A
    BY <2>1, <2>14 DEF Abstract!Next, Abstract!Enforce
  <2>3. ASSUME NEW b \in Block \ {Genesis}, Pprev[b] = disk.best
        PROVE  Trust[b] > Trust[disk.best]
    BY <2>3, PprevAssumption
  <2>4. ASSUME NEW b \in Block, SetBestChainInner(b) PROVE disk'.best = b /\ diskBlocks' = diskBlocks
    BY <2>4, ConnectBlockType DEF SetBestChainInner, diskIndex, TypeOK, TxDB
  <2>5. CASE \E b \in Block \ {Genesis} : AddToBlockIndex(b)
    BY <2>1, <2>5 DEF AddToBlockIndex, Abstract!Next, Abstract!Learn
  <2>6. CASE Extend
    <3>1. /\ pindexNew \in diskBlocks \ {Genesis} /\ pindexNew \in Block
          /\ Pprev[pindexNew] = disk.best /\ SetBestChainInner(pindexNew)
      BY <2>1, <2>6 DEF Extend, ChainInv, BranchesOk
    <3> QED BY <3>1, <2>2, <2>3, <2>4
  <2>7. CASE ReorganizeCommit
    <3> DEFINE mid == vConnect[Len(vConnect)]
    <3>1. /\ pc = "reorganize" /\ mid \in Ancestors[pindexNew]
          /\ Trust[mid] > Trust[disk.best] \/ mid \in Checkpoint
          /\ Climbs(Base, vConnect, mid) /\ vConnect # <<>>
          /\ Range(vConnect) \cap Ancestors[disk.best] = {}
      BY <2>7 DEF ReorganizeCommit, ChainInv, BranchesOk
    <3>2. mid \in diskBlocks \ {Genesis}
      BY <2>1, <3>1 DEF Climbs
    <3>3. disk'.best = mid /\ diskBlocks' = diskBlocks
      BY <2>7, <3>1 DEF ReorganizeCommit, ReorganizedTo, diskIndex, TypeOK, TxDB
    <3>4. mid \notin Ancestors[disk.best]
      BY <2>1, <3>1 DEF Range
    <3> HIDE DEF mid
    <3> QED BY <3>1, <3>2, <3>3, <3>4, <2>2, <2>14
  <2>8. CASE ConnectSecondary
    <3> DEFINE b == Head(vpindexSecondary)
    <3>1. /\ pc = "pool" /\ vpindexSecondary # <<>> /\ SetBestChainInner(b)
          /\ Climbs(disk.best, vpindexSecondary, pindexNew)
          /\ Range(vpindexSecondary) \subseteq Ancestors[pindexNew]
      BY <2>8 DEF ConnectSecondary, Secondary, ChainInv, BranchesOk
    <3>2. b \in Block \ {Genesis} /\ Pprev[b] = disk.best /\ b \in Ancestors[pindexNew]
      BY <2>1, <3>1, ClimbsTail
    <3> HIDE DEF b
    <3> QED BY <3>1, <3>2, <2>1, <2>2, <2>3, <2>4
  <2>9. ASSUME UNCHANGED <<diskBlocks, disk>> PROVE A
    BY <2>9
  <2>10. CASE \/ \E t \in Tx : AcceptToMemoryPool(t)
              \/ SetBestChain \/ ReorganizeDisconnect \/ ReorganizeConnect
              \/ Resurrect \/ DeleteRedundant \/ CrashAndLoadBlockIndex
    BY <2>9, <2>10 DEF AcceptToMemoryPool, SetBestChain, ReorganizeDisconnect,
        ReorganizeConnect, Resurrect, DeleteRedundant, CrashAndLoadBlockIndex, diskIndex
  <2>11. CASE ExtendFails \/ ReorganizeFails \/ SecondaryFails \/ SetBestChainDone
    BY <2>9, <2>11 DEF ExtendFails, ReorganizeFails, SecondaryFails, SetBestChainDone, diskIndex
  <2>12. CASE UNCHANGED vars
    BY <2>9, <2>12 DEF vars, diskIndex
  <2>13. CASE \E c \in Checkpoint : EnforceCheckpoint(c)
    BY <2>9, <2>13 DEF EnforceCheckpoint, diskIndex
  <2> QED BY <2>5, <2>6, <2>7, <2>8, <2>10, <2>11, <2>12, <2>13 DEF Next, Step
<1>3. [Next /\ StartsConnected']_vars => [Next]_vars
  OBVIOUS
<1> QED BY <1>1, <1>2, <1>3, ConnectedShape, ChainInvHolds, PTL
        DEF ConnectedSpec, ImplementsBestChain, Abstract!Spec

-----------------------------------------------------------------------------
(* No transaction of the best chain waits in the pool once SetBestChain has *)
(* returned, in every behaviour: what a reorganisation connects is queued   *)
(* for deletion before the commit makes it visible.                         *)
THEOREM PoolNeverConfirmed == Spec => []PoolUnconfirmed
<1>1. Init => PoolQueued
  BY DEF Init, PoolQueued, EmptyPool
<1>2. TypeOK /\ TypeOK' /\ PoolQueued /\ [Next]_vars => PoolQueued'
  <2> SUFFICES ASSUME TypeOK, TypeOK', PoolQueued, [Next]_vars PROVE PoolQueued'
    OBVIOUS
  <2>1. /\ disk \in TxDB /\ batch \in TxDB /\ vDelete \in Seq(Tx)
        /\ mempool.mapTx \subseteq Tx
    BY DEF TypeOK
  <2>2. ASSUME NEW b \in Block, SetBestChainInner(b),
               \A t \in mempool.mapTx : batch.pos[t] = NotIndexed
        PROVE  /\ batch' = disk'
               /\ \A t \in mempool'.mapTx : disk'.pos[t] = NotIndexed
    <3>1. /\ batch' = disk'
          /\ \A t \in Tx : disk'.pos[t] = IF t \in TxsOf(b) THEN b ELSE batch.pos[t]
      BY <2>1, <2>2 DEF SetBestChainInner, ConnectBlock, TxDB
    <3>2. mempool'.mapTx = mempool.mapTx \ TxsOf(b)
      BY <2>2 DEF SetBestChainInner, Drop
    <3> QED BY <2>1, <2>2, <3>1, <3>2
  <2>3. CASE \E b \in Block \ {Genesis} : AddToBlockIndex(b)
    BY <2>3 DEF AddToBlockIndex, PoolQueued
  <2>4. CASE \E t \in Tx : AcceptToMemoryPool(t)
    BY <2>4 DEF AcceptToMemoryPool, Acceptable, PreAccept, AddUnchecked, PoolQueued
  <2>5. CASE SetBestChain
    BY <2>5 DEF SetBestChain, PoolQueued
  <2>6. CASE Extend
    <3>1. pindexNew \in Block /\ \A t \in mempool.mapTx : batch.pos[t] = NotIndexed
      BY <2>6 DEF Extend, PoolQueued, NewBest, TypeOK
    <3> QED BY <2>2, <2>6, <3>1 DEF Extend, NewBest, Return, PoolQueued
  <2>7. CASE ExtendFails \/ ReorganizeFails
    BY <2>7 DEF ExtendFails, ReorganizeFails, Disconnecting, Connecting, Return, PoolQueued
  <2>8. CASE ReorganizeDisconnect
    <3>1. \A t \in Tx : batch'.pos[t] = NotIndexed \/ batch'.pos[t] = batch.pos[t]
      BY <2>1, <2>8 DEF ReorganizeDisconnect, DisconnectBlock, TxDB
    <3> QED BY <2>1, <2>8, <3>1 DEF ReorganizeDisconnect, Disconnecting, PoolQueued
  <2>9. CASE ReorganizeConnect
    <3> DEFINE b == ToConnect
    <3>1. /\ \A t \in Tx : t \in TxsOf(b) \/ batch'.pos[t] = batch.pos[t]
          /\ b \in Block /\ Vtx[b] \in Seq(Tx) /\ vDelete' = vDelete \o Vtx[b]
      <4>1. b \in Block
        BY <2>9 DEF ReorganizeConnect, Connecting, ToConnect, TypeOK
      <4>2. batch' = ConnectBlock(batch, b) /\ vDelete' = vDelete \o Vtx[b]
        BY <2>9 DEF ReorganizeConnect
      <4> HIDE DEF b
      <4>3. batch'.pos = [t \in Tx |-> IF t \in TxsOf(b) THEN b ELSE batch.pos[t]]
        BY <2>1, <4>2 DEF ConnectBlock, TxDB
      <4> QED BY <4>1, <4>2, <4>3, ChainAssumption
    <3> HIDE DEF b
    <3>2. TxsOf(b) \subseteq Range(vDelete') /\ Range(vDelete) \subseteq Range(vDelete')
      <4>1. \A i \in DOMAIN vDelete : i \in DOMAIN vDelete' /\ vDelete'[i] = vDelete[i]
        BY <2>1, <3>1
      <4>2. \A i \in DOMAIN Vtx[b] : Len(vDelete) + i \in DOMAIN vDelete'
                                    /\ vDelete'[Len(vDelete) + i] = Vtx[b][i]
        BY <2>1, <3>1
      <4> QED BY <4>1, <4>2 DEF TxsOf, Range
    <3> QED BY <2>1, <2>9, <3>1, <3>2 DEF ReorganizeConnect, Connecting, PoolQueued
  <2>10. CASE ReorganizeCommit
    <3>1. disk'.pos = batch.pos /\ batch' = disk' /\ mempool' = mempool
          /\ vDelete' = vDelete /\ pc = "reorganize" /\ pc' = "pool"
      BY <2>1, <2>10 DEF ReorganizeCommit, TxDB, queues
    <3> QED BY <3>1 DEF PoolQueued
  <2>11. CASE Resurrect
    BY <2>11 DEF Resurrect, Acceptable, PreAccept, AddUnchecked, PoolQueued
  <2>12. CASE DeleteRedundant
    <3> DEFINE x == Head(vDelete)
    <3>1. mempool'.mapTx \subseteq mempool.mapTx \ {x}
      BY <2>12 DEF DeleteRedundant, RemoveConflicts, Remove, Drop
    <3>2. ASSUME NEW t \in Range(vDelete), t # x PROVE t \in Range(vDelete')
      <4>1. PICK i \in DOMAIN vDelete : t = vDelete[i]
        BY <3>2 DEF Range
      <4>2. i # 1 /\ vDelete # <<>> /\ vDelete' = Tail(vDelete)
        BY <2>1, <2>12, <3>2, <4>1 DEF DeleteRedundant
      <4>3. i - 1 \in DOMAIN vDelete' /\ vDelete'[i - 1] = t
        BY <2>1, <4>1, <4>2
      <4> QED BY <4>3 DEF Range
    <3> QED BY <2>12, <3>1, <3>2 DEF DeleteRedundant, PoolQueued
  <2>13. CASE ConnectSecondary
    <3>1. /\ Head(vpindexSecondary) \in Block
          /\ \A t \in mempool.mapTx : batch.pos[t] = NotIndexed
      BY <2>13 DEF ConnectSecondary, Secondary, PoolQueued, Range, TypeOK
    <3> QED BY <2>2, <2>13, <3>1 DEF ConnectSecondary, Secondary, PoolQueued
  <2>14. CASE SecondaryFails \/ SetBestChainDone
    <3>1. /\ pc = "pool" /\ vDelete = <<>> /\ pc' = "idle" /\ disk' = disk
          /\ mempool' = mempool /\ batch' = disk'
      BY <2>14 DEF SecondaryFails, SetBestChainDone, Secondary, NewBest, Return, PoolQueued
    <3> QED BY <3>1 DEF PoolQueued, Range
  <2>15. CASE CrashAndLoadBlockIndex
    BY <2>15 DEF CrashAndLoadBlockIndex, Return, EmptyPool, PoolQueued
  <2>16. CASE UNCHANGED vars
    BY <2>16 DEF vars, queues, PoolQueued
  <2>17. CASE \E c \in Checkpoint : EnforceCheckpoint(c)
    BY <2>17 DEF EnforceCheckpoint, PoolQueued
  <2> QED
    BY <2>3, <2>4, <2>5, <2>6, <2>7, <2>8, <2>9, <2>10, <2>11, <2>12, <2>13,
       <2>14, <2>15, <2>16, <2>17 DEF Next, Step
<1>3. PoolQueued => PoolUnconfirmed
  BY DEF PoolQueued, PoolUnconfirmed
<1> QED BY <1>1, <1>2, <1>3, TypeCorrect, PTL DEF Spec

=============================================================================
