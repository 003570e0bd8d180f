------------------------------- MODULE TxRelay -------------------------------
(***************************************************************************)
(* The "tx" message (main.cpp, ProcessMessage) and the transactions kept    *)
(* back because an input is still unknown (mapOrphanTransactions).          *)
(*                                                                          *)
(* A transaction whose inputs are missing is stored under each previous     *)
(* transaction it waits for; when one of those is accepted, the work queue  *)
(* of the handler walks through what waited for it.  The handler runs under *)
(* cs_main, one message after the other; its steps are separate here so     *)
(* that the queue is walked in every order of the orphan sets.              *)
(***************************************************************************)
EXTENDS MemPool, Sequences, FiniteSets

CONSTANTS
    Large,         \* transactions of more than 5000 bytes
    MaxOrphans,    \* MAX_ORPHAN_TRANSACTIONS
    AnyBlock       \* the block of every mined transaction

(* There is a transaction at all: the coinbase of the genesis block.        *)
ASSUME TxRelayAssumption ==
    /\ Tx # {}
    /\ Large \subseteq Tx
    /\ MaxOrphans \in Nat
    /\ AnyBlock # NotIndexed

VARIABLES
    mempool,
    txdb,                         \* the transaction index
    mapOrphanTransactions,        \* the transactions kept back
    mapOrphanTransactionsByPrev,  \* previous transaction -> those waiting
    mapAlreadyAskedFor,           \* transactions requested from a peer
    mapRelay,                     \* transactions announced to the peers
    pc, tx,                       \* the message being handled
    vWorkQueue, i, waiting,       \* position in the work queue
    vEraseQueue

orphans == <<mapOrphanTransactions, mapOrphanTransactionsByPrev>>
loop == <<vWorkQueue, i, waiting, vEraseQueue>>
vars == <<mempool, txdb, orphans, mapAlreadyAskedFor, mapRelay,
          pc, tx, loop>>

Parents(t) == {o[1] : o \in Vin[t]}
ByPrev(p) == IF p \in DOMAIN mapOrphanTransactionsByPrev
               THEN mapOrphanTransactionsByPrev[p] ELSE {}

Init ==
    /\ mempool = EmptyPool
    /\ txdb = [pos |-> [t \in Tx |-> IF IsCoinBase(t) THEN AnyBlock ELSE NotIndexed],
               spent |-> {}]
    /\ mapOrphanTransactions = {}
    /\ mapOrphanTransactionsByPrev = [p \in {} |-> {}]
    /\ mapAlreadyAskedFor = {} /\ mapRelay = {}
    /\ pc = "idle" /\ tx = CHOOSE t \in Tx : TRUE
    /\ vWorkQueue = <<>> /\ i = 1 /\ waiting = {} /\ vEraseQueue = <<>>

-----------------------------------------------------------------------------
(* Mutant: the size of the transaction is not looked at.                    *)
AddOrphanTx_AnySize(t) ==
    IF t \in mapOrphanTransactions
      THEN UNCHANGED orphans
      ELSE /\ mapOrphanTransactions' = mapOrphanTransactions \cup {t}
           /\ mapOrphanTransactionsByPrev' =
                [p \in DOMAIN mapOrphanTransactionsByPrev \cup Parents(t) |->
                    ByPrev(p) \cup (IF p \in Parents(t) THEN {t} ELSE {})]

(* AddOrphanTx                                                              *)
AddOrphanTx(t) ==
    IF t \in mapOrphanTransactions \/ t \in Large
      THEN UNCHANGED orphans
      ELSE /\ mapOrphanTransactions' = mapOrphanTransactions \cup {t}
           /\ mapOrphanTransactionsByPrev' =
                [p \in DOMAIN mapOrphanTransactionsByPrev \cup Parents(t) |->
                    ByPrev(p) \cup (IF p \in Parents(t) THEN {t} ELSE {})]

(* Mutant: only the set of one parent is looked at.                         *)
EraseOrphanTx_OneParent(t) ==
    IF t \notin mapOrphanTransactions
      THEN UNCHANGED orphans
      ELSE /\ mapOrphanTransactions' = mapOrphanTransactions \ {t}
           /\ \E q \in Parents(t) :
              mapOrphanTransactionsByPrev' =
                [mapOrphanTransactionsByPrev EXCEPT ![q] = @ \ {t}]

(* EraseOrphanTx: the transaction leaves every set that holds it, and a set *)
(* left empty leaves the map.                                               *)
EraseOrphanTx(t) ==
    IF t \notin mapOrphanTransactions
      THEN UNCHANGED orphans
      ELSE /\ mapOrphanTransactions' = mapOrphanTransactions \ {t}
           /\ LET emptied == {p \in Parents(t) : ByPrev(p) \subseteq {t}} IN
              mapOrphanTransactionsByPrev' =
                [p \in DOMAIN mapOrphanTransactionsByPrev \ emptied |->
                    IF p \in Parents(t) THEN ByPrev(p) \ {t} ELSE ByPrev(p)]

(* Mutant: an accepted transaction is not queued for erasure.               *)
Accepted_NoErase(t) ==
    /\ mempool' = AddUnchecked(mempool, t)
    /\ mapRelay' = mapRelay \cup {t}
    /\ mapAlreadyAskedFor' = mapAlreadyAskedFor \ {t}
    /\ vWorkQueue' = Append(vWorkQueue, t)
    /\ UNCHANGED vEraseQueue

(* AcceptToMemoryPool succeeded for t: it is announced and its request is   *)
(* forgotten.  (The call of SyncWithWallets is in WalletCoins.)             *)
Accepted(t) ==
    /\ mempool' = AddUnchecked(mempool, t)
    /\ mapRelay' = mapRelay \cup {t}
    /\ mapAlreadyAskedFor' = mapAlreadyAskedFor \ {t}
    /\ vWorkQueue' = Append(vWorkQueue, t)
    /\ vEraseQueue' = Append(vEraseQueue, t)

NotAccepted == UNCHANGED <<mempool, mapRelay, mapAlreadyAskedFor,
                           vWorkQueue>>

-----------------------------------------------------------------------------
(* "inv": a transaction the node does not have (AlreadyHave) is asked for.  *)
AskFor(t) ==
    /\ pc = "idle"
    /\ t \notin mempool.mapTx \cup mapOrphanTransactions
    /\ txdb.pos[t] = NotIndexed
    /\ mapAlreadyAskedFor' = mapAlreadyAskedFor \cup {t}
    /\ UNCHANGED <<mempool, txdb, orphans, mapRelay, pc, tx, loop>>

(* "tx": the transaction is accepted.                                       *)
ReceiveAccepted(t) ==
    /\ pc = "idle"
    /\ Acceptable(mempool, txdb, t, {})
    /\ Accepted(t)
    /\ waiting' = ByPrev(t)
    /\ pc' = "loop" /\ tx' = t
    /\ UNCHANGED <<txdb, orphans, i>>

(* "tx": inputs are missing, and the transaction is kept back.              *)
ReceiveOrphan(t) ==
    /\ pc = "idle"
    /\ Orphaned(mempool, txdb, t)
    /\ AddOrphanTx(t)
    /\ pc' = "limit" /\ tx' = t
    /\ UNCHANGED <<mempool, txdb, mapAlreadyAskedFor, mapRelay, loop>>

(* Mutant: one orphan too many is let through.                              *)
LimitOrphanTxSize_OffByOne ==
    /\ pc = "limit"
    /\ IF Cardinality(mapOrphanTransactions) > MaxOrphans + 1
         THEN (\E t \in mapOrphanTransactions : EraseOrphanTx(t)) /\ UNCHANGED pc
         ELSE UNCHANGED orphans /\ pc' = "idle"
    /\ UNCHANGED <<mempool, txdb, mapAlreadyAskedFor, mapRelay, tx, loop>>

(* LimitOrphanTxSize: evict a random orphan until the limit holds.          *)
LimitOrphanTxSize ==
    /\ pc = "limit"
    /\ IF Cardinality(mapOrphanTransactions) > MaxOrphans
         THEN (\E t \in mapOrphanTransactions : EraseOrphanTx(t)) /\ UNCHANGED pc
         ELSE UNCHANGED orphans /\ pc' = "idle"
    /\ UNCHANGED <<mempool, txdb, mapAlreadyAskedFor, mapRelay, tx, loop>>

(* One orphan waiting for vWorkQueue[i].  The code hands `tx', the message's *)
(* transaction, to SyncWithWallets again, not the orphan.                   *)
ProcessOrphan(orphanTx) ==
    /\ pc = "loop" /\ orphanTx \in waiting
    /\ waiting' = waiting \ {orphanTx}
    /\ IF Acceptable(mempool, txdb, orphanTx, {})
         THEN Accepted(orphanTx)
         ELSE /\ NotAccepted
              /\ vEraseQueue' = IF Orphaned(mempool, txdb, orphanTx)
                                  THEN vEraseQueue
                                  ELSE Append(vEraseQueue, orphanTx)
    /\ UNCHANGED <<txdb, orphans, pc, tx, i>>

(* Mutant: only what waited for the message's transaction is looked at.     *)
NextInQueue_FirstOnly ==
    /\ pc = "loop" /\ waiting = {}
    /\ mapOrphanTransactionsByPrev' =
            [p \in DOMAIN mapOrphanTransactionsByPrev \cup {vWorkQueue[i]} |->
                ByPrev(p)]
    /\ i' = i + 1
    /\ pc' = "erase"
    /\ UNCHANGED <<mempool, txdb, mapOrphanTransactions, mapAlreadyAskedFor,
                   mapRelay, tx, vWorkQueue, waiting, vEraseQueue>>

(* Mutant: the index is not advanced.                                       *)
NextInQueue_Stay ==
    /\ pc = "loop" /\ waiting = {}
    /\ waiting' = ByPrev(vWorkQueue[i])
    /\ UNCHANGED <<mempool, txdb, orphans, mapAlreadyAskedFor, mapRelay,
                   pc, tx, vWorkQueue, i, vEraseQueue>>

(* The next entry of the work queue; operator[] leaves an empty set in the  *)
(* map for an entry nothing waits for.                                      *)
NextInQueue ==
    /\ pc = "loop" /\ waiting = {}
    /\ mapOrphanTransactionsByPrev' =
            [p \in DOMAIN mapOrphanTransactionsByPrev \cup {vWorkQueue[i]} |->
                ByPrev(p)]
    /\ i' = i + 1
    /\ IF i < Len(vWorkQueue)
         THEN waiting' = ByPrev(vWorkQueue[i + 1]) /\ UNCHANGED pc
         ELSE UNCHANGED waiting /\ pc' = "erase"
    /\ UNCHANGED <<mempool, txdb, mapOrphanTransactions, mapAlreadyAskedFor,
                   mapRelay, tx, vWorkQueue, vEraseQueue>>

(* EraseOrphanTx for each entry of vEraseQueue.                             *)
EraseNext ==
    /\ pc = "erase"
    /\ IF vEraseQueue # <<>>
         THEN /\ EraseOrphanTx(Head(vEraseQueue))
              /\ vEraseQueue' = Tail(vEraseQueue)
              /\ UNCHANGED <<pc, i, vWorkQueue>>
         ELSE /\ pc' = "idle" /\ vWorkQueue' = <<>> /\ i' = 1
              /\ UNCHANGED <<orphans, vEraseQueue>>
    /\ UNCHANGED <<mempool, txdb, mapAlreadyAskedFor, mapRelay, tx,
                   waiting>>

-----------------------------------------------------------------------------
(* The other ways into the pool and out of it look at no orphan: t may be   *)
(* pooled and kept back at once until a message releases it or it is        *)
(* evicted.                                                                 *)

(* The commands sendrawtransaction and, through CommitTransaction, those    *)
(* that send from the wallet: a pooled t is announced again.                *)
SendRawTransaction(t) ==
    /\ pc = "idle"
    /\ txdb.pos[t] = NotIndexed
    /\ IF t \in mempool.mapTx
         THEN UNCHANGED mempool
         ELSE Acceptable(mempool, txdb, t, {}) /\ mempool' = AddUnchecked(mempool, t)
    /\ mapRelay' = mapRelay \cup {t}
    /\ UNCHANGED <<txdb, orphans, mapAlreadyAskedFor, pc, tx, loop>>

(* A block with transaction t is connected (module ChainState): t is        *)
(* indexed and leaves the pool; its rivals stay (SetBestChainInner) or go   *)
(* with it (Reorganize).                                                    *)
BlockConnected(t) ==
    /\ pc = "idle"
    /\ txdb.pos[t] = NotIndexed /\ ~Minted(t) /\ InRange(t)
    /\ \A o \in Vin[t] : txdb.pos[o[1]] # NotIndexed
                         /\ (o \in ZeroValue \/ o \notin txdb.spent)
    /\ txdb' = [pos |-> [txdb.pos EXCEPT ![t] = AnyBlock],
                spent |-> txdb.spent \cup Vin[t]]
    /\ LET p == Drop(mempool, {t}) IN mempool' \in {p, RemoveConflicts(p, t)}
    /\ UNCHANGED <<orphans, mapAlreadyAskedFor, mapRelay, pc, tx, loop>>

(* The block with t, spent by no later one, is disconnected by Reorganize,  *)
(* which offers t to the pool again.                                        *)
BlockDisconnected(t) ==
    /\ pc = "idle"
    /\ txdb.pos[t] # NotIndexed /\ ~Minted(t) /\ Outs(t) \cap txdb.spent = {}
    /\ txdb' = [pos |-> [txdb.pos EXCEPT ![t] = NotIndexed],
                spent |-> txdb.spent \ Vin[t]]
    /\ mempool' = IF Acceptable(mempool, txdb', t, {})
                    THEN AddUnchecked(mempool, t) ELSE mempool
    /\ UNCHANGED <<orphans, mapAlreadyAskedFor, mapRelay, pc, tx, loop>>

Handler == \/ LimitOrphanTxSize \/ NextInQueue \/ EraseNext
           \/ \E t \in Tx : ProcessOrphan(t)

Next == \/ \E t \in Tx : \/ AskFor(t) \/ ReceiveAccepted(t) \/ ReceiveOrphan(t)
                         \/ SendRawTransaction(t)
                         \/ BlockConnected(t) \/ BlockDisconnected(t)
        \/ Handler

Spec == Init /\ [][Next]_vars /\ WF_vars(Handler)
-----------------------------------------------------------------------------
(* The shape of the state; no large transaction is kept back.               *)
TypeOK ==
    /\ mempool.mapTx \subseteq Tx
    /\ txdb \in [pos : [Tx -> {NotIndexed, AnyBlock}], spent : SUBSET OutPoint]
    /\ mapOrphanTransactions \subseteq Tx \ Large
    /\ DOMAIN mapOrphanTransactionsByPrev \subseteq Tx
    /\ \A p \in DOMAIN mapOrphanTransactionsByPrev :
            mapOrphanTransactionsByPrev[p] \subseteq Tx
    /\ mapAlreadyAskedFor \subseteq Tx /\ mapRelay \subseteq Tx
    /\ pc \in {"idle", "limit", "loop", "erase"} /\ tx \in Tx
    /\ vWorkQueue \in Seq(Tx) /\ vEraseQueue \in Seq(Tx) /\ waiting \subseteq Tx
    /\ i \in 1 .. Len(vWorkQueue) + 1

(* mapOrphanTransactionsByPrev is the exact inverse of "waits for" on the   *)
(* stored orphans, through eviction, acceptance and erasure: no orphan is   *)
(* unreachable from a parent, no entry names a transaction that is gone     *)
(* (the handler would then take an empty transaction from the map).         *)
OrphanIndexExact ==
    \A t, p \in Tx :
        t \in ByPrev(p) <=> t \in mapOrphanTransactions /\ p \in Parents(t)

(* LimitOrphanTxSize: "do not allow mapOrphanTransactions to grow           *)
(* unbounded".                                                              *)
OrphansBounded ==
    Cardinality(mapOrphanTransactions) <= MaxOrphans + (IF pc = "limit" THEN 1 ELSE 0)

(* Once the work queue is exhausted, nothing that waited for a transaction  *)
(* accepted on the way could still be accepted: one pass is enough, in      *)
(* whatever order the sets are walked.                                      *)
NoOrphanLeftBehind ==
    pc = "erase" => \A k \in DOMAIN vWorkQueue : \A t \in ByPrev(vWorkQueue[k]) :
                        ~Acceptable(mempool, txdb, t, {})

(* When the "tx" handler returns, what it has accepted is kept back no      *)
(* longer, and what still waits for it misses an input: an orphan accepted, *)
(* refused, or visited too early in the walk, is never left in the map for  *)
(* a release that cannot come.                                              *)
HandlerSettles ==
    pc = "erase" /\ vEraseQueue = <<>> =>
        \A k \in DOMAIN vWorkQueue :
            /\ vWorkQueue[k] \notin mapOrphanTransactions
            /\ \A t \in ByPrev(vWorkQueue[k]) : MissingInputs(mempool, txdb, t)

(* Every message is handled to the end: the work queue cannot feed itself   *)
(* for ever.                                                                *)
HandlerReturns == pc # "idle" ~> pc = "idle"

=============================================================================
