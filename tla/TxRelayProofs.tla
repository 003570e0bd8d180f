--------------------------- MODULE TxRelayProofs ---------------------------
(***************************************************************************)
(* Theorems about TxRelay, for every universe of transactions and every     *)
(* limit on the orphans.                                                    *)
(***************************************************************************)
EXTENDS TxRelay, FiniteSetTheorems, TLAPS

-----------------------------------------------------------------------------
(* What waits for a parent, as AddOrphanTx, EraseOrphanTx and operator[]    *)
(* leave it.                                                                *)
LEMMA ParentsAreTx == \A t \in Tx : Parents(t) \subseteq Tx
BY TransactionsAssumption DEF Parents, OutPoint

WaitingAreTx == \A p : ByPrev(p) \subseteq Tx

(* AddOrphanTx keeps mapOrphanTransactionsByPrev exact.                     *)
LEMMA AddOrphanByPrev ==
    ASSUME NEW t \in Tx, AddOrphanTx(t), OrphanIndexExact, WaitingAreTx,
           mapOrphanTransactions \subseteq Tx
    PROVE  OrphanIndexExact' /\ WaitingAreTx' /\ mapOrphanTransactions' \subseteq Tx
<1>1. CASE t \in mapOrphanTransactions \/ t \in Large
  BY <1>1 DEF AddOrphanTx, orphans, OrphanIndexExact, WaitingAreTx, ByPrev
<1>2. CASE ~(t \in mapOrphanTransactions \/ t \in Large)
  <2>1. \A p : ByPrev(p)' = ByPrev(p) \cup (IF p \in Parents(t) THEN {t} ELSE {})
    BY <1>2 DEF AddOrphanTx, ByPrev
  <2>2. mapOrphanTransactions' = mapOrphanTransactions \cup {t}
    BY <1>2 DEF AddOrphanTx
  <2> QED BY <2>1, <2>2 DEF OrphanIndexExact, WaitingAreTx
<1> QED BY <1>1, <1>2

(* EraseOrphanTx keeps it exact too, and takes out one orphan only.         *)
LEMMA EraseOrphanByPrev ==
    ASSUME NEW t, EraseOrphanTx(t), OrphanIndexExact, WaitingAreTx,
           mapOrphanTransactions \subseteq Tx
    PROVE  /\ OrphanIndexExact' /\ WaitingAreTx' /\ mapOrphanTransactions' \subseteq Tx
           /\ mapOrphanTransactions' = mapOrphanTransactions \ {t}
<1>1. CASE t \notin mapOrphanTransactions
  BY <1>1 DEF EraseOrphanTx, orphans, OrphanIndexExact, WaitingAreTx, ByPrev
<1>2. CASE t \in mapOrphanTransactions
  <2>1. mapOrphanTransactions' = mapOrphanTransactions \ {t}
    BY <1>2 DEF EraseOrphanTx
  <2>2. \A p : ByPrev(p)' = IF p \in Parents(t) THEN ByPrev(p) \ {t} ELSE ByPrev(p)
    BY <1>2 DEF EraseOrphanTx, ByPrev
  <2> QED BY <2>1, <2>2, <1>2 DEF OrphanIndexExact, WaitingAreTx
<1> QED BY <1>1, <1>2

-----------------------------------------------------------------------------
(* The orphan part of the state: the index is exact, and a transaction the  *)
(* handler has accepted and that is still kept back is in line for erasure. *)
(* The queues are empty between two messages.                               *)
InLine(t) == \E k \in 1 .. Len(vEraseQueue) : vEraseQueue[k] = t

OrphanInv ==
    /\ mapOrphanTransactions \subseteq Tx
    /\ OrphanIndexExact /\ WaitingAreTx
    /\ waiting \subseteq Tx
    /\ vWorkQueue \in Seq(Tx)
    /\ vEraseQueue \in Seq(Tx)
    /\ \A k \in 1 .. Len(vWorkQueue) :
            vWorkQueue[k] \in mapOrphanTransactions => InLine(vWorkQueue[k])
    /\ pc \in {"idle", "limit"} => vEraseQueue = <<>> /\ vWorkQueue = <<>>

(* The invariant holds when the node starts.                                *)
LEMMA OrphanInvInit == Init => OrphanInv
BY DEF Init, OrphanInv, OrphanIndexExact, WaitingAreTx, ByPrev, EmptyPool

(* Accepting a transaction puts it in line.                                 *)
LEMMA AcceptedInv ==
    ASSUME OrphanInv, NEW t \in Tx, Accepted(t),
           Acceptable(mempool, txdb, t, {})
    PROVE  /\ vEraseQueue' \in Seq(Tx) /\ vWorkQueue' \in Seq(Tx)
           /\ \A k \in 1 .. Len(vWorkQueue') :
                vWorkQueue'[k] \in mapOrphanTransactions => InLine(vWorkQueue[k])'
           /\ \A u : InLine(u) => InLine(u)'
           /\ InLine(t)'
<1>1. vWorkQueue \in Seq(Tx) /\ vEraseQueue \in Seq(Tx)
  BY DEF OrphanInv
<1>2. vEraseQueue' = Append(vEraseQueue, t) /\ vWorkQueue' = Append(vWorkQueue, t)
  BY DEF Accepted
<1>3. InLine(t)' /\ \A u : InLine(u) => InLine(u)'
  BY <1>1, <1>2 DEF InLine
<1>4. \A k \in 1 .. Len(vWorkQueue') :
        \/ vWorkQueue'[k] = t
        \/ k \in 1 .. Len(vWorkQueue) /\ vWorkQueue'[k] = vWorkQueue[k]
  BY <1>1, <1>2
<1>5. \A k \in 1 .. Len(vWorkQueue') :
        vWorkQueue'[k] \in mapOrphanTransactions => InLine(vWorkQueue[k])'
  <2> TAKE k \in 1 .. Len(vWorkQueue')
  <2> HAVE vWorkQueue'[k] \in mapOrphanTransactions
  <2>1. CASE vWorkQueue'[k] = t
    <3>1. vWorkQueue'[k] = t
      BY <2>1
    <3> QED BY <1>3, <3>1 DEF InLine
  <2>2. CASE k \in 1 .. Len(vWorkQueue) /\ vWorkQueue'[k] = vWorkQueue[k]
    <3>1. InLine(vWorkQueue[k])
      BY <2>2 DEF OrphanInv
    <3>2. PICK j \in 1 .. Len(vEraseQueue) : vEraseQueue[j] = vWorkQueue[k]
      BY <3>1 DEF InLine
    <3>3. j \in 1 .. Len(vEraseQueue') /\ vEraseQueue'[j] = vWorkQueue'[k]
      BY <3>2, <1>1, <1>2, <2>2
    <3> QED BY <3>3 DEF InLine
  <2> QED BY <1>4, <2>1, <2>2
<1> QED BY <1>1, <1>2, <1>3, <1>5

(* Each step of the "tx" handler keeps the invariant.                       *)
LEMMA OrphanInvStep == OrphanInv /\ [Next]_vars => OrphanInv'
<1> SUFFICES ASSUME OrphanInv, [Next]_vars PROVE OrphanInv'
  OBVIOUS
<1>1. ASSUME NEW t \in Tx, AskFor(t) PROVE OrphanInv'
  BY <1>1 DEF AskFor, OrphanInv, OrphanIndexExact, WaitingAreTx, ByPrev, InLine, orphans, loop
<1>2. ASSUME NEW t \in Tx, ReceiveAccepted(t) PROVE OrphanInv'
  <2>1. Accepted(t) /\ Acceptable(mempool, txdb, t, {})
    BY <1>2 DEF ReceiveAccepted
  <2>2. waiting' \subseteq Tx
    BY <1>2 DEF ReceiveAccepted, OrphanInv, WaitingAreTx
  <2> QED
    BY <1>2, <2>1, <2>2, AcceptedInv DEF ReceiveAccepted, OrphanInv, OrphanIndexExact,
      WaitingAreTx, ByPrev, orphans
<1>3. ASSUME NEW t \in Tx, ReceiveOrphan(t) PROVE OrphanInv'
  <2>1. OrphanIndexExact' /\ WaitingAreTx' /\ mapOrphanTransactions' \subseteq Tx
    BY <1>3, AddOrphanByPrev DEF ReceiveOrphan, OrphanInv
  <2>2. vWorkQueue = <<>> /\ vEraseQueue = <<>>
    BY <1>3 DEF ReceiveOrphan, OrphanInv
  <2> QED
    BY <1>3, <2>1, <2>2 DEF ReceiveOrphan, OrphanInv, loop
<1>4. ASSUME NEW t \in Tx, SendRawTransaction(t) \/ BlockConnected(t) \/ BlockDisconnected(t)
      PROVE  OrphanInv'
  <2>1. UNCHANGED <<orphans, pc, loop>>
    BY <1>4 DEF SendRawTransaction, BlockConnected, BlockDisconnected
  <2> QED
    BY <2>1 DEF OrphanInv, OrphanIndexExact, WaitingAreTx, ByPrev, InLine, orphans, loop
<1>5. CASE LimitOrphanTxSize
  <2>1. OrphanIndexExact' /\ WaitingAreTx' /\ mapOrphanTransactions' \subseteq mapOrphanTransactions
    BY <1>5, EraseOrphanByPrev DEF LimitOrphanTxSize, OrphanInv, OrphanIndexExact,
      WaitingAreTx, ByPrev, orphans
  <2> QED
    BY <1>5, <2>1 DEF LimitOrphanTxSize, OrphanInv, loop
<1>6. ASSUME NEW o \in Tx, ProcessOrphan(o) PROVE OrphanInv'
  <2>1. CASE Acceptable(mempool, txdb, o, {}) /\ Accepted(o)
    BY <1>6, <2>1, AcceptedInv DEF ProcessOrphan, OrphanInv, OrphanIndexExact, WaitingAreTx, ByPrev,
      orphans
  <2>2. CASE NotAccepted /\ vEraseQueue' \in {vEraseQueue, Append(vEraseQueue, o)}
    <3>1. vEraseQueue' \in Seq(Tx) /\ \A u : InLine(u) => InLine(u)'
      BY <2>2 DEF OrphanInv, InLine
    <3> QED
      BY <1>6, <2>2, <3>1 DEF ProcessOrphan, NotAccepted, OrphanInv, OrphanIndexExact,
        WaitingAreTx, ByPrev, orphans
  <2> QED BY <1>6, <2>1, <2>2 DEF ProcessOrphan
<1>7. CASE NextInQueue
  <2>1. \A p : ByPrev(p)' = ByPrev(p)
    BY <1>7 DEF NextInQueue, WaitingAreTx, ByPrev
  <2>2. OrphanIndexExact' /\ WaitingAreTx'
    BY <1>7, <2>1 DEF NextInQueue, OrphanInv, OrphanIndexExact, WaitingAreTx
  <2>3. waiting' \subseteq Tx
    BY <1>7 DEF NextInQueue, OrphanInv, WaitingAreTx
  <2> QED
    BY <1>7, <2>2, <2>3 DEF NextInQueue, OrphanInv, InLine
<1>8. CASE EraseNext
  <2>1. CASE vEraseQueue # <<>>
    <3>1. /\ EraseOrphanTx(Head(vEraseQueue)) /\ vEraseQueue' = Tail(vEraseQueue)
          /\ pc' = pc /\ pc = "erase"
      BY <1>8, <2>1 DEF EraseNext
    <3>2. OrphanIndexExact' /\ WaitingAreTx' /\ mapOrphanTransactions' = mapOrphanTransactions \ {Head(vEraseQueue)}
      BY <3>1, EraseOrphanByPrev DEF OrphanInv
    <3>3. \A u : InLine(u) => u = Head(vEraseQueue) \/ InLine(u)'
      <4> SUFFICES ASSUME NEW k \in 1 .. Len(vEraseQueue), k # 1
                   PROVE  k - 1 \in 1 .. Len(vEraseQueue')
                          /\ vEraseQueue'[k - 1] = vEraseQueue[k]
        BY DEF InLine, OrphanInv
      <4> QED BY <3>1, <2>1 DEF OrphanInv
    <3>4. vEraseQueue' \in Seq(Tx)
      BY <3>1, <2>1 DEF OrphanInv
    <3> QED
      BY <1>8, <2>1, <3>1, <3>2, <3>3, <3>4 DEF EraseNext, OrphanInv
  <2>2. CASE vEraseQueue = <<>>
    BY <1>8, <2>2 DEF EraseNext, OrphanInv, OrphanIndexExact, WaitingAreTx, ByPrev, InLine, orphans
  <2> QED BY <2>1, <2>2
<1>9. CASE UNCHANGED vars
  BY <1>9 DEF vars, OrphanInv, OrphanIndexExact, WaitingAreTx, ByPrev, InLine, orphans, loop
<1> QED
  BY <1>1, <1>2, <1>3, <1>4, <1>5, <1>6, <1>7, <1>8, <1>9 DEF Next, Handler

-----------------------------------------------------------------------------
(* mapOrphanTransactionsByPrev is always the exact inverse of the orphans'  *)
(* inputs, whatever is evicted, accepted or erased.                         *)
THEOREM OrphanIndexCorrect == Spec => []OrphanIndexExact
<1>1. OrphanInv => OrphanIndexExact
  BY DEF OrphanInv
<1> QED BY <1>1, OrphanInvInit, OrphanInvStep, PTL DEF Spec

-----------------------------------------------------------------------------
(* The locals of the handler: between two messages the work queue is empty  *)
(* and its index back at the front, in the loop the index is on an entry,   *)
(* and past the last one when the orphans are erased.                       *)
LocalsOk ==
    /\ pc \in {"idle", "limit", "loop", "erase"} /\ tx \in Tx
    /\ pc \in {"idle", "limit"} => vWorkQueue = <<>> /\ i = 1
    /\ pc = "loop" => i \in 1 .. Len(vWorkQueue)
    /\ pc = "erase" => i = Len(vWorkQueue) + 1
    /\ pc # "loop" => waiting = {}

MapsOk ==
    /\ mempool.mapTx \subseteq Tx
    /\ txdb \in [pos : [Tx -> {NotIndexed, AnyBlock}], spent : SUBSET OutPoint]
    /\ mapOrphanTransactions \cap Large = {}
    /\ DOMAIN mapOrphanTransactionsByPrev \subseteq Tx
    /\ mapAlreadyAskedFor \subseteq Tx /\ mapRelay \subseteq Tx

RelayInv == OrphanInv /\ LocalsOk /\ MapsOk

(* An orphan that waits for an accepted transaction and could be accepted   *)
(* now is still ahead of the handler, under the entry it works on or under  *)
(* a later one.                                                             *)
Ahead(t) ==
    \/ t \in waiting
    \/ \E k \in i + 1 .. Len(vWorkQueue) : t \in ByPrev(vWorkQueue[k])

AcceptableAhead ==
    pc \in {"loop", "erase"} =>
        \A k \in 1 .. Len(vWorkQueue) : \A t \in ByPrev(vWorkQueue[k]) :
            Acceptable(mempool, txdb, t, {}) => Ahead(t)

-----------------------------------------------------------------------------
(* The locals and the maps are as described when the node starts.           *)
LEMMA RelayInvInit == Init => RelayInv
<1> SUFFICES ASSUME Init PROVE LocalsOk /\ MapsOk
  BY OrphanInvInit DEF RelayInv
<1>1. LocalsOk
  BY TxRelayAssumption DEF Init, LocalsOk
<1>2. MapsOk
  BY DEF Init, MapsOk, EmptyPool
<1> QED BY <1>1, <1>2

(* EraseOrphanTx adds no key to mapOrphanTransactionsByPrev and no orphan.  *)
LEMMA EraseOrphanKeys ==
    ASSUME NEW t, EraseOrphanTx(t)
    PROVE  /\ DOMAIN mapOrphanTransactionsByPrev' \subseteq DOMAIN mapOrphanTransactionsByPrev
           /\ mapOrphanTransactions' \subseteq mapOrphanTransactions
BY DEF EraseOrphanTx, orphans

(* Accepting a transaction changes the pool, the relay set and the queues.  *)
LEMMA AcceptedMaps ==
    ASSUME RelayInv, NEW t \in Tx, Accepted(t)
    PROVE  /\ mempool'.mapTx \subseteq Tx
           /\ mapAlreadyAskedFor' \subseteq Tx /\ mapRelay' \subseteq Tx
           /\ Len(vWorkQueue') = Len(vWorkQueue) + 1
           /\ vWorkQueue' = Append(vWorkQueue, t)
BY DEF RelayInv, OrphanInv, MapsOk, Accepted, AddUnchecked

(* Each step of the "tx" handler keeps the shape of the state.              *)
LEMMA RelayInvStep == RelayInv /\ [Next]_vars => RelayInv'
<1> SUFFICES ASSUME RelayInv, [Next]_vars PROVE LocalsOk' /\ MapsOk'
  BY OrphanInvStep DEF RelayInv
<1>a. OrphanInv /\ LocalsOk /\ MapsOk
  BY DEF RelayInv
<1>b. vWorkQueue \in Seq(Tx) /\ vEraseQueue \in Seq(Tx) /\ waiting \subseteq Tx
  BY <1>a DEF OrphanInv
<1>1. ASSUME NEW t \in Tx, AskFor(t) PROVE LocalsOk' /\ MapsOk'
  BY <1>1, <1>a DEF AskFor, LocalsOk, MapsOk, orphans, loop
<1>2. ASSUME NEW t \in Tx, ReceiveAccepted(t) PROVE LocalsOk' /\ MapsOk'
  <2>1. Accepted(t)
    BY <1>2 DEF ReceiveAccepted
  <2>2. MapsOk'
    BY <1>2, <1>a, <2>1, AcceptedMaps DEF ReceiveAccepted, MapsOk, orphans
  <2>3. LocalsOk'
    BY <1>2, <1>a, <1>b, <2>1, AcceptedMaps DEF ReceiveAccepted, LocalsOk
  <2> QED BY <2>2, <2>3
<1>3. ASSUME NEW t \in Tx, ReceiveOrphan(t) PROVE LocalsOk' /\ MapsOk'
  <2>1. DOMAIN mapOrphanTransactionsByPrev' \subseteq Tx /\ mapOrphanTransactions' \cap Large = {}
    BY <1>3, <1>a, ParentsAreTx DEF ReceiveOrphan, AddOrphanTx, MapsOk, orphans
  <2> QED
    BY <1>3, <1>a, <2>1 DEF ReceiveOrphan, LocalsOk, MapsOk, loop
<1>4. ASSUME NEW t \in Tx, BlockConnected(t) PROVE LocalsOk' /\ MapsOk'
  <2>1. mempool'.mapTx \subseteq mempool.mapTx
    BY <1>4 DEF BlockConnected, Drop, RemoveConflicts
  <2>2. txdb' \in [pos : [Tx -> {NotIndexed, AnyBlock}], spent : SUBSET OutPoint]
    BY <1>4, <1>a, TransactionsAssumption DEF BlockConnected, MapsOk
  <2> QED
    BY <1>4, <1>a, <2>1, <2>2 DEF BlockConnected, LocalsOk, MapsOk, orphans, loop
<1>10. ASSUME NEW t \in Tx, SendRawTransaction(t) PROVE LocalsOk' /\ MapsOk'
  <2>1. mempool'.mapTx \subseteq Tx /\ mapRelay' \subseteq Tx
    BY <1>10, <1>a DEF SendRawTransaction, AddUnchecked, MapsOk
  <2> QED
    BY <1>10, <1>a, <2>1 DEF SendRawTransaction, LocalsOk, MapsOk, orphans, loop
<1>11. ASSUME NEW t \in Tx, BlockDisconnected(t) PROVE LocalsOk' /\ MapsOk'
  <2>1. mempool'.mapTx \subseteq Tx
    BY <1>11, <1>a DEF BlockDisconnected, AddUnchecked, MapsOk
  <2>2. txdb' \in [pos : [Tx -> {NotIndexed, AnyBlock}], spent : SUBSET OutPoint]
    BY <1>11, <1>a, TransactionsAssumption DEF BlockDisconnected, MapsOk
  <2> QED
    BY <1>11, <1>a, <2>1, <2>2 DEF BlockDisconnected, LocalsOk, MapsOk, orphans, loop
<1>5. CASE LimitOrphanTxSize
  <2>1. /\ DOMAIN mapOrphanTransactionsByPrev' \subseteq DOMAIN mapOrphanTransactionsByPrev
        /\ mapOrphanTransactions' \subseteq mapOrphanTransactions
    BY <1>5, EraseOrphanKeys DEF LimitOrphanTxSize, orphans
  <2>2. pc = "limit" /\ pc' \in {"limit", "idle"}
    BY <1>5 DEF LimitOrphanTxSize
  <2> QED
    BY <1>5, <1>a, <2>1, <2>2 DEF LimitOrphanTxSize, LocalsOk, MapsOk, loop
<1>6. ASSUME NEW o \in Tx, ProcessOrphan(o) PROVE LocalsOk' /\ MapsOk'
  <2>1. CASE Accepted(o)
    <3>1. MapsOk'
      BY <1>6, <1>a, <2>1, AcceptedMaps DEF ProcessOrphan, MapsOk, orphans
    <3>2. LocalsOk'
      BY <1>6, <1>a, <1>b, <2>1, AcceptedMaps DEF ProcessOrphan, LocalsOk
    <3> QED BY <3>1, <3>2
  <2>2. CASE NotAccepted
    BY <1>6, <1>a, <2>2 DEF ProcessOrphan, NotAccepted, LocalsOk, MapsOk, orphans
  <2> QED BY <1>6, <2>1, <2>2 DEF ProcessOrphan
<1>7. CASE NextInQueue
  <2>1. i \in 1 .. Len(vWorkQueue) /\ vWorkQueue[i] \in Tx
    BY <1>7, <1>a, <1>b DEF NextInQueue, LocalsOk
  <2>2. MapsOk'
    BY <1>7, <1>a, <2>1 DEF NextInQueue, MapsOk
  <2>3. LocalsOk'
    BY <1>7, <1>a, <1>b, <2>1 DEF NextInQueue, LocalsOk
  <2> QED BY <2>2, <2>3
<1>8. CASE EraseNext
  <2>1. /\ DOMAIN mapOrphanTransactionsByPrev' \subseteq DOMAIN mapOrphanTransactionsByPrev
        /\ mapOrphanTransactions' \subseteq mapOrphanTransactions
    BY <1>8, EraseOrphanKeys DEF EraseNext, orphans
  <2>2. MapsOk'
    BY <1>8, <1>a, <2>1 DEF EraseNext, MapsOk
  <2>3. LocalsOk'
    BY <1>8, <1>a DEF EraseNext, LocalsOk
  <2> QED BY <2>2, <2>3
<1>9. CASE UNCHANGED vars
  BY <1>9, <1>a DEF vars, LocalsOk, MapsOk, orphans, loop
<1> QED
  BY <1>1, <1>2, <1>3, <1>4, <1>5, <1>6, <1>7, <1>8, <1>9, <1>10, <1>11
    DEF Next, Handler

(* The state of the relay always has its declared shape; the loop never     *)
(* reads past the work queue.                                               *)
THEOREM RelayTypeCorrect == Spec => []TypeOK
<1>1. RelayInv => TypeOK
  <2> SUFFICES ASSUME RelayInv PROVE TypeOK
    OBVIOUS
  <2>1. OrphanInv /\ LocalsOk /\ MapsOk
    BY DEF RelayInv
  <2>2. i \in 1 .. Len(vWorkQueue) + 1
    BY <2>1 DEF OrphanInv, LocalsOk
  <2>3. \A p \in DOMAIN mapOrphanTransactionsByPrev :
            mapOrphanTransactionsByPrev[p] \subseteq Tx
    BY <2>1 DEF OrphanInv, WaitingAreTx, ByPrev
  <2> QED
    BY <2>1, <2>2, <2>3 DEF TypeOK, OrphanInv, LocalsOk, MapsOk
<1> QED BY <1>1, RelayInvInit, RelayInvStep, PTL DEF Spec

-----------------------------------------------------------------------------
(* A transaction becomes acceptable when another one is pooled only if it   *)
(* waits for that one: everything else the pool grows by counts against it. *)
LEMMA AcceptableByParent ==
    ASSUME NEW p, NEW db, NEW t, NEW u,
           Acceptable(AddUnchecked(p, u), db, t, {})
    PROVE  Acceptable(p, db, t, {}) \/ u \in Parents(t)
<1> DEFINE q == AddUnchecked(p, u)
<1>1. q.mapTx = p.mapTx \cup {u} /\ DOMAIN q.mapNextTx = DOMAIN p.mapNextTx \cup Vin[u]
  BY DEF AddUnchecked
<1>2. PreAccept(p, db, t)
  BY <1>1 DEF Acceptable, PreAccept
<1>3. MissingInputs(p, db, t) => u \in Parents(t)
  BY <1>1 DEF Acceptable, MissingInputs, Parents
<1> QED BY <1>2, <1>3 DEF Acceptable

(* A pooled transaction is not accepted a second time.                      *)
LEMMA PooledNotAcceptable ==
    ASSUME NEW p, NEW db, NEW t PROVE ~Acceptable(AddUnchecked(p, t), db, t, {})
BY DEF Acceptable, PreAccept, AddUnchecked

(* Each step keeps what can be accepted ahead of the handler.               *)
LEMMA AheadStep ==
    RelayInv /\ AcceptableAhead /\ [Next]_vars => AcceptableAhead'
<1> SUFFICES ASSUME RelayInv, AcceptableAhead, [Next]_vars PROVE AcceptableAhead'
  OBVIOUS
<1>a. OrphanInv /\ LocalsOk
  BY DEF RelayInv
<1>b. vWorkQueue \in Seq(Tx) /\ waiting \subseteq Tx
  BY <1>a DEF OrphanInv
<1>c. pc' \notin {"loop", "erase"} => AcceptableAhead'
  BY DEF AcceptableAhead
<1>1. ASSUME NEW t \in Tx, \/ AskFor(t) \/ ReceiveOrphan(t) \/ SendRawTransaction(t)
                            \/ BlockConnected(t) \/ BlockDisconnected(t)
      PROVE  AcceptableAhead'
  BY <1>1, <1>c DEF AskFor, ReceiveOrphan, SendRawTransaction, BlockConnected, BlockDisconnected
<1>2. CASE LimitOrphanTxSize
  BY <1>2, <1>c DEF LimitOrphanTxSize
<1>3. ASSUME NEW t \in Tx, ReceiveAccepted(t) PROVE AcceptableAhead'
  <2>1. vWorkQueue' = <<t>> /\ waiting' = ByPrev(t)
    BY <1>3, <1>a DEF ReceiveAccepted, Accepted, LocalsOk
  <2>2. \A p : ByPrev(p)' = ByPrev(p)
    BY <1>3 DEF ReceiveAccepted, ByPrev, orphans
  <2> QED BY <2>1, <2>2 DEF AcceptableAhead, Ahead
<1>4. ASSUME NEW o \in Tx, ProcessOrphan(o) PROVE AcceptableAhead'
  <2>1. /\ pc = "loop" /\ pc' = pc /\ i' = i /\ txdb' = txdb
        /\ waiting' = waiting \ {o} /\ i \in 1 .. Len(vWorkQueue)
        /\ \A p : ByPrev(p)' = ByPrev(p)
    BY <1>4, <1>a DEF ProcessOrphan, ByPrev, orphans, LocalsOk
  <2>2. CASE Accepted(o)
    <3>1. vWorkQueue' = Append(vWorkQueue, o) /\ mempool' = AddUnchecked(mempool, o)
      BY <2>2 DEF Accepted
    <3> SUFFICES ASSUME NEW k \in 1 .. Len(vWorkQueue'), NEW t \in ByPrev(vWorkQueue'[k]),
                        Acceptable(mempool', txdb, t, {})
                 PROVE  Ahead(t)'
      BY <2>1 DEF AcceptableAhead
    <3>2. t \in mapOrphanTransactions /\ t \in Tx /\ t # o
      <4>1. vWorkQueue'[k] \in Tx /\ t \in Tx
        BY <1>a, <1>b, <3>1 DEF OrphanInv, WaitingAreTx
      <4> QED BY <1>a, <3>1, <4>1, PooledNotAcceptable DEF OrphanInv, OrphanIndexExact
    <3>3. CASE o \in Parents(t)
      <4>1. t \in ByPrev(o)
        BY <1>a, <3>2, <3>3 DEF OrphanInv, OrphanIndexExact
      <4> DEFINE n == Len(vWorkQueue) + 1
      <4>2. n \in i + 1 .. Len(vWorkQueue') /\ vWorkQueue'[n] = o
        BY <1>b, <2>1, <3>1
      <4>3. \E j \in i + 1 .. Len(vWorkQueue') : t \in ByPrev(vWorkQueue'[j])
        BY <4>1, <4>2
      <4> QED BY <2>1, <4>3 DEF Ahead
    <3>4. CASE o \notin Parents(t)
      <4>1. Acceptable(mempool, txdb, t, {})
        BY <3>1, <3>4, AcceptableByParent
      <4>2. k # Len(vWorkQueue) + 1
        <5> SUFFICES ASSUME k = Len(vWorkQueue) + 1 PROVE FALSE
          OBVIOUS
        <5>1. vWorkQueue'[k] = o
          BY <1>b, <3>1
        <5> QED BY <5>1, <3>2, <3>4, <1>a DEF OrphanInv, OrphanIndexExact
      <4>3. k \in 1 .. Len(vWorkQueue) /\ vWorkQueue'[k] = vWorkQueue[k]
        BY <1>b, <3>1, <4>2
      <4>4. Ahead(t)
        BY <4>1, <4>3, <2>1 DEF AcceptableAhead
      <4>5. \A j \in i + 1 .. Len(vWorkQueue) :
                j \in i + 1 .. Len(vWorkQueue') /\ vWorkQueue'[j] = vWorkQueue[j]
        BY <1>b, <2>1, <3>1
      <4> QED BY <2>1, <3>2, <4>4, <4>5 DEF Ahead
    <3> QED BY <3>3, <3>4
  <2>3. CASE NotAccepted /\ ~Acceptable(mempool, txdb, o, {})
    BY <2>1, <2>3 DEF NotAccepted, AcceptableAhead, Ahead
  <2> QED BY <1>4, <2>2, <2>3 DEF ProcessOrphan
<1>5. CASE NextInQueue
  <2>1. /\ pc = "loop" /\ waiting = {} /\ i' = i + 1 /\ vWorkQueue' = vWorkQueue
        /\ mempool' = mempool /\ txdb' = txdb /\ i \in 1 .. Len(vWorkQueue)
    BY <1>5, <1>a DEF NextInQueue, LocalsOk
  <2>2. \A p : ByPrev(p)' = ByPrev(p)
    BY <1>5 DEF NextInQueue, ByPrev
  <2>3. CASE i < Len(vWorkQueue)
    <3>1. waiting' = ByPrev(vWorkQueue[i + 1])
      BY <1>5, <2>3 DEF NextInQueue
    <3>2. \A j \in i + 1 .. Len(vWorkQueue) : j = i + 1 \/ j \in i' + 1 .. Len(vWorkQueue)
      BY <1>b, <2>1
    <3>3. \A t : Ahead(t) => Ahead(t)'
      BY <2>1, <2>2, <3>1, <3>2 DEF Ahead
    <3> QED BY <2>1, <2>2, <3>3 DEF AcceptableAhead
  <2>4. CASE ~(i < Len(vWorkQueue))
    <3>1. i + 1 .. Len(vWorkQueue) = {}
      BY <1>b, <2>1, <2>4
    <3>2. \A t : ~Ahead(t)
      BY <2>1, <3>1 DEF Ahead
    <3> QED BY <2>1, <2>2, <3>2 DEF AcceptableAhead
  <2> QED BY <2>3, <2>4
<1>6. CASE EraseNext
  <2>1. CASE vEraseQueue # <<>>
    <3>1. \A p : ByPrev(p)' \subseteq ByPrev(p)
      BY <1>6, <2>1 DEF EraseNext, EraseOrphanTx, ByPrev, orphans
    <3>2. /\ pc = "erase" /\ i = Len(vWorkQueue) + 1 /\ waiting = {}
          /\ vWorkQueue' = vWorkQueue /\ mempool' = mempool /\ txdb' = txdb
      BY <1>6, <1>a, <2>1 DEF EraseNext, LocalsOk
    <3>3. i + 1 .. Len(vWorkQueue) = {}
      BY <1>b, <3>2
    <3>4. \A t : ~Ahead(t)
      BY <3>2, <3>3 DEF Ahead
    <3> QED BY <3>1, <3>2, <3>4 DEF AcceptableAhead
  <2>2. CASE vEraseQueue = <<>>
    BY <1>6, <2>2, <1>c DEF EraseNext
  <2> QED BY <2>1, <2>2
<1>7. CASE UNCHANGED vars
  BY <1>7 DEF vars, orphans, loop, AcceptableAhead, Ahead, ByPrev
<1> QED
  BY <1>1, <1>2, <1>3, <1>4, <1>5, <1>6, <1>7 DEF Next, Handler

(* When the work queue is exhausted nothing that waited for an accepted     *)
(* transaction could still be accepted, in whatever order the orphans were  *)
(* visited.                                                                 *)
THEOREM OnePassEnough == Spec => []NoOrphanLeftBehind
<1>1. Init => AcceptableAhead
  BY DEF Init, AcceptableAhead
<1>2. RelayInv /\ AcceptableAhead => NoOrphanLeftBehind
  <2> SUFFICES ASSUME RelayInv, AcceptableAhead, pc = "erase",
                      NEW k \in DOMAIN vWorkQueue, NEW t \in ByPrev(vWorkQueue[k]),
                      Acceptable(mempool, txdb, t, {})
               PROVE  FALSE
    BY DEF NoOrphanLeftBehind
  <2>1. vWorkQueue \in Seq(Tx) /\ i = Len(vWorkQueue) + 1 /\ waiting = {}
    BY DEF RelayInv, OrphanInv, LocalsOk
  <2>2. k \in 1 .. Len(vWorkQueue) /\ i + 1 .. Len(vWorkQueue) = {}
    BY <2>1
  <2>3. Ahead(t)
    BY <2>2 DEF AcceptableAhead
  <2> QED BY <2>1, <2>2, <2>3 DEF Ahead
<1> QED BY <1>1, <1>2, RelayInvInit, RelayInvStep, AheadStep, PTL DEF Spec

-----------------------------------------------------------------------------
(* What waits for an accepted transaction is ahead of the handler, or in    *)
(* line for erasure, or misses another input.                               *)
WaitingSettled ==
    pc \in {"loop", "erase"} =>
        \A k \in 1 .. Len(vWorkQueue) : \A t \in ByPrev(vWorkQueue[k]) :
            Ahead(t) \/ InLine(t) \/ MissingInputs(mempool, txdb, t)

(* An input is missing until the transaction it names is pooled.            *)
LEMMA MissingByParent ==
    ASSUME NEW p, NEW db, NEW t, NEW u, MissingInputs(p, db, t), u \notin Parents(t)
    PROVE  MissingInputs(AddUnchecked(p, u), db, t)
BY DEF MissingInputs, AddUnchecked, Parents

(* Each step keeps it so.                                                   *)
LEMMA SettledStep ==
    RelayInv /\ WaitingSettled /\ [Next]_vars => WaitingSettled'
<1> SUFFICES ASSUME RelayInv, WaitingSettled, [Next]_vars PROVE WaitingSettled'
  OBVIOUS
<1>a. OrphanInv /\ LocalsOk
  BY DEF RelayInv
<1>b. vWorkQueue \in Seq(Tx) /\ waiting \subseteq Tx /\ vEraseQueue \in Seq(Tx)
  BY <1>a DEF OrphanInv
<1>c. pc' \notin {"loop", "erase"} => WaitingSettled'
  BY DEF WaitingSettled
<1>1. ASSUME NEW t \in Tx, \/ AskFor(t) \/ ReceiveOrphan(t) \/ SendRawTransaction(t)
                            \/ BlockConnected(t) \/ BlockDisconnected(t)
      PROVE  WaitingSettled'
  BY <1>1, <1>c DEF AskFor, ReceiveOrphan, SendRawTransaction, BlockConnected, BlockDisconnected
<1>2. CASE LimitOrphanTxSize
  BY <1>2, <1>c DEF LimitOrphanTxSize
<1>3. ASSUME NEW t \in Tx, ReceiveAccepted(t) PROVE WaitingSettled'
  <2>1. vWorkQueue' = <<t>> /\ waiting' = ByPrev(t)
    BY <1>3, <1>a DEF ReceiveAccepted, Accepted, LocalsOk
  <2>2. \A p : ByPrev(p)' = ByPrev(p)
    BY <1>3 DEF ReceiveAccepted, ByPrev, orphans
  <2> QED BY <2>1, <2>2 DEF WaitingSettled, Ahead
<1>4. ASSUME NEW o \in Tx, ProcessOrphan(o) PROVE WaitingSettled'
  <2>1. /\ pc = "loop" /\ pc' = pc /\ i' = i /\ txdb' = txdb
        /\ waiting' = waiting \ {o} /\ i \in 1 .. Len(vWorkQueue)
        /\ \A p : ByPrev(p)' = ByPrev(p)
    BY <1>4, <1>a DEF ProcessOrphan, ByPrev, orphans, LocalsOk
  <2>2. CASE Accepted(o) /\ Acceptable(mempool, txdb, o, {})
    <3>1. vWorkQueue' = Append(vWorkQueue, o) /\ mempool' = AddUnchecked(mempool, o)
      BY <2>2 DEF Accepted
    <3>5. InLine(o)' /\ \A u : InLine(u) => InLine(u)'
      BY <1>a, <2>2, AcceptedInv
    <3> SUFFICES ASSUME NEW k \in 1 .. Len(vWorkQueue'), NEW t \in ByPrev(vWorkQueue'[k])
                 PROVE  Ahead(t)' \/ InLine(t)' \/ MissingInputs(mempool', txdb, t)
      BY <2>1 DEF WaitingSettled
    <3>2. vWorkQueue'[k] \in Tx /\ t \in Tx /\ t \in mapOrphanTransactions
      <4>1. vWorkQueue'[k] \in Tx /\ t \in Tx
        BY <1>a, <1>b, <3>1 DEF OrphanInv, WaitingAreTx
      <4> QED BY <1>a, <3>1, <4>1 DEF OrphanInv, OrphanIndexExact
    <3>3. CASE o \in Parents(t)
      <4>1. t \in ByPrev(o)
        BY <1>a, <3>2, <3>3 DEF OrphanInv, OrphanIndexExact
      <4> DEFINE n == Len(vWorkQueue) + 1
      <4>2. n \in i + 1 .. Len(vWorkQueue') /\ vWorkQueue'[n] = o
        BY <1>b, <2>1, <3>1
      <4>3. \E j \in i + 1 .. Len(vWorkQueue') : t \in ByPrev(vWorkQueue'[j])
        BY <4>1, <4>2
      <4> QED BY <2>1, <4>3 DEF Ahead
    <3>4. CASE o \notin Parents(t)
      <4>2. k # Len(vWorkQueue) + 1
        <5> SUFFICES ASSUME k = Len(vWorkQueue) + 1 PROVE FALSE
          OBVIOUS
        <5>1. vWorkQueue'[k] = o
          BY <1>b, <3>1
        <5> QED BY <5>1, <3>2, <3>4, <1>a DEF OrphanInv, OrphanIndexExact
      <4>3. k \in 1 .. Len(vWorkQueue) /\ vWorkQueue'[k] = vWorkQueue[k]
        BY <1>b, <3>1, <4>2
      <4>4. Ahead(t) \/ InLine(t) \/ MissingInputs(mempool, txdb, t)
        BY <4>3, <2>1 DEF WaitingSettled
      <4>5. \A j \in i + 1 .. Len(vWorkQueue) :
                j \in i + 1 .. Len(vWorkQueue') /\ vWorkQueue'[j] = vWorkQueue[j]
        BY <1>b, <2>1, <3>1
      <4>6. CASE Ahead(t)
        <5>1. t # o => Ahead(t)'
          BY <2>1, <4>5, <4>6 DEF Ahead
        <5> QED BY <5>1, <3>5
      <4>7. CASE InLine(t)
        BY <4>7, <3>5
      <4>8. CASE MissingInputs(mempool, txdb, t)
        BY <4>8, <3>1, <3>4, MissingByParent
      <4> QED BY <4>4, <4>6, <4>7, <4>8
    <3> QED BY <3>3, <3>4
  <2>3. CASE /\ NotAccepted
             /\ vEraseQueue' = IF Orphaned(mempool, txdb, o)
                                 THEN vEraseQueue ELSE Append(vEraseQueue, o)
    <3>1. \A u : InLine(u) => InLine(u)'
      BY <1>b, <2>3 DEF InLine
    <3>2. MissingInputs(mempool, txdb, o) \/ InLine(o)'
      BY <1>b, <2>3 DEF InLine, Orphaned
    <3>3. vWorkQueue' = vWorkQueue /\ mempool' = mempool
      BY <2>3 DEF NotAccepted
    <3>4. \A u : Ahead(u) => u = o \/ Ahead(u)'
      BY <2>1, <3>3 DEF Ahead
    <3> QED BY <2>1, <3>1, <3>2, <3>3, <3>4 DEF WaitingSettled
  <2> QED BY <1>4, <2>2, <2>3 DEF ProcessOrphan
<1>5. CASE NextInQueue
  <2>1. /\ pc = "loop" /\ waiting = {} /\ i' = i + 1 /\ vWorkQueue' = vWorkQueue
        /\ mempool' = mempool /\ txdb' = txdb /\ i \in 1 .. Len(vWorkQueue)
        /\ vEraseQueue' = vEraseQueue
    BY <1>5, <1>a DEF NextInQueue, LocalsOk
  <2>2. \A p : ByPrev(p)' = ByPrev(p)
    BY <1>5 DEF NextInQueue, ByPrev
  <2>5. \A t : InLine(t) => InLine(t)'
    BY <2>1 DEF InLine
  <2>3. CASE i < Len(vWorkQueue)
    <3>1. waiting' = ByPrev(vWorkQueue[i + 1])
      BY <1>5, <2>3 DEF NextInQueue
    <3>2. \A j \in i + 1 .. Len(vWorkQueue) : j = i + 1 \/ j \in i' + 1 .. Len(vWorkQueue)
      BY <1>b, <2>1
    <3>3. \A t : Ahead(t) => Ahead(t)'
      BY <2>1, <2>2, <3>1, <3>2 DEF Ahead
    <3> QED BY <2>1, <2>2, <2>5, <3>3 DEF WaitingSettled
  <2>4. CASE ~(i < Len(vWorkQueue))
    <3>1. i + 1 .. Len(vWorkQueue) = {}
      BY <1>b, <2>1, <2>4
    <3>2. \A t : ~Ahead(t)
      BY <2>1, <3>1 DEF Ahead
    <3> QED BY <2>1, <2>2, <2>5, <3>2 DEF WaitingSettled
  <2> QED BY <2>3, <2>4
<1>6. CASE EraseNext
  <2>1. CASE vEraseQueue # <<>>
    <3>1. \A p : ByPrev(p)' \subseteq ByPrev(p)
      BY <1>6, <2>1 DEF EraseNext, EraseOrphanTx, ByPrev, orphans
    <3>2. /\ pc = "erase" /\ i = Len(vWorkQueue) + 1 /\ waiting = {}
          /\ vWorkQueue' = vWorkQueue /\ mempool' = mempool /\ txdb' = txdb
          /\ vEraseQueue' = Tail(vEraseQueue) /\ EraseOrphanTx(Head(vEraseQueue))
      BY <1>6, <1>a, <2>1 DEF EraseNext, LocalsOk
    <3>3. i + 1 .. Len(vWorkQueue) = {}
      BY <1>b, <3>2
    <3>4. \A t : ~Ahead(t)
      BY <3>2, <3>3 DEF Ahead
    <3>5. OrphanIndexExact' /\ WaitingAreTx'
          /\ mapOrphanTransactions' = mapOrphanTransactions \ {Head(vEraseQueue)}
      BY <1>a, <3>2, EraseOrphanByPrev DEF OrphanInv
    <3>6. \A p \in Tx : Head(vEraseQueue) \notin ByPrev(p)'
      BY <3>5 DEF OrphanIndexExact, WaitingAreTx
    <3>7. \A u : InLine(u) => u = Head(vEraseQueue) \/ InLine(u)'
      <4> SUFFICES ASSUME NEW k \in 1 .. Len(vEraseQueue), k # 1
                   PROVE  k - 1 \in 1 .. Len(vEraseQueue')
                          /\ vEraseQueue'[k - 1] = vEraseQueue[k]
        BY <1>b DEF InLine
      <4> QED BY <3>2, <2>1, <1>b
    <3>8. \A k \in 1 .. Len(vWorkQueue) : vWorkQueue[k] \in Tx
      BY <1>b
    <3> QED BY <3>1, <3>2, <3>4, <3>6, <3>7, <3>8 DEF WaitingSettled
  <2>2. CASE vEraseQueue = <<>>
    BY <1>6, <2>2, <1>c DEF EraseNext
  <2> QED BY <2>1, <2>2
<1>7. CASE UNCHANGED vars
  BY <1>7 DEF vars, orphans, loop, WaitingSettled, Ahead, InLine, ByPrev
<1> QED
  BY <1>1, <1>2, <1>3, <1>4, <1>5, <1>6, <1>7 DEF Next, Handler

(* When the "tx" handler returns, what it accepted is not kept back, and    *)
(* whatever still waits for it misses an input.                             *)
THEOREM HandlerSettlesCorrect == Spec => []HandlerSettles
<1>1. Init => WaitingSettled
  BY DEF Init, WaitingSettled
<1>2. RelayInv /\ WaitingSettled => HandlerSettles
  <2> SUFFICES ASSUME RelayInv, WaitingSettled, pc = "erase", vEraseQueue = <<>>,
                      NEW k \in DOMAIN vWorkQueue
               PROVE  /\ vWorkQueue[k] \notin mapOrphanTransactions
                      /\ \A t \in ByPrev(vWorkQueue[k]) : MissingInputs(mempool, txdb, t)
    BY DEF HandlerSettles
  <2>1. vWorkQueue \in Seq(Tx) /\ i = Len(vWorkQueue) + 1 /\ waiting = {}
    BY DEF RelayInv, OrphanInv, LocalsOk
  <2>2. k \in 1 .. Len(vWorkQueue) /\ i + 1 .. Len(vWorkQueue) = {}
    BY <2>1
  <2>3. \A t : ~InLine(t)
    BY DEF InLine
  <2>4. \A t : ~Ahead(t)
    BY <2>1, <2>2 DEF Ahead
  <2>5. vWorkQueue[k] \notin mapOrphanTransactions
    BY <2>2, <2>3 DEF RelayInv, OrphanInv
  <2> QED BY <2>2, <2>3, <2>4, <2>5 DEF WaitingSettled
<1> QED BY <1>1, <1>2, RelayInvInit, RelayInvStep, SettledStep, PTL DEF Spec

-----------------------------------------------------------------------------
(* The number of orphans is a number, and never more than the limit allows. *)
OrphansCounted == IsFiniteSet(mapOrphanTransactions) /\ OrphansBounded

(* How one transaction more or less changes the number of orphans.          *)
LEMMA OneMoreOrLess ==
    ASSUME NEW S, NEW t, IsFiniteSet(S)
    PROVE  /\ Cardinality(S) \in Nat
           /\ IsFiniteSet(S \cup {t}) /\ Cardinality(S \cup {t}) \in Nat
           /\ Cardinality(S \cup {t}) <= Cardinality(S) + 1
           /\ IsFiniteSet(S \ {t}) /\ Cardinality(S \ {t}) \in Nat
           /\ Cardinality(S \ {t}) <= Cardinality(S)
           /\ t \in S => Cardinality(S \ {t}) = Cardinality(S) - 1
<1>1. IsFiniteSet(S \cup {t}) /\ Cardinality(S \cup {t}) =
            IF t \in S THEN Cardinality(S) ELSE Cardinality(S) + 1
  BY FS_AddElement
<1>2. IsFiniteSet(S \ {t}) /\ Cardinality(S \ {t}) =
            IF t \in S THEN Cardinality(S) - 1 ELSE Cardinality(S)
  BY FS_RemoveElement
<1>3. Cardinality(S) \in Nat /\ Cardinality(S \cup {t}) \in Nat /\ Cardinality(S \ {t}) \in Nat
  BY <1>1, <1>2, FS_CardinalityType
<1> QED BY <1>1, <1>2, <1>3

(* Each step keeps the orphans within the limit.                            *)
LEMMA OrphansCountedStep == OrphansCounted /\ [Next]_vars => OrphansCounted'
<1> SUFFICES ASSUME OrphansCounted, [Next]_vars PROVE OrphansCounted'
  OBVIOUS
<1> DEFINE O == mapOrphanTransactions
<1>a. /\ IsFiniteSet(O) /\ Cardinality(O) \in Nat /\ MaxOrphans \in Nat
      /\ Cardinality(O) <= MaxOrphans + (IF pc = "limit" THEN 1 ELSE 0)
  BY FS_CardinalityType, TxRelayAssumption DEF OrphansCounted, OrphansBounded
<1>c. ASSUME O' = O, pc # "limit" PROVE OrphansCounted'
  BY <1>a, <1>c DEF OrphansCounted, OrphansBounded
<1>d. ASSUME NEW t, EraseOrphanTx(t) PROVE O' = O \ {t}
  BY <1>d DEF EraseOrphanTx, orphans
<1>1. ASSUME NEW t \in Tx, \/ AskFor(t) \/ ReceiveAccepted(t) \/ ProcessOrphan(t)
                            \/ SendRawTransaction(t) \/ BlockConnected(t)
                            \/ BlockDisconnected(t)
      PROVE  OrphansCounted'
  BY <1>1, <1>c DEF AskFor, ReceiveAccepted, SendRawTransaction, BlockConnected,
    BlockDisconnected, ProcessOrphan, orphans
<1>2. ASSUME NEW t \in Tx, ReceiveOrphan(t) PROVE OrphansCounted'
  <2>1. (O' = O \/ O' = O \cup {t}) /\ pc' = "limit" /\ pc = "idle"
    BY <1>2 DEF ReceiveOrphan, AddOrphanTx, orphans
  <2>2. IsFiniteSet(O') /\ Cardinality(O') <= Cardinality(O) + 1 /\ Cardinality(O') \in Nat
    <3>1. CASE O' = O
      BY <1>a, <3>1
    <3>2. CASE O' = O \cup {t}
      BY <1>a, <3>2, OneMoreOrLess
    <3> QED BY <2>1, <3>1, <3>2
  <2> QED BY <1>a, <2>1, <2>2 DEF OrphansCounted, OrphansBounded
<1>3. CASE LimitOrphanTxSize
  <2>1. CASE Cardinality(O) > MaxOrphans
    <3>1. PICK t \in O : EraseOrphanTx(t)
      BY <1>3, <2>1 DEF LimitOrphanTxSize
    <3>2. O' = O \ {t} /\ pc = "limit" /\ pc' = "limit"
      BY <1>3, <2>1, <3>1, <1>d DEF LimitOrphanTxSize
    <3>3. IsFiniteSet(O') /\ Cardinality(O') = Cardinality(O) - 1
      BY <1>a, <3>2, OneMoreOrLess
    <3> QED BY <1>a, <3>2, <3>3 DEF OrphansCounted, OrphansBounded
  <2>2. CASE ~(Cardinality(O) > MaxOrphans)
    BY <1>3, <1>a, <2>2 DEF LimitOrphanTxSize, orphans, OrphansCounted, OrphansBounded
  <2> QED BY <2>1, <2>2
<1>4. CASE NextInQueue
  BY <1>4, <1>c DEF NextInQueue
<1>5. CASE EraseNext
  <2>1. pc = "erase" /\ pc' \in {"erase", "idle"} /\ (O' = O \/ \E t : O' = O \ {t})
    BY <1>5, <1>d DEF EraseNext, orphans
  <2>2. IsFiniteSet(O') /\ Cardinality(O') <= Cardinality(O) /\ Cardinality(O') \in Nat
    BY <1>a, <2>1, OneMoreOrLess
  <2> QED BY <1>a, <2>1, <2>2 DEF OrphansCounted, OrphansBounded
<1>6. CASE UNCHANGED vars
  BY <1>6 DEF vars, orphans, OrphansCounted, OrphansBounded
<1> QED
  BY <1>1, <1>2, <1>3, <1>4, <1>5, <1>6 DEF Next, Handler

(* mapOrphanTransactions stays within MAX_ORPHAN_TRANSACTIONS: one more is  *)
(* in it only until LimitOrphanTxSize has run.                              *)
THEOREM OrphanLimitHolds == Spec => []OrphansBounded
<1>1. Init => OrphansCounted
  BY FS_EmptySet, TxRelayAssumption DEF Init, OrphansCounted, OrphansBounded
<1>2. OrphansCounted => OrphansBounded
  BY DEF OrphansCounted
<1> QED BY <1>1, <1>2, OrphansCountedStep, PTL DEF Spec

=============================================================================
