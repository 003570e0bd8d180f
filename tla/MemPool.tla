------------------------------- MODULE MemPool -------------------------------
(***************************************************************************)
(* CTxMemPool (main.h, main.cpp): the transactions waiting for a block and  *)
(* the index of the outputs they spend, as operators on a pool              *)
(*     [mapTx     |-> the transactions,                                     *)
(*      mapNextTx |-> function from spent output to the spending one]       *)
(* and the tests that admit a transaction against the transaction index     *)
(*     [pos   |-> for each transaction the block holding it, or NotIndexed, *)
(*      spent |-> the outputs whose vSpent entry is set].                   *)
(***************************************************************************)
EXTENDS Transactions, Functions

CONSTANT NotIndexed

EmptyPool == [mapTx |-> {}, mapNextTx |-> [o \in {} |-> NotIndexed]]

(* CTxMemPool::addUnchecked                                                 *)
AddUnchecked(p, t) ==
    [mapTx     |-> p.mapTx \cup {t},
     mapNextTx |-> [o \in DOMAIN p.mapNextTx \cup Vin[t] |->
                        IF o \in Vin[t] THEN t ELSE p.mapNextTx[o]]]

(* The pool transactions that spend an output of t.                         *)
Spenders(p, t) == {p.mapNextTx[o] : o \in Outs(t) \cap DOMAIN p.mapNextTx}

(* What the recursion of CTxMemPool::remove reaches from t: the smallest    *)
(* set of pool transactions that holds t and, with a transaction, those     *)
(* that spend its outputs.                                                  *)
Descendants(p, t) ==
    {x \in p.mapTx : \A D \in SUBSET p.mapTx :
        (t \in D /\ \A d \in D : Spenders(p, d) \subseteq D) => x \in D}

(* Mutant: the inputs of a dropped transaction stay in mapNextTx.           *)
Drop_KeepInputs(p, D) == [p EXCEPT !.mapTx = @ \ D]

(* Drop the transactions of D, with their inputs.                           *)
Drop(p, D) ==
    LET gone == D \cap p.mapTx
        kept == DOMAIN p.mapNextTx \ UNION {Vin[d] : d \in gone}
    IN  [mapTx |-> p.mapTx \ gone, mapNextTx |-> Restrict(p.mapNextTx, kept)]

(* CTxMemPool::remove(tx, fRecursive)                                       *)
Remove(p, t, fRecursive) ==
    IF t \notin p.mapTx THEN p
    ELSE Drop(p, IF fRecursive THEN Descendants(p, t) ELSE {t})

(* CTxMemPool::removeConflicts(tx): for each input, the other pool          *)
(* transaction that spends it goes, and what depends on it.                 *)
RemoveConflicts(p, t) ==
    LET rivals == {p.mapNextTx[o] : o \in Vin[t] \cap DOMAIN p.mapNextTx} \ {t}
    IN  Drop(p, UNION {Descendants(p, r) : r \in rivals})

-----------------------------------------------------------------------------
(* CTransaction::FetchInputs with fBlock = fMiner = FALSE: some previous    *)
(* transaction is neither indexed nor pooled.                               *)
MissingInputs(p, txdb, t) ==
    \E o \in Vin[t] : txdb.pos[o[1]] = NotIndexed /\ o[1] \notin p.mapTx

(* FetchInputs: every prevout.n is in range.                                *)
InRange(t) == \A o \in Vin[t] : o[2] < NOut[o[1]]

(* The tests of AcceptToMemoryPool that come before FetchInputs.            *)
PreAccept(p, txdb, t) ==
    /\ t \notin Unfit
    /\ ~Minted(t)
    /\ t \notin p.mapTx
    /\ Vin[t] \cap DOMAIN p.mapNextTx = {}
    /\ txdb.pos[t] = NotIndexed

(* AcceptToMemoryPool returns true.  Recent is the set of blocks within     *)
(* nCoinbaseMaturity of pindexBest, the only chain data ConnectInputs       *)
(* consults here.  The rate limiter of free transactions is never reached:  *)
(* a transaction that pays GetMinFee pays at least MIN_RELAY_TX_FEE.        *)
Acceptable(p, txdb, t, Recent) ==
    /\ PreAccept(p, txdb, t)
    /\ ~MissingInputs(p, txdb, t)
    /\ InRange(t)
    /\ \A o \in Vin[t] :
        txdb.pos[o[1]] # NotIndexed =>
            /\ o \notin txdb.spent \/ o \in ZeroValue
            /\ Minted(o[1]) => txdb.pos[o[1]] \notin Recent

(* AcceptToMemoryPool leaves fMissingInputs set.                            *)
Orphaned(p, txdb, t) == PreAccept(p, txdb, t) /\ MissingInputs(p, txdb, t)

-----------------------------------------------------------------------------
(* The two maps of the pool agree: mapNextTx is exactly the inputs of the   *)
(* pooled transactions, each leading to the transaction that spends it, so  *)
(* no two pooled transactions spend the same output.                        *)
PoolAgrees(p) ==
    /\ DOMAIN p.mapNextTx = UNION {Vin[t] : t \in p.mapTx}
    /\ \A t \in p.mapTx : \A o \in Vin[t] : p.mapNextTx[o] = t

=============================================================================
