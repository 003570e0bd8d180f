-------------------------------- MODULE Dions --------------------------------
(***************************************************************************)
(* The DIONS naming layer (dions.cpp, db.cpp): aliases are registered in    *)
(* two steps, an OP_ALIAS_ENCRYPTED transaction that commits to the name    *)
(* and an OP_ALIAS_SET that reveals it, and are updated or transferred with *)
(* OP_ALIAS_RELAY.  A name lapses scaleMonitor() blocks after its last      *)
(* transaction.  aliascache.dat (LocatorNodeDB) keeps the position of the   *)
(* last transaction of every name; it is written by filter(), after a block *)
(* has been attached to the best chain by SetBestChainInner and by the scan *)
(* of -xscan, and by nothing else: Reorganize neither undoes nor adds       *)
(* entries.                                                                 *)
(*                                                                          *)
(* A block of another node is any block that ConnectBlock accepts: it does  *)
(* not ask the index, and the index of its miner need not be right.         *)
(***************************************************************************)
EXTENDS Integers, FiniteSets, Sequences, SequencesExt

CONSTANTS
    Tx,            \* the alias transactions
    Op,            \* Tx -> "encrypted", "set" or "relay"
    Alias,         \* Tx -> the name it is about (hidden while encrypted)
    Prev,          \* Tx -> the alias transaction it spends, or NoTx
    NoTx, NoEntry,
    scaleMonitor,  \* blocks until a name lapses
    MIN_SET_DEPTH, \* blocks between registration and OP_ALIAS_SET
    XscanHeight,   \* first block -xscan looks at
    Registered,    \* content of the first block
    MaxHeight, MaxBlockTx, MaxForks, MaxRestarts  \* bounds of the exploration

ASSUME DionsAssumption ==
    /\ Op \in [Tx -> {"encrypted", "set", "relay"}]
    /\ DOMAIN Alias = Tx /\ Prev \in [Tx -> Tx \cup {NoTx}] /\ NoTx \notin Tx
    /\ scaleMonitor \in Nat \ {0} /\ MIN_SET_DEPTH \in Nat \ {0}
    /\ XscanHeight \in 1 .. 2
    /\ Registered \in Seq(Tx) /\ \A t \in ToSet(Registered) : Op[t] = "encrypted"
    /\ NoEntry \notin [tx : Tx, nHeight : Nat, id : Nat]
    /\ {MaxHeight, MaxBlockTx, MaxForks, MaxRestarts} \subseteq Nat

VARIABLES
    chain,     \* the best chain: its blocks above the genesis block
    locator,   \* LocatorNodeDB: name -> position of its last transaction
    mempool,
    mapState,  \* name -> pending transactions on it
    pc,        \* "filter" between the commit of a block and filter()
    forks, restarts,
    missed     \* history: names filter() has not been told everything about

vars == <<chain, locator, mempool, mapState, pc, forks, restarts, missed>>

Names == {Alias[t] : t \in Tx}
Txs(c) == UNION {ToSet(c[h].txs) : h \in DOMAIN c}
HeightOf(c, t) == CHOOSE h \in DOMAIN c : t \in ToSet(c[h].txs)

(* CDiskTxPos of a transaction: two blocks with the same transaction differ *)
Pos(c, t) == [tx |-> t, nHeight |-> HeightOf(c, t), id |-> c[HeightOf(c, t)].id]

(* The prevouts that the transactions in S spend.                           *)
Spent(S) == {Prev[t] : t \in S} \ {NoTx}
Named(S) == {Alias[t] : t \in {u \in S : Op[u] # "encrypted"}}

-----------------------------------------------------------------------------
(* CheckTransactionAtRelativeDepth, seen from the top of the chain c        *)
CheckTransactionAtRelativeDepth(c, t, maxDepth) ==
    IF t \in Txs(c) /\ Len(c) - HeightOf(c, t) < maxDepth
      THEN Len(c) - HeightOf(c, t) ELSE -1

aliasTxPos(ix, c, t) ==
    t \in Txs(c) /\ ix = Pos(c, t)

(* Mutant: the index is not asked.                                          *)
ConnectInputsPost_NoIndex(c, t, ix, fBlock, fMiner) ==
    LET Depth(max) == CheckTransactionAtRelativeDepth(c, Prev[t], max) IN
    /\ Op[t] = "set" =>
         /\ Prev[t] # NoTx /\ Op[Prev[t]] = "encrypted" /\ Alias[Prev[t]] = Alias[t]
         /\ fBlock \/ fMiner => Depth(MIN_SET_DEPTH) = -1
         /\ fMiner => Depth(scaleMonitor) # -1
    /\ Op[t] = "relay" =>
         /\ Prev[t] # NoTx /\ Op[Prev[t]] \in {"set", "relay"} /\ Alias[Prev[t]] = Alias[t]
         /\ fBlock \/ fMiner => Depth(scaleMonitor) # -1

(* ConnectInputsPost.  c ends with the block being connected (fBlock) or    *)
(* with the block a new one is built on; signatures are taken to be right.  *)
ConnectInputsPost(c, t, ix, fBlock, fMiner) ==
    LET Depth(max) == CheckTransactionAtRelativeDepth(c, Prev[t], max) IN
    /\ Op[t] = "set" =>
         /\ Prev[t] # NoTx /\ Op[Prev[t]] = "encrypted" /\ Alias[Prev[t]] = Alias[t]
         /\ fBlock \/ fMiner => Depth(MIN_SET_DEPTH) = -1
         /\ fMiner => Depth(scaleMonitor) # -1
    /\ Op[t] = "relay" =>
         /\ Prev[t] # NoTx /\ Op[Prev[t]] \in {"set", "relay"} /\ Alias[Prev[t]] = Alias[t]
         /\ fBlock \/ fMiner => Depth(scaleMonitor) # -1
         /\ fBlock \/ aliasTxPos(ix[Alias[t]], c, Prev[t])

(* FetchInputs and ConnectInputs as far as the chain and the transactions   *)
(* `before' this one decide.                                                *)
InputsFit(c, before, more, t) ==
    /\ t \notin Txs(c) \cup before
    /\ Prev[t] # NoTx =>
         /\ Prev[t] \in Txs(c) \cup before \cup more
         /\ Prev[t] \notin Spent(Txs(c) \cup before)

Before(s, i) == {s[j] : j \in 1 .. i - 1}

(* CreateNewBlock takes the transactions s, in this order: setPending keeps *)
(* a second pending OP_ALIAS_SET of a name out.                             *)
Mineable(c, ix, pending, s) ==
    \A i \in DOMAIN s :
        /\ InputsFit(c, Before(s, i), {}, s[i])
        /\ ConnectInputsPost(c, s[i], ix, FALSE, TRUE)
        /\ Op[s[i]] = "set" => pending[Alias[s[i]]] \cap Before(s, i) = {}

(* ConnectBlock accepts the first n transactions of the block s.            *)
ConnectsUpTo(c, s, n) ==
    \A i \in 1 .. n :
        /\ InputsFit(c, Before(s, i), {}, s[i])
        /\ ConnectInputsPost(Append(c, [id |-> 0, txs |-> SubSeq(s, 1, i - 1)]),
                             s[i], [a \in Names |-> NoEntry], TRUE, FALSE)
Connects(c, s) == ConnectsUpTo(c, s, Len(s))

(* The places in the block txs of the operations op on the name a.          *)
On(op, txs, a) == {i \in DOMAIN txs : Op[txs[i]] = op /\ Alias[txs[i]] = a}

(* Reference: who holds the name a after block h of the chain c, when the   *)
(* position e held it before, by the rules of the layer.  The last          *)
(* OP_ALIAS_RELAY carries the name on, whatever operation on it it spends;  *)
(* the first OP_ALIAS_SET of a free or lapsed name takes it.                *)
Holder(e, c, h, a) ==
    LET txs == c[h].txs
        relays == On("relay", txs, a)
        sets == On("set", txs, a)
    IN CASE relays # {} -> Pos(c, txs[Max(relays)])
         [] /\ relays = {} /\ sets # {}
            /\ e # NoEntry => h - e.nHeight >= scaleMonitor -> Pos(c, txs[Min(sets)])
         [] OTHER -> e

(* Who holds each name on the chain c.                                      *)
Title(c) ==
    [a \in Names |->
        LET T[h \in 0 .. Len(c)] ==
              IF h = 0 THEN NoEntry ELSE Holder(T[h - 1], c, h, a)
        IN T[Len(c)]]

(* The blocks that ConnectBlock accepts on c.                               *)
PeerBlocks(c) == {s \in BoundedSeq(Tx \ Txs(c), MaxBlockTx) : Connects(c, s)}

Init ==
    /\ chain = <<[id |-> 0, txs |-> Registered]>>
    /\ locator = [a \in Names |-> NoEntry]
    /\ mempool = {} /\ mapState = [a \in Names |-> {}]
    /\ pc = "idle" /\ forks = 0 /\ restarts = 0 /\ missed = {}

-----------------------------------------------------------------------------
(* AcceptToMemoryPoolPost: the transaction is pending on its name.  For an  *)
(* OP_ALIAS_SET of a name in use the function returns false before that,    *)
(* which its caller ignores.  (The heights are compared as unsigned         *)
(* numbers: an entry above the best block counts as lapsed.)                *)
AcceptToMemoryPoolPost(state, nBestHeight, t) ==
    LET e == locator[Alias[t]]
        active == e # NoEntry /\ nBestHeight - e.nHeight \in 0 .. scaleMonitor - 1
    IN IF Op[t] = "encrypted" \/ (Op[t] = "set" /\ active)
         THEN state
         ELSE [state EXCEPT ![Alias[t]] = @ \cup {t}]

(* Mutant: what leaves the pool stays pending.                              *)
RemoveFromMemoryPoolPost_Never(state, S) == state

(* RemoveFromMemoryPoolPost for the transactions in S                       *)
RemoveFromMemoryPoolPost(state, S) == [a \in Names |-> state[a] \ S]

(* AcceptToMemoryPool, for the pool and the pending operations in p         *)
Acceptable(p, c, t) ==
    /\ t \notin p.pool
    /\ InputsFit(c, {}, p.pool, t)
    /\ Prev[t] \notin Spent(p.pool)
    /\ ConnectInputsPost(c, t, locator, FALSE, FALSE)

AcceptToMemoryPool(p, c, nBestHeight, t) ==
    IF Acceptable(p, c, t)
      THEN [pool |-> p.pool \cup {t},
            state |-> AcceptToMemoryPoolPost(p.state, nBestHeight, t)]
      ELSE p

(* The transactions s are offered to the pool, in this order ...            *)
AcceptAll(p, c, nBestHeight, s) ==
    LET Q[n \in 0 .. Len(s)] ==
          IF n = 0 THEN p ELSE AcceptToMemoryPool(Q[n - 1], c, nBestHeight, s[n])
    IN Q[Len(s)]

(* ... and so are those of the blocks of b, the oldest first.               *)
Resurrect(p, c, nBestHeight, b) ==
    LET Q[n \in 0 .. Len(b)] ==
          IF n = 0 THEN p ELSE AcceptAll(Q[n - 1], c, nBestHeight, b[n].txs)
    IN Q[Len(b)]

(* What removeConflicts takes out with a confirmed transaction: those that  *)
(* spend the same output and what depends on them.                          *)
Dependants(S, pool) ==
    LET D[n \in 0 .. Cardinality(pool)] ==
          IF n = 0 THEN S ELSE D[n - 1] \cup {t \in pool : Prev[t] \in D[n - 1]}
    IN D[Cardinality(pool)]

Redundant(p, S) ==
    (p.pool \cap S) \cup
    Dependants({t \in p.pool \ S : Prev[t] \in Spent(S)}, p.pool)

-----------------------------------------------------------------------------
(* Mutant: a name is free again one block too late.                         *)
Filter_Late(ix, c, t) ==
    LET a == Alias[t]
        e == ix[a]
        lapsed == Len(c) < e.nHeight \/ Len(c) - e.nHeight > scaleMonitor
    IN CASE Op[t] = "set" /\ (e = NoEntry \/ lapsed) -> [ix EXCEPT ![a] = Pos(c, t)]
         [] Op[t] = "relay" /\ e # NoEntry -> [ix EXCEPT ![a] = Pos(c, t)]
         [] OTHER -> ix

(* LocatorNodeDB::filter for one transaction of the top block of c.  The    *)
(* difference of the heights is compared as an unsigned number, so an entry *)
(* above the block counts as lapsed.                                        *)
Filter(ix, c, t) ==
    LET a == Alias[t]
        e == ix[a]
        lapsed == Len(c) < e.nHeight \/ Len(c) - e.nHeight >= scaleMonitor
    IN CASE Op[t] = "set" /\ (e = NoEntry \/ lapsed) -> [ix EXCEPT ![a] = Pos(c, t)]
         [] Op[t] = "relay" /\ e # NoEntry -> [ix EXCEPT ![a] = Pos(c, t)]
         [] OTHER -> ix

FilterTop(ix, c) ==
    LET F[n \in 0 .. Len(Last(c).txs)] ==
          IF n = 0 THEN ix ELSE Filter(F[n - 1], c, Last(c).txs[n])
    IN F[Len(Last(c).txs)]

(* xsc: filter() is called again for the blocks of c, on what ix says       *)
xsc(ix, c) ==
    LET X[h \in 0 .. Len(c)] ==
          IF h < XscanHeight THEN ix ELSE FilterTop(X[h - 1], SubSeq(c, 1, h))
    IN X[Len(c)]

-----------------------------------------------------------------------------
(* A wallet command or a "tx" message brings t (AcceptToMemoryPool).        *)
ReceiveTx(t) ==
    LET p == [pool |-> mempool, state |-> mapState] IN
    /\ pc = "idle"
    /\ Acceptable(p, chain, t)
    /\ mempool' = AcceptToMemoryPool(p, chain, Len(chain), t).pool
    /\ mapState' = AcceptToMemoryPool(p, chain, Len(chain), t).state
    /\ UNCHANGED <<chain, locator, pc, forks, restarts, missed>>

(* SetBestChainInner up to filter(): the block s is committed.              *)
SetBestChainInner(s) ==
    /\ chain' = Append(chain, [id |-> forks, txs |-> s])
    /\ mempool' = mempool \ ToSet(s)
    /\ mapState' = RemoveFromMemoryPoolPost(mapState, ToSet(s))
    /\ pc' = "filter"
    /\ UNCHANGED <<locator, forks, restarts, missed>>

ReceiveBlock ==
    /\ pc = "idle" /\ Len(chain) < MaxHeight
    /\ \E s \in PeerBlocks(chain) : SetBestChainInner(s)

(* CreateNewBlock's block of pooled transactions goes through ConnectBlock. *)
Templates == {s \in BoundedSeq(mempool, MaxBlockTx) :
                s # <<>> /\ Mineable(chain, locator, mapState, s)}

StakeBlock ==
    /\ pc = "idle" /\ Len(chain) < MaxHeight
    /\ \E s \in Templates : Connects(chain, s) /\ SetBestChainInner(s)

(* ConnectBlock refuses the node's own block; the operations before the one *)
(* refused are no longer pending, although they are still in the pool.      *)
StakeRefused ==
    /\ pc = "idle"
    /\ \E s \in Templates :
         /\ ~Connects(chain, s)
         /\ mapState' = RemoveFromMemoryPoolPost(mapState,
                          {s[i] : i \in {j \in DOMAIN s : ConnectsUpTo(chain, s, j)}})
    /\ UNCHANGED <<chain, locator, mempool, pc, forks, restarts, missed>>

FilterBlock ==
    /\ pc = "filter"
    /\ locator' = FilterTop(locator, chain)
    /\ pc' = "idle"
    /\ missed' = missed \ {a \in Names : /\ locator[a] # NoEntry
                                         /\ \E t \in ToSet(Last(chain).txs) :
                                              Op[t] = "relay" /\ Alias[t] = a}
    /\ UNCHANGED <<chain, mempool, mapState, forks, restarts>>

(* The branches of one or two blocks that other nodes may build on c        *)
Grow(C) == UNION {{Append(c, [id |-> forks + 1, txs |-> s]) : s \in PeerBlocks(c)} : c \in C}
Branches(c) == Grow({c}) \cup Grow(Grow({c}))

(* Reorganize: the chain above height h gives way to another branch.  The   *)
(* disconnected transactions are offered to the pool while nBestHeight is   *)
(* still the old one; filter() is not called.                               *)
Reorganize(h, new) ==
    LET old == SubSeq(chain, h + 1, Len(chain))
        con == Txs(SubSeq(new, h + 1, Len(new)))
        p == Resurrect([pool |-> mempool, state |-> mapState], new, Len(chain), old)
        gone == Redundant(p, con)
    IN /\ Len(new) <= MaxHeight
       /\ chain' = new
       /\ mempool' = p.pool \ gone
       /\ mapState' = RemoveFromMemoryPoolPost(p.state, gone \cup con)
       /\ forks' = forks + 1
       /\ missed' = missed \cup Named(Txs(old) \cup con)
       /\ UNCHANGED <<locator, pc, restarts>>

ReorganizeAny ==
    /\ pc = "idle" /\ forks < MaxForks
    /\ \E h \in 1 .. Len(chain) - 1 :
         \E new \in Branches(SubSeq(chain, 1, h)) : Reorganize(h, new)

Options == {"none", "xscan", "upgradewallet"}

(* The process stops, or dies before filter(), and starts again: -xscan     *)
(* scans the chain into a new aliascache.dat, -upgradewallet into the old   *)
(* one.                                                                     *)
Restart(opt) ==
    /\ restarts < MaxRestarts
    /\ mempool' = {} /\ mapState' = [a \in Names |-> {}]
    /\ locator' = CASE opt = "xscan" -> xsc([a \in Names |-> NoEntry], chain)
                    [] opt = "upgradewallet" -> xsc(locator, chain)
                    [] opt = "none" -> locator
    /\ missed' = CASE opt = "xscan" -> {}
                   [] opt = "none" /\ pc = "filter" -> missed \cup Named(ToSet(Last(chain).txs))
                   [] OTHER -> missed
    /\ pc' = "idle" /\ restarts' = restarts + 1
    /\ UNCHANGED <<chain, forks>>

Next ==
    \/ \E t \in Tx : ReceiveTx(t)
    \/ ReceiveBlock \/ StakeBlock \/ StakeRefused \/ FilterBlock
    \/ ReorganizeAny
    \/ \E opt \in Options : Restart(opt)

Spec == Init /\ [][Next]_vars

-----------------------------------------------------------------------------
(* aliascache.dat says who holds each name on the best chain, unless        *)
(* filter() has missed a block about the name: then a scan with -xscan, or  *)
(* the next OP_ALIAS_RELAY of a name that has an entry, puts it right; the  *)
(* scan of -upgradewallet, on top of the old entries, does no harm.         *)
IndexIsTitle ==
    pc = "idle" => \A a \in Names \ missed : locator[a] = Title(chain)[a]

(* The node's own block never takes a name in use from its holder: it       *)
(* leaves the name alone or has an OP_ALIAS_RELAY of the holder's own       *)
(* transaction.  ConnectBlock does not see to that, and would accept a      *)
(* relay of any OP_ALIAS_SET of the name that is on the chain, which        *)
(* filter() would follow; it rests on the miner asking the index and on     *)
(* filter() having ignored a second OP_ALIAS_SET of a name in use.          *)
MinedKeepsHolder ==
    pc = "idle" => \A s \in {x \in Templates : Connects(chain, x)} : \A a \in Names \ missed :
        LET e == Title(chain)[a]
            n == Title(Append(chain, [id |-> forks, txs |-> s]))[a]
        IN /\ e # NoEntry /\ Len(chain) + 1 - e.nHeight < scaleMonitor
           /\ n # e
           => Op[n.tx] = "relay" /\ Prev[n.tx] = e.tx

(* Commands refuse to work on a name with pending operations: an operation  *)
(* that has left the pool, by whatever way, is no longer pending.           *)
PendingPooled ==
    \A a \in Names : mapState[a] \subseteq {t \in mempool : Alias[t] = a}

(* The block CreateNewBlock makes of the pool is one ConnectBlock accepts:  *)
(* "expired alias, or there is a pending transaction on the alias" is       *)
(* tested for fMiner as it is for fBlock (dions.cpp, ConnectInputsPost).    *)
MinedBlockConnects == pc = "idle" => \A s \in Templates : Connects(chain, s)
=============================================================================
