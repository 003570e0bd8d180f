---------------------------- MODULE WalletCoins ----------------------------
(***************************************************************************)
(* The coins of the wallet (wallet.cpp, wallet.h) beside the chain: which   *)
(* transactions it holds, in which block it believes them, and which of     *)
(* its outputs it has flagged as spent.  The wallet is told of every block  *)
(* by ConnectBlock and DisconnectBlock, while the batch that holds the      *)
(* block may still be aborted or lost, so the module composes ChainState:   *)
(* a step of the chain and what it does to the wallet are one step.         *)
(***************************************************************************)
EXTENDS ChainState

CONSTANTS
    Mine,           \* the outputs that pay a key of the wallet (IsMine)
    Dion,           \* the transactions of version DION_TX_VERSION
    Shaded,         \* those with an output whose key the wallet derives (__xfa)
    Projects,       \* the OP_MAP_PROJECT ones collx may take for its own
    Signed,         \* the transactions the user may send from this wallet
    Relayed,        \* the transactions peers, or copies of this wallet, may send
    Repairing,      \* whether the user runs repairwallet
    MaturityMargin  \* what the wallet adds to nCoinbaseMaturity: 10 in the code

ASSUME WalletAssumption ==
    /\ Mine \subseteq UNION {Outs(t) : t \in Tx}
    /\ Dion \subseteq Tx /\ Shaded \subseteq Tx /\ Projects \subseteq Dion
    /\ Signed \subseteq {t \in Tx : ~Minted(t)} /\ Relayed \subseteq Tx
    /\ Repairing \in BOOLEAN /\ MaturityMargin \in Nat \ {0}

VARIABLES
    wallet,    \* mapWallet; .vtxPrev[t] are the copies of earlier transactions,
               \* each with its hashBlock, kept in a transaction sent from here
    reaccept,  \* ReacceptWalletTransactions is still to come after a start
    cut        \* history: "aborted" or "crashed" once a reorganisation that had
               \* begun was given up

history == <<reaccept, cut>>
coins == <<wallet, history>>

S == INSTANCE SequencesExt

Empty == [known     |-> {},
          spent     |-> {},
          hashBlock |-> [t \in Tx |-> NoBlock],
          vtxPrev   |-> [t \in Tx |-> {}]]

-----------------------------------------------------------------------------
(* Only an output of value counts, with the default -mininput of 0, unless  *)
(* the transaction is a DION one.                                           *)
IsMine(t) ==
    \/ t \in Shaded
    \/ \E o \in Outs(t) \cap Mine : o \notin ZeroValue \/ t \in Dion

(* GetDebit(tx) > 0: an input is an output of value of a known transaction. *)
IsFromMe(w, t) ==
    \E o \in (Vin[t] \cap Mine) \ ZeroValue : o[1] \in w.known

(* Mutant: mapWallet is not asked whether it holds the previous transaction.*)
WalletUpdateSpent_AnyInput(w, t, fBlock) ==
    LET spent == w.spent \cup (Vin[t] \cap Mine)
    IN  [w EXCEPT !.spent = IF fBlock THEN spent \ Outs(t) ELSE spent]

(* WalletUpdateSpent: t's inputs are spent; and if t comes in a block, its  *)
(* own outputs start unspent.                                               *)
WalletUpdateSpent(w, t, fBlock) ==
    LET spent == w.spent \cup {o \in Vin[t] \cap Mine : o[1] \in w.known}
    IN  [w EXCEPT !.spent = IF fBlock THEN spent \ Outs(t) ELSE spent]

(* Mutant: a transaction that is known keeps the block it was first seen in.*)
AddToWallet_KeepBlock(w, t, b) ==
    WalletUpdateSpent(
        [w EXCEPT !.known = @ \cup {t},
                  !.hashBlock[t] = IF t \notin w.known THEN b ELSE @],
        t, b # NoBlock)

(* AddToWallet: insert or merge; b is NoBlock for a loose transaction.      *)
AddToWallet(w, t, b) ==
    WalletUpdateSpent(
        [w EXCEPT !.known = @ \cup {t},
                  !.hashBlock[t] = IF b # NoBlock THEN b ELSE @],
        t, b # NoBlock)

(* C are the transactions for which collx, which compares their arguments   *)
(* with the addresses of those in the wallet, says yes.                     *)
AddToWalletIfInvolvingMe(w, t, b, fUpdate, C) ==
    IF t \in w.known /\ ~fUpdate THEN w
    ELSE IF t \in w.known \/ IsMine(t) \/ IsFromMe(w, t) \/ t \in C
      THEN AddToWallet(w, t, b)
    ELSE WalletUpdateSpent(w, t, FALSE)

(* The transactions of block b, in order.                                   *)
AddBlock(w, b, fUpdate, C) ==
    LET v[n \in 0 .. Len(Vtx[b])] ==
          IF n = 0 THEN w
                   ELSE AddToWalletIfInvolvingMe(v[n - 1], Vtx[b][n], b, fUpdate, C)
    IN  v[Len(Vtx[b])]

(* Mutant: the transactions of a block are handed over last one first.      *)
SyncConnect_Backwards(w, b, C) ==
    S!FoldLeft(LAMBDA v, t : AddToWalletIfInvolvingMe(v, t, b, TRUE, C), w, S!Reverse(Vtx[b]))

(* SyncWithWallets, from ConnectBlock ...                                   *)
SyncConnect(w, b, C) == AddBlock(w, b, TRUE, C)

(* Mutant: the inputs of a disconnected coinstake are not refunded.         *)
SyncDisconnect_NoRefund(w, b) == w

(* ... and from DisconnectBlock, with DisableTransaction: only the inputs   *)
(* of a coinstake are given back.                                           *)
SyncDisconnect(w, b) ==
    LET disabled == {t \in TxsOf(b) \cap CoinStake : IsFromMe(w, t)}
    IN  [w EXCEPT !.spent = @ \ {o \in (UNION {Vin[t] : t \in disabled}) \cap Mine :
                                    o[1] \in w.known}]

(* ScanForWalletTransactions from the genesis block to b.                   *)
Scan(w, b, fUpdate, C) ==
    LET v[n \in 0 .. Len(PathUp(b, Genesis))] ==
          IF n = 0 THEN w ELSE AddBlock(v[n - 1], PathUp(b, Genesis)[n], fUpdate, C)
    IN  v[Len(PathUp(b, Genesis))]

-----------------------------------------------------------------------------
(* GetDepthInMainChain of a transaction that claims to be in block b.       *)
Depth(t, b) ==
    IF IsInMainChain(b) THEN Height[pindexBest] - Height[b] + 1
    ELSE IF t \in mempool.mapTx THEN 0 ELSE -1

(* IsTrusted: in a block, or sent from here and all that it rests on, as    *)
(* the copies kept with it know it, is in a block or pooled and from here.  *)
IsTrusted(t) ==
    \/ Depth(t, wallet.hashBlock[t]) >= 1
    \/ /\ Depth(t, wallet.hashBlock[t]) = 0
       /\ IsFromMe(wallet, t)
       /\ wallet.vtxPrev[t] # {}
       /\ \A p \in wallet.vtxPrev[t] :
            Depth(p[1], p[2]) >= 1 \/ (Depth(p[1], p[2]) = 0 /\ IsFromMe(wallet, p[1]))

(* Mutant: a minted output is offered as soon as it is in a block.          *)
AvailableCoins_Immature ==
    {o \in Mine \ (wallet.spent \cup ZeroValue) : o[1] \in wallet.known /\ IsTrusted(o[1])}

AvailableCoins ==
    {o \in Mine \ (wallet.spent \cup ZeroValue) :
        /\ o[1] \in wallet.known
        /\ IsTrusted(o[1])
        /\ Minted(o[1]) =>
            Depth(o[1], wallet.hashBlock[o[1]]) >= CoinbaseMaturity + MaturityMargin}

(* AddSupportingTransactions: all that t rests on, back to the chain.       *)
RestsOn(t) ==
    {x \in Tx : \A D \in SUBSET Tx :
        ({o[1] : o \in Vin[t]} \subseteq D
            /\ \A d \in D : disk.pos[d] = NotIndexed => {o[1] : o \in Vin[d]} \subseteq D)
        => x \in D}
Copies(t) ==
    {<<p, IF disk.pos[p] # NotIndexed THEN disk.pos[p] ELSE wallet.hashBlock[p]>> :
        p \in RestsOn(t)}

-----------------------------------------------------------------------------
(* The user sends t: CreateTransaction selects its inputs, CommitTransaction*)
(* records it, flags them, and hands it to the memory pool.                 *)
CanSend(t) ==
    /\ pc = "idle"
    /\ t \in Signed \ wallet.known
    /\ Vin[t] \subseteq AvailableCoins

Accepted(p, t) ==
    IF Acceptable(p, disk, t, Recent(pindexBest)) THEN AddUnchecked(p, t) ELSE p

(* The same for the transactions of s, one after the other.                 *)
AcceptedAll(p, s) ==
    LET q[n \in 0 .. Len(s)] == IF n = 0 THEN p ELSE Accepted(q[n - 1], s[n])
    IN  q[Len(s)]

CommitTransaction(t) ==
    /\ CanSend(t)
    /\ wallet' = LET w == AddToWallet(wallet, t, NoBlock)
                 IN  [w EXCEPT !.spent = @ \cup Vin[t], !.vtxPrev[t] = Copies(t)]
    /\ mempool' = Accepted(mempool, t)
    /\ UNCHANGED <<memory, diskIndex, disk, batch, pc, branches, done,
                   vpindexSecondary, queues, crashes, history>>

(* A peer sends t: the "tx" handler.                                        *)
ReceiveTx(t) ==
    /\ AcceptToMemoryPool(t)
    /\ \E C \in SUBSET Projects :
        wallet' = AddToWalletIfInvolvingMe(wallet, t, NoBlock, TRUE, C)
    /\ UNCHANGED history

(* The same for a t that waited as an orphan: the handler passes the wallet *)
(* the transaction that released it, which it knows, instead of t.          *)
ReceiveOrphanTx(t) ==
    /\ AcceptToMemoryPool(t)
    /\ UNCHANGED coins

(* The command repairwallet: FixSpentCoins against the transaction index.   *)
FixSpentCoins ==
    /\ Repairing /\ pc = "idle"
    /\ LET indexed == {o \in Mine : o[1] \in wallet.known /\ disk.pos[o[1]] # NotIndexed}
       IN  wallet' = [wallet EXCEPT !.spent = (@ \ indexed) \cup (indexed \cap disk.spent)]
    /\ UNCHANGED <<vars, history>>

(* The steps of SetBestChain that connect a block, or disconnect one.       *)
ConnectStep ==
    /\ \E C \in SUBSET Projects :
        \/ Extend /\ wallet' = SyncConnect(wallet, pindexNew, C)
        \/ ReorganizeConnect /\ wallet' = SyncConnect(wallet, ToConnect, C)
        \/ ConnectSecondary /\ wallet' = SyncConnect(wallet, Head(vpindexSecondary), C)
    /\ UNCHANGED history

DisconnectStep ==
    /\ ReorganizeDisconnect
    /\ wallet' = SyncDisconnect(wallet, ToDisconnect)
    /\ UNCHANGED history

(* TxnAbort: the batch is gone, what the wallet has been told is not.       *)
Abort ==
    /\ ReorganizeFails
    /\ cut' = IF done > 0 THEN "aborted" ELSE cut
    /\ UNCHANGED <<wallet, reaccept>>

QuietStep ==
    /\ \/ SetBestChain \/ ExtendFails \/ ReorganizeCommit
       \/ Resurrect \/ DeleteRedundant \/ SecondaryFails \/ SetBestChainDone
       \/ \E b \in Block \ {Genesis} : AddToBlockIndex(b)
       \/ \E c \in Checkpoint : EnforceCheckpoint(c)
    /\ UNCHANGED coins

-----------------------------------------------------------------------------
(* The process dies and starts again.  AppInit2 scans the chain only with   *)
(* -rescan, whatever best block wallet.dat remembers.                       *)
Restart(fRescan) ==
    /\ CrashAndLoadBlockIndex
    /\ \E C \in SUBSET Projects :
        wallet' = IF fRescan THEN Scan(wallet, disk.best, TRUE, C) ELSE wallet
    /\ reaccept' = TRUE
    /\ cut' = IF fRescan THEN "no"
              ELSE IF cut # "no" \/ (pc = "reorganize" /\ done > 0) THEN "crashed" ELSE "no"

(* Orders in which the unconfirmed transactions of the wallet can be offered*)
(* to the pool: mapWallet's, but each after the copies it carries.          *)
Orders(loose) ==
    {s \in Bijection(1 .. Cardinality(loose), loose) :
        \A i, j \in DOMAIN s : (\E p \in wallet.vtxPrev[s[i]] : p[1] = s[j]) => j < i}

(* The minted transactions ReacceptWalletTransactions does not look at.     *)
PassedOver(t) == \/ IsCoinBase(t) /\ <<t, 0>> \in wallet.spent
                 \/ t \in CoinStake /\ <<t, 1>> \in wallet.spent

(* ReacceptWalletTransactions: flag what the index says is spent and scan   *)
(* for the spenders; offer the unconfirmed transactions to the pool.  The   *)
(* network threads are running by then.  If the scan finds a transaction,   *)
(* all is done again, the locks having been released.                       *)
Reaccept ==
    LET treated == {t \in wallet.known : ~PassedOver(t)}
        missed == {o \in (Mine \cap disk.spent) \ wallet.spent :
                        o[1] \in treated /\ disk.pos[o[1]] # NotIndexed}
        loose == {t \in treated : disk.pos[t] = NotIndexed /\ ~Minted(t)}
    IN  /\ reaccept /\ pc = "idle"
        /\ \E C \in SUBSET Projects :
            wallet' = IF missed = {} THEN wallet
                      ELSE Scan([wallet EXCEPT !.spent = @ \cup missed], disk.best, FALSE, C)
        /\ \E s \in Orders(loose) : mempool' = AcceptedAll(mempool, s)
        /\ reaccept' = (wallet'.known # wallet.known)
        /\ UNCHANGED <<memory, diskIndex, disk, batch, pc, branches, done,
                       vpindexSecondary, queues, crashes, cut>>

-----------------------------------------------------------------------------
WalletInit == Init /\ wallet = Empty /\ reaccept = FALSE /\ cut = "no"

WalletNext ==
    \/ \E t \in Signed : CommitTransaction(t)
    \/ \E t \in Relayed : ReceiveTx(t) \/ ReceiveOrphanTx(t)
    \/ FixSpentCoins
    \/ ConnectStep \/ DisconnectStep \/ Abort \/ QuietStep
    \/ \E fRescan \in BOOLEAN : Restart(fRescan)
    \/ Reaccept

WalletSpec == WalletInit /\ [][WalletNext /\ StartsConnected']_<<vars, coins>>

-----------------------------------------------------------------------------
(* The shape of the wallet: flags belong to outputs of known transactions.  *)
WalletTypeOK ==
    /\ wallet.known \subseteq Tx
    /\ wallet.spent \subseteq {o \in Mine : o[1] \in wallet.known}
    /\ wallet.hashBlock \in [Tx -> Block \cup {NoBlock}]
    /\ \A t \in Tx : wallet.hashBlock[t] # NoBlock => t \in wallet.known
    /\ cut \in {"no", "aborted", "crashed"}

(* The wallet has caught up with the chain: SetBestChain has returned, and  *)
(* after a start ReacceptWalletTransactions has run.                        *)
Settled == pc = "idle" /\ ~reaccept

(* Every output of the wallet that the best chain has spent is flagged, in  *)
(* whatever order blocks were connected and given up.  A reorganisation that*)
(* dies with the process is repaired by the next start, except in minted    *)
(* transactions, some of which it passes over; one that is aborted is not.  *)
ConfirmedSpendsMarked ==
    Settled /\ cut # "aborted" =>
        \A o \in (Mine \cap disk.spent) \ ZeroValue :
            o \in wallet.spent \/ (cut = "crashed" /\ Minted(o[1]))

(* Every transaction of the best chain that pays the wallet value, or for   *)
(* another reason passes IsMine, or takes value from it is in it, under the *)
(* block that holds it, although no start scans the chain: ConnectBlock     *)
(* tells the wallet before it commits.  (One that pays it only outputs      *)
(* without value is not asked for: the code does not record it.)            *)
ConfirmedRecorded ==
    Settled /\ cut = "no" =>
        \A t \in Tx :
            /\ disk.pos[t] # NotIndexed
            /\ IsMine(t) \/ ((Outs(t) \cup Vin[t]) \cap Mine) \ ZeroValue # {}
            => t \in wallet.known /\ wallet.hashBlock[t] = disk.pos[t]

(* A flag has its reason: a flagged output of value on the best chain is    *)
(* spent by it, or by a recorded transaction that no block of it holds,     *)
(* which is no coinstake: one of those, which nobody will mine again, has   *)
(* given its inputs back when its block was disconnected.  The recorded     *)
(* spender may be beaten: if the chain has spent another of its inputs, the *)
(* flag stays, and repairwallet alone takes it away.                        *)
FlagsExplained ==
    Settled /\ cut = "no" =>
        \A o \in wallet.spent \ ZeroValue : disk.pos[o[1]] # NotIndexed =>
            o \in disk.spent \/ \E t \in wallet.known \ CoinStake : o \in Vin[t]

(* What the wallet lets the user send is refused by the pool for one reason *)
(* only, a pooled transaction that spends the same coin (unless a test of   *)
(* the transaction alone refuses it): the depth, the flags and the maturity *)
(* the wallet goes by are never behind the chain.                           *)
RefusedByPoolOnly ==
    Settled /\ cut = "no" /\ pindexBest = disk.best =>
        \A t \in Signed \ Unfit : CanSend(t) =>
            \/ Acceptable(mempool, disk, t, Recent(pindexBest))
            \/ Vin[t] \cap DOMAIN mempool.mapNextTx # {}

(* CommitTransaction, of AcceptToMemoryPool: "This must not fail. The       *)
(* transaction has already been signed and recorded."                       *)
CommitMustNotFail ==
    \A t \in Signed : CanSend(t) => Acceptable(mempool, disk, t, Recent(pindexBest))

=============================================================================
