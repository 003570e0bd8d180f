------------------------- MODULE WalletCoinsProofs -------------------------
(***************************************************************************)
(* Theorems about the wallet beside the chain, for every block tree, every  *)
(* universe of transactions and every set of keys: what the wallet has been *)
(* told of the blocks, flag by flag, fits the chain.                        *)
(***************************************************************************)
EXTENDS WalletCoins, ChainStateProofs, FiniteSetTheorems

-----------------------------------------------------------------------------
(* The type of the wallet, which is finite although Tx need not be.         *)
Wallets == [known : {K \in SUBSET Tx : IsFiniteSet(K)},
            spent : SUBSET Mine,
            hashBlock : [Tx -> Block \cup {NoBlock}],
            vtxPrev : [Tx -> SUBSET (Tx \X (Block \cup {NoBlock}))]]

(* The inputs of t that are outputs of the wallet, of transactions in K.    *)
OwnInputs(t, K) == {o \in Vin[t] \cap Mine : o[1] \in K}

(* AddToWallet on each of its parts, for a transaction of block b ...       *)
LEMMA AddConfirmedIs ==
    ASSUME NEW w \in Wallets, NEW t \in Tx, NEW b \in Block
    PROVE  LET v == AddToWallet(w, t, b)
           IN  /\ v \in Wallets
               /\ v.known = w.known \cup {t}
               /\ v.hashBlock = [w.hashBlock EXCEPT ![t] = b]
               /\ v.spent = (w.spent \cup OwnInputs(t, w.known \cup {t})) \ Outs(t)
<1>1. b # NoBlock
  BY BlockTreeAssumption
<1>2. IsFiniteSet(w.known \cup {t})
  BY FS_AddElement DEF Wallets
<1> QED BY <1>1, <1>2 DEF AddToWallet, WalletUpdateSpent, Wallets, OwnInputs

(* ... and for a loose one.                                                 *)
LEMMA AddLooseIs ==
    ASSUME NEW w \in Wallets, NEW t \in Tx
    PROVE  LET v == AddToWallet(w, t, NoBlock)
           IN  /\ v \in Wallets
               /\ v.known = w.known \cup {t}
               /\ v.hashBlock = w.hashBlock /\ v.vtxPrev = w.vtxPrev
               /\ v.spent = w.spent \cup OwnInputs(t, w.known \cup {t})
<1>1. IsFiniteSet(w.known \cup {t})
  BY FS_AddElement DEF Wallets
<1> QED BY <1>1 DEF AddToWallet, WalletUpdateSpent, Wallets, OwnInputs

(* WalletUpdateSpent for a transaction that is not kept.                    *)
LEMMA UpdateSpentIs ==
    ASSUME NEW w \in Wallets, NEW t \in Tx
    PROVE  LET v == WalletUpdateSpent(w, t, FALSE)
           IN  /\ v \in Wallets
               /\ v.known = w.known /\ v.hashBlock = w.hashBlock /\ v.vtxPrev = w.vtxPrev
               /\ v.spent = w.spent \cup OwnInputs(t, w.known)
BY DEF WalletUpdateSpent, Wallets, OwnInputs

(* The wallet stays one.                                                    *)
LEMMA AddIfInvolvingType ==
    ASSUME NEW w \in Wallets, NEW t \in Tx, NEW b \in Block \cup {NoBlock}, NEW f \in BOOLEAN, NEW C
    PROVE  AddToWalletIfInvolvingMe(w, t, b, f, C) \in Wallets
BY AddConfirmedIs, AddLooseIs, UpdateSpentIs DEF AddToWalletIfInvolvingMe

(* AddBlock goes through the transactions of the block one by one.          *)
LEMMA AddBlockRuns ==
    ASSUME NEW w \in Wallets, NEW b \in Block, NEW f \in BOOLEAN, NEW C
    PROVE  \E g \in [0 .. Len(Vtx[b]) -> Wallets] :
            /\ g[0] = w
            /\ \A n \in 1 .. Len(Vtx[b]) :
                g[n] = AddToWalletIfInvolvingMe(g[n - 1], Vtx[b][n], b, f, C)
            /\ AddBlock(w, b, f, C) = g[Len(Vtx[b])]
<1> DEFINE L == Len(Vtx[b])
           A(v, n) == AddToWalletIfInvolvingMe(v, Vtx[b][n], b, f, C)
           Eq(g) == g = [n \in 0 .. L |-> IF n = 0 THEN w ELSE A(g[n - 1], n)]
           F == [x \in Wallets \X (1 .. L) |-> A(x[1], x[2])]
           h == CHOOSE g : Eq(g)
<1>1. L \in Nat /\ \A n \in 1 .. L : Vtx[b][n] \in Tx
  BY ChainAssumption
<1>2. \A v \in Wallets : \A n \in 1 .. L : A(v, n) \in Wallets
  BY <1>1, AddIfInvolvingType
<1>3. AddBlock(w, b, f, C) = h[L]
  BY DEF AddBlock
<1> HIDE DEF L, A
<1>4. \A v \in Wallets : \A n \in 1 .. L : F[<<v, n>>] = A(v, n) /\ F[<<v, n>>] \in Wallets
  BY <1>2
<1> HIDE DEF F, Eq, h
<1>5. PICK g : Goes(g, Wallets, F, L, w)
  <2>1. Loop(Wallets, F, L)
    BY <1>1, <1>4 DEF Loop
  <2> QED BY <2>1, LoopRuns
<1>6. ASSUME NEW n \in 0 .. L PROVE g[n] = IF n = 0 THEN w ELSE A(g[n - 1], n)
  <2>1. n # 0 => n \in 1 .. L /\ n - 1 \in 0 .. L
    BY <1>1
  <2> QED BY <1>4, <1>5, <2>1 DEF Goes
<1>7. Eq(g)
  BY <1>5, <1>6 DEF Eq, Goes
<1>8. Eq(h)
  BY <1>7 DEF h
<1>9. h[0] = w /\ \A n \in 1 .. L : h[n] = A(h[n - 1], n)
  BY <1>1, <1>8 DEF Eq
<1>10. h \in [0 .. L -> Wallets]
  <2> DEFINE T == {n \in 0 .. L : h[n] \in Wallets}
  <2>1. 0 \in T
    BY <1>1, <1>9
  <2>2. ASSUME NEW n \in 0 .. L - 1, n \in T PROVE n + 1 \in T
    <3>1. n + 1 \in 1 .. L /\ (n + 1) - 1 = n /\ n + 1 \in 0 .. L
      BY <1>1
    <3> QED BY <1>2, <1>9, <2>2, <3>1
  <2>3. 0 .. L \subseteq T
    <3> HIDE DEF T
    <3> QED BY <1>1, <2>1, <2>2, UpTo
  <2> QED BY <1>8, <2>3 DEF Eq
<1> QED BY <1>3, <1>9, <1>10 DEF L, A

(* Scan goes through the blocks of the chain one by one.                    *)
LEMMA ScanRuns ==
    ASSUME NEW w \in Wallets, NEW b \in Block, NEW f \in BOOLEAN, NEW C
    PROVE  LET path == PathUp(b, Genesis)
           IN  \E g \in [0 .. Len(path) -> Wallets] :
                /\ g[0] = w
                /\ \A n \in 1 .. Len(path) : g[n] = AddBlock(g[n - 1], path[n], f, C)
                /\ Scan(w, b, f, C) = g[Len(path)]
<1> DEFINE path == PathUp(b, Genesis)
           L == Len(path)
           A(v, n) == AddBlock(v, path[n], f, C)
           Eq(g) == g = [n \in 0 .. L |-> IF n = 0 THEN w ELSE A(g[n - 1], n)]
           F == [x \in Wallets \X (1 .. L) |-> A(x[1], x[2])]
           h == CHOOSE g : Eq(g)
<1>0. path \in Seq(Block) /\ Climbs(Genesis, path, b)
  BY Ancestry, PathsShape DEF WellRooted
<1>1. L \in Nat /\ \A n \in 1 .. L : path[n] \in Block
  BY <1>0
<1>2. \A v \in Wallets : \A n \in 1 .. L : A(v, n) \in Wallets
  <2>1. \A v \in Wallets : \A c \in Block : AddBlock(v, c, f, C) \in Wallets
    <3> TAKE v \in Wallets
    <3> TAKE c \in Block
    <3>1. Len(Vtx[c]) \in 0 .. Len(Vtx[c])
      BY ChainAssumption
    <3> QED BY <3>1, AddBlockRuns
  <2> QED BY <1>1, <2>1
<1>3. Scan(w, b, f, C) = h[L]
  BY DEF Scan
<1> HIDE DEF L, A
<1>4. \A v \in Wallets : \A n \in 1 .. L : F[<<v, n>>] = A(v, n) /\ F[<<v, n>>] \in Wallets
  BY <1>2
<1> HIDE DEF F, Eq, h
<1>5. PICK g : Goes(g, Wallets, F, L, w)
  <2>1. Loop(Wallets, F, L)
    BY <1>1, <1>4 DEF Loop
  <2> QED BY <2>1, LoopRuns
<1>6. ASSUME NEW n \in 0 .. L PROVE g[n] = IF n = 0 THEN w ELSE A(g[n - 1], n)
  <2>1. n # 0 => n \in 1 .. L /\ n - 1 \in 0 .. L
    BY <1>1
  <2> QED BY <1>4, <1>5, <2>1 DEF Goes
<1>7. Eq(g)
  BY <1>5, <1>6 DEF Eq, Goes
<1>8. Eq(h)
  BY <1>7 DEF h
<1>9. h[0] = w /\ \A n \in 1 .. L : h[n] = A(h[n - 1], n)
  BY <1>1, <1>8 DEF Eq
<1>10. h \in [0 .. L -> Wallets]
  <2> DEFINE T == {n \in 0 .. L : h[n] \in Wallets}
  <2>1. 0 \in T
    BY <1>1, <1>9
  <2>2. ASSUME NEW n \in 0 .. L - 1, n \in T PROVE n + 1 \in T
    <3>1. n + 1 \in 1 .. L /\ (n + 1) - 1 = n /\ n + 1 \in 0 .. L
      BY <1>1
    <3> QED BY <1>2, <1>9, <2>2, <3>1
  <2>3. 0 .. L \subseteq T
    <3> HIDE DEF T
    <3> QED BY <1>1, <2>1, <2>2, UpTo
  <2> QED BY <1>8, <2>3 DEF Eq
<1> QED BY <1>3, <1>9, <1>10 DEF L, A

(* Offering transactions to the pool keeps its maps in step.                *)
LEMMA AcceptedAllAgrees ==
    ASSUME NEW p, PoolAgrees(p), p.mapTx \subseteq Tx, NEW s \in Seq(Tx)
    PROVE  PoolAgrees(AcceptedAll(p, s)) /\ AcceptedAll(p, s).mapTx \subseteq Tx
<1> DEFINE L == Len(s)
           Maps == UNION {[D -> Tx] : D \in SUBSET OutPoint}
           W == {q \in {p} \cup [mapTx : SUBSET Tx, mapNextTx : Maps] :
                    PoolAgrees(q) /\ q.mapTx \subseteq Tx}
           A(q, n) == Accepted(q, s[n])
           Eq(g) == g = [n \in 0 .. L |-> IF n = 0 THEN p ELSE A(g[n - 1], n)]
           F == [x \in W \X (1 .. L) |-> A(x[1], x[2])]
           h == CHOOSE g : Eq(g)
<1>1. L \in Nat /\ p \in W /\ \A n \in 1 .. L : s[n] \in Tx
  OBVIOUS
<1>2. ASSUME NEW q \in W, NEW t \in Tx PROVE Accepted(q, t) \in W
  <2> DEFINE D == DOMAIN q.mapNextTx
             E == D \cup Vin[t]
             m == [o \in E |-> IF o \in Vin[t] THEN t ELSE q.mapNextTx[o]]
  <2>1. Vin[t] \subseteq OutPoint /\ \A u \in q.mapTx : Vin[u] \subseteq OutPoint
    BY TransactionsAssumption
  <2>2. D \subseteq OutPoint /\ \A o \in D : q.mapNextTx[o] \in Tx
    BY <2>1 DEF PoolAgrees
  <2>3. E \in SUBSET OutPoint /\ m \in [E -> Tx]
    BY <2>1, <2>2
  <2>4. m \in Maps
    <3> HIDE DEF m, E
    <3> QED BY <2>3
  <2>5. AddUnchecked(q, t) = [mapTx |-> q.mapTx \cup {t}, mapNextTx |-> m]
    BY DEF AddUnchecked
  <2>6. Vin[t] \cap D = {} => PoolAgrees(AddUnchecked(q, t))
    BY AddUncheckedAgrees
  <2>7. Vin[t] \cap D = {} => AddUnchecked(q, t) \in W
    <3> HIDE DEF m, Maps
    <3> QED BY <2>4, <2>5, <2>6
  <2> QED BY <2>7 DEF Accepted, Acceptable, PreAccept
<1>3. \A q \in W : \A n \in 1 .. L : A(q, n) \in W
  <2> HIDE DEF W
  <2> QED BY <1>1, <1>2
<1>4. AcceptedAll(p, s) = h[L]
  BY DEF AcceptedAll
<1>5. \A q \in W : PoolAgrees(q) /\ q.mapTx \subseteq Tx
  OBVIOUS
<1> HIDE DEF W, L, A
<1>6. \A q \in W : \A n \in 1 .. L : F[<<q, n>>] = A(q, n) /\ F[<<q, n>>] \in W
  BY <1>3
<1> HIDE DEF F, Eq, h
<1>7. PICK g : Goes(g, W, F, L, p)
  <2>1. Loop(W, F, L)
    BY <1>1, <1>6 DEF Loop
  <2> QED BY <1>1, <2>1, LoopRuns
<1>8. ASSUME NEW n \in 0 .. L PROVE g[n] = IF n = 0 THEN p ELSE A(g[n - 1], n)
  <2>1. n # 0 => n \in 1 .. L /\ n - 1 \in 0 .. L
    BY <1>1
  <2> QED BY <1>6, <1>7, <2>1 DEF Goes
<1>9. Eq(g)
  BY <1>7, <1>8 DEF Eq, Goes
<1>10. Eq(h)
  BY <1>9 DEF h
<1>11. h[0] = p /\ \A n \in 1 .. L : h[n] = A(h[n - 1], n)
  BY <1>1, <1>10 DEF Eq
<1>12. h[L] \in W
  <2> DEFINE T == {n \in 0 .. L : h[n] \in W}
  <2>1. 0 \in T
    BY <1>1, <1>11
  <2>2. ASSUME NEW n \in 0 .. L - 1, n \in T PROVE n + 1 \in T
    <3>1. n + 1 \in 1 .. L /\ (n + 1) - 1 = n /\ n + 1 \in 0 .. L
      BY <1>1
    <3> QED BY <1>3, <1>11, <2>2, <3>1
  <2>3. 0 .. L \subseteq T
    <3> HIDE DEF T
    <3> QED BY <1>1, <2>1, <2>2, UpTo
  <2> QED BY <1>1, <2>3
<1> QED BY <1>4, <1>5, <1>12

-----------------------------------------------------------------------------
(* Transaction t concerns the wallet: it pays it, or spends value of its.   *)
Involves(t) == IsMine(t) \/ (Vin[t] \cap Mine) \ ZeroValue # {}

(* Flags and blocks belong to known transactions, and a transaction is in   *)
(* the block the wallet believes it in.                                     *)
FlagsOk(w) ==
    /\ w \in Wallets
    /\ \A o \in w.spent : o[1] \in w.known
    /\ \A t \in Tx : w.hashBlock[t] # NoBlock =>
            t \in w.known /\ w.hashBlock[t] # Genesis /\ t \in TxsOf(w.hashBlock[t])

(* What wallet w has of the transactions in X, those of a chain whose       *)
(* blocks are A: it knows those that concern it, ...                        *)
Knows(w, X) == \A t \in X : Involves(t) => t \in w.known

(* ... in the right blocks, ...                                             *)
Places(w, X, A) == \A t \in X : Involves(t) => w.hashBlock[t] \in A

(* ... has flagged what they spend, outputs of transactions in M apart, ... *)
Marks(w, X, M) ==
    \A t \in X : \A o \in (Vin[t] \cap Mine) \ ZeroValue : o \in w.spent \/ o[1] \in M

(* ... and what it has flagged of their outputs is spent.                   *)
Accounts(w, X) ==
    \A o \in w.spent \ ZeroValue : o[1] \in X =>
        (\E t \in X : o \in Vin[t]) \/ \E t \in w.known \ CoinStake : o \in Vin[t]

(* v comes of w by telling it of the transactions in Y that are not in X.   *)
Follows(w, X, v, Y, A, M) ==
    /\ FlagsOk(v) /\ w.known \subseteq v.known
    /\ Knows(v, Y)
    /\ Places(w, X, A) => Places(v, Y, A)
    /\ Marks(w, X, M) => Marks(v, Y, M)
    /\ Accounts(w, X) => Accounts(v, Y)

(* v has, of what has value, what w has; it may know more transactions.     *)
Same(w, v) == /\ FlagsOk(v) /\ w.known \subseteq v.known
              /\ \A t \in w.known : v.hashBlock[t] = w.hashBlock[t]
              /\ v.spent \ ZeroValue = w.spent \ ZeroValue

-----------------------------------------------------------------------------
(* An output of the wallet is one of a transaction, which pays it if the    *)
(* output has value.                                                        *)
LEMMA MineIs ==
    \A o \in Mine : o[1] \in Tx /\ o \in Outs(o[1]) /\ (o \notin ZeroValue => IsMine(o[1]))
<1> TAKE o \in Mine
<1>1. PICK t \in Tx : o \in Outs(t)
  BY WalletAssumption
<1>2. o[1] = t
  BY <1>1 DEF Outs
<1> QED BY <1>1, <1>2 DEF IsMine

(* A new transaction of a block, whose inputs are on the chain, which the   *)
(* wallet knows as far as it is concerned.                                  *)
LEMMA AddOne ==
    ASSUME NEW w, FlagsOk(w), NEW X \in SUBSET Tx, NEW t \in Tx \ X,
           NEW b \in Block \ {Genesis}, t \in TxsOf(b),
           \A u \in X : \A o \in Vin[u] : o[1] \in X,
           \A o \in Vin[t] : o[1] \in X,
           Knows(w, X), NEW A, b \in A, NEW M, NEW C
    PROVE  Follows(w, X, AddToWalletIfInvolvingMe(w, t, b, TRUE, C), X \cup {t}, A, M)
<1> DEFINE v == AddToWalletIfInvolvingMe(w, t, b, TRUE, C)
<1>1. /\ w \in Wallets /\ b # NoBlock /\ w.hashBlock \in [Tx -> Block \cup {NoBlock}]
      /\ t \in Tx /\ b \in Block
  BY BlockTreeAssumption DEF FlagsOk, Wallets
<1> SUFFICES Follows(w, X, v, X \cup {t}, A, M)
  OBVIOUS
<1> HIDE DEF v
<1>2. \A o \in (Vin[t] \cap Mine) \ ZeroValue : o[1] \in w.known
  BY MineIs DEF Knows, Involves
<1>3. CASE t \in w.known \/ IsMine(t) \/ IsFromMe(w, t) \/ t \in C
  <2>1. /\ v \in Wallets
        /\ v.known = w.known \cup {t}
        /\ v.hashBlock = [w.hashBlock EXCEPT ![t] = b]
        /\ v.spent = (w.spent \cup OwnInputs(t, w.known \cup {t})) \ Outs(t)
    <3>1. v = AddToWallet(w, t, b)
      BY <1>3 DEF AddToWalletIfInvolvingMe, v
    <3>3. LET x == AddToWallet(w, t, b)
          IN  /\ x \in Wallets
              /\ x.known = w.known \cup {t}
              /\ x.hashBlock = [w.hashBlock EXCEPT ![t] = b]
              /\ x.spent = (w.spent \cup OwnInputs(t, w.known \cup {t})) \ Outs(t)
      BY <1>1, AddConfirmedIs
    <3> QED BY <3>1, <3>3
  <2>2. \A o \in Outs(t) : o[1] = t
    BY DEF Outs
  <2>3. FlagsOk(v)
    BY <1>1, <2>1 DEF FlagsOk, OwnInputs
  <2>4. Knows(v, X \cup {t})
    BY <2>1 DEF Knows
  <2>5. Places(w, X, A) => Places(v, X \cup {t}, A)
    BY <1>1, <2>1 DEF Places
  <2>6. Marks(w, X, M) => Marks(v, X \cup {t}, M)
    <3>1. \A u \in X \cup {t} : \A o \in Vin[u] : o \notin Outs(t)
      BY <2>2
    <3>2. (Vin[t] \cap Mine) \ ZeroValue \subseteq OwnInputs(t, w.known \cup {t})
      BY <1>2 DEF OwnInputs
    <3> QED BY <2>1, <3>1, <3>2 DEF Marks
  <2>7. Accounts(w, X) => Accounts(v, X \cup {t})
    <3> SUFFICES ASSUME Accounts(w, X), NEW o \in v.spent \ ZeroValue, o[1] \in X \cup {t}
                 PROVE  (\E u \in X \cup {t} : o \in Vin[u])
                        \/ \E u \in v.known \ CoinStake : o \in Vin[u]
      BY DEF Accounts
    <3>1. o \in Mine /\ o \notin Outs(t)
      BY <1>1, <2>1 DEF Wallets
    <3>2. o[1] \in X
      BY <3>1, MineIs
    <3> QED BY <2>1, <3>2 DEF Accounts, OwnInputs
  <2> QED BY <2>1, <2>3, <2>4, <2>5, <2>6, <2>7 DEF Follows
<1>4. CASE ~(t \in w.known \/ IsMine(t) \/ IsFromMe(w, t) \/ t \in C)
  <2>1. /\ v \in Wallets
        /\ v.known = w.known /\ v.hashBlock = w.hashBlock
        /\ v.spent = w.spent \cup OwnInputs(t, w.known)
    <3>1. v = WalletUpdateSpent(w, t, FALSE)
      BY <1>4 DEF AddToWalletIfInvolvingMe, v
    <3>3. LET x == WalletUpdateSpent(w, t, FALSE)
          IN  /\ x \in Wallets
              /\ x.known = w.known /\ x.hashBlock = w.hashBlock
              /\ x.spent = w.spent \cup OwnInputs(t, w.known)
      BY <1>1, UpdateSpentIs
    <3> QED BY <3>1, <3>3
  <2>2. ~Involves(t)
    BY <1>2, <1>4 DEF Involves, IsFromMe
  <2>3. FlagsOk(v)
    BY <2>1 DEF FlagsOk, OwnInputs
  <2>4. Knows(v, X \cup {t})
    BY <2>1, <2>2 DEF Knows
  <2>5. Places(w, X, A) => Places(v, X \cup {t}, A)
    BY <2>1, <2>2 DEF Places
  <2>6. Marks(w, X, M) => Marks(v, X \cup {t}, M)
    BY <2>1, <2>2 DEF Marks, Involves
  <2>7. Accounts(w, X) => Accounts(v, X \cup {t})
    <3> SUFFICES ASSUME Accounts(w, X), NEW o \in v.spent \ ZeroValue, o[1] \in X \cup {t}
                 PROVE  (\E u \in X \cup {t} : o \in Vin[u])
                        \/ \E u \in v.known \ CoinStake : o \in Vin[u]
      BY DEF Accounts
    <3>1. o \in Mine
      BY <1>1, <2>1 DEF Wallets
    <3>2. o[1] \in X
      BY <2>2, <3>1, MineIs DEF Involves
    <3> QED BY <2>1, <3>2 DEF Accounts, OwnInputs
  <2> QED BY <2>1, <2>3, <2>4, <2>5, <2>6, <2>7 DEF Follows
<1> QED BY <1>3, <1>4

(* A connected block: the wallet hears of its transactions in their order,  *)
(* each of which spends what came before it.                                *)
LEMMA BlockFollows ==
    ASSUME NEW w, FlagsOk(w), NEW b \in Block \ {Genesis}, ValidChain(b),
           Knows(w, ChainTxs(Pprev[b])), NEW A, b \in A, NEW M, NEW C
    PROVE  Follows(w, ChainTxs(Pprev[b]), AddBlock(w, b, TRUE, C), ChainTxs(b), A, M)
<1> DEFINE p == Pprev[b]
           L == Len(Vtx[b])
           X(n) == ChainTxs(p) \cup {Vtx[b][j] : j \in 1 .. n}
<1>1. /\ p \in Block /\ ValidChain(p) /\ ValidBlock(b) /\ ChainTxs(p) \subseteq Tx
      /\ ChainTxs(b) = ChainTxs(p) \cup TxsOf(b)
      /\ b \in Block /\ Vtx[b] \in Seq(Tx) /\ L \in Nat /\ DOMAIN Vtx[b] = 1 .. L
  BY BlockTreeAssumption, ChainAssumption, ValidChainOf, ChainTxsOf
<1>2. \A n \in 1 .. L : /\ Vtx[b][n] \in Tx \ X(n - 1) /\ Vtx[b][n] \in TxsOf(b)
                        /\ \A o \in Vin[Vtx[b][n]] : o[1] \in X(n - 1)
  BY <1>1 DEF ValidBlock, TxsOf
<1>3. X(0) = ChainTxs(p) /\ X(L) = ChainTxs(b)
  BY <1>1 DEF TxsOf
<1>4. \A n \in 1 .. L : X(n) = X(n - 1) \cup {Vtx[b][n]}
  <2> TAKE n \in 1 .. L
  <2>1. 1 .. n = (1 .. (n - 1)) \cup {n}
    BY <1>1
  <2> QED BY <2>1
<1>5. w \in Wallets
  BY DEF FlagsOk
<1>6. PICK g \in [0 .. L -> Wallets] :
        /\ g[0] = w
        /\ \A n \in 1 .. L : g[n] = AddToWalletIfInvolvingMe(g[n - 1], Vtx[b][n], b, TRUE, C)
        /\ AddBlock(w, b, TRUE, C) = g[L]
  <2> DEFINE f == TRUE
  <2>1. f \in BOOLEAN /\ b \in Block
    OBVIOUS
  <2> HIDE DEF f
  <2>2. \E g \in [0 .. L -> Wallets] :
          /\ g[0] = w
          /\ \A n \in 1 .. L : g[n] = AddToWalletIfInvolvingMe(g[n - 1], Vtx[b][n], b, f, C)
          /\ AddBlock(w, b, f, C) = g[L]
    BY <1>5, <2>1, AddBlockRuns
  <2> QED BY <2>2 DEF f
<1>7. X(0) \subseteq Tx /\ \A u \in X(0) : \A o \in Vin[u] : o[1] \in X(0)
  BY <1>1, <1>3, InputsOnChain
<1> HIDE DEF X, L, p
<1> DEFINE Closed(n) == X(n) \subseteq Tx /\ \A u \in X(n) : \A o \in Vin[u] : o[1] \in X(n)
           T == {n \in 0 .. L : Closed(n) /\ Follows(w, X(0), g[n], X(n), A, M)}
<1>8. 0 \in T
  <2>1. Knows(w, X(0))
    BY <1>3 DEF p
  <2> QED BY <1>1, <1>6, <1>7, <2>1 DEF Follows
<1>9. ASSUME NEW n \in 0 .. L - 1, n \in T PROVE n + 1 \in T
  <2> DEFINE t == Vtx[b][n + 1]
  <2>1. n + 1 \in 1 .. L /\ n + 1 \in 0 .. L /\ (n + 1) - 1 = n
    BY <1>1
  <2>2. /\ t \in Tx \ X(n) /\ t \in TxsOf(b) /\ \A o \in Vin[t] : o[1] \in X(n)
        /\ X(n + 1) = X(n) \cup {t}
        /\ g[n + 1] = AddToWalletIfInvolvingMe(g[n], t, b, TRUE, C)
    BY <1>2, <1>4, <1>6, <2>1
  <2>3. /\ X(n) \in SUBSET Tx /\ \A u \in X(n) : \A o \in Vin[u] : o[1] \in X(n)
        /\ Follows(w, X(0), g[n], X(n), A, M)
    BY <1>9
  <2> HIDE DEF t
  <2>4. FlagsOk(g[n]) /\ Knows(g[n], X(n))
    BY <2>3 DEF Follows
  <2>5. Follows(g[n], X(n), AddToWalletIfInvolvingMe(g[n], t, b, TRUE, C), X(n) \cup {t}, A, M)
    BY <2>2, <2>3, <2>4, AddOne
  <2>6. Follows(w, X(0), g[n + 1], X(n + 1), A, M)
    BY <2>2, <2>3, <2>5 DEF Follows
  <2>7. Closed(n + 1)
    BY <2>2, <2>3
  <2> QED BY <2>1, <2>6, <2>7
<1>10. L \in T
  <2>1. 0 .. L \subseteq T
    <3> HIDE DEF T
    <3> QED BY <1>1, <1>8, <1>9, UpTo
  <2> QED BY <1>1, <2>1
<1> QED BY <1>3, <1>6, <1>10 DEF p

(* A scan of the chain from the genesis block starts from nothing.          *)
LEMMA ScanFollows ==
    ASSUME NEW w, FlagsOk(w), NEW b \in Block, ValidChain(b), NEW M, NEW C
    PROVE  Follows(w, {}, Scan(w, b, TRUE, C), ChainTxs(b), Ancestors[b], M)
<1> DEFINE path == PathUp(b, Genesis)
           L == Len(path)
           At(n) == IF n = 0 THEN Genesis ELSE path[n]
<1>1. /\ path \in Seq(Block) /\ Climbs(Genesis, path, b)
      /\ Range(path) \subseteq Ancestors[b]
  BY Ancestry, PathsShape DEF WellRooted
<1>2. w \in Wallets
  BY DEF FlagsOk
<1>3. PICK g \in [0 .. L -> Wallets] :
        /\ g[0] = w
        /\ \A n \in 1 .. L : g[n] = AddBlock(g[n - 1], path[n], TRUE, C)
        /\ Scan(w, b, TRUE, C) = g[L]
  <2> DEFINE f == TRUE
  <2>1. f \in BOOLEAN
    OBVIOUS
  <2> HIDE DEF f
  <2>2. \E g \in [0 .. L -> Wallets] :
          /\ g[0] = w
          /\ \A n \in 1 .. L : g[n] = AddBlock(g[n - 1], path[n], f, C)
          /\ Scan(w, b, f, C) = g[L]
    BY <1>2, <2>1, ScanRuns
  <2> QED BY <2>2 DEF f
<1> HIDE DEF path
<1>4. L \in Nat /\ DOMAIN path = 1 .. L /\ At(L) = b
  BY <1>1 DEF Climbs
<1>5. \A n \in 1 .. L : /\ At(n) \in Block \ {Genesis} /\ Pprev[At(n)] = At(n - 1)
                        /\ At(n) = path[n] /\ At(n) \in Ancestors[b] /\ ValidChain(At(n))
  <2> TAKE n \in 1 .. L
  <2>1. /\ path[n] \in Block \ {Genesis}
        /\ Pprev[path[n]] = IF n = 1 THEN Genesis ELSE path[n - 1]
    BY <1>1, <1>4 DEF Climbs
  <2>2. n # 0 /\ (n = 1 <=> n - 1 = 0)
    BY <1>4
  <2>3. path[n] \in Ancestors[b]
    BY <1>1, <1>4 DEF Range
  <2> QED BY <2>1, <2>2, <2>3, ValidChainOf
<1> DEFINE T == {n \in 0 .. L : Follows(w, {}, g[n], ChainTxs(At(n)), Ancestors[b], M)}
<1>6. 0 \in T
  <2>1. At(0) = Genesis /\ ChainTxs(Genesis) = {}
    BY ChainTxsOf
  <2> QED BY <1>3, <1>4, <2>1 DEF Follows, Knows
<1> HIDE DEF At, L
<1>7. ASSUME NEW n \in 0 .. L - 1, n \in T PROVE n + 1 \in T
  <2> DEFINE c == At(n + 1)
             X == ChainTxs(At(n))
  <2>1. n + 1 \in 1 .. L /\ n + 1 \in 0 .. L /\ (n + 1) - 1 = n
    BY <1>4
  <2>2. /\ c \in Block \ {Genesis} /\ Pprev[c] = At(n) /\ c \in Ancestors[b]
        /\ ValidChain(c) /\ g[n + 1] = AddBlock(g[n], c, TRUE, C)
    BY <1>3, <1>5, <2>1
  <2>3. Follows(w, {}, g[n], X, Ancestors[b], M)
    BY <1>7
  <2>4. FlagsOk(g[n]) /\ Knows(g[n], ChainTxs(Pprev[c]))
    BY <2>2, <2>3 DEF Follows
  <2> HIDE DEF c
  <2>5. Follows(g[n], ChainTxs(Pprev[c]), g[n + 1], ChainTxs(c), Ancestors[b], M)
    BY <2>2, <2>4, BlockFollows
  <2>6. Follows(w, {}, g[n + 1], ChainTxs(c), Ancestors[b], M)
    BY <2>2, <2>3, <2>5 DEF Follows
  <2> QED BY <2>1, <2>6 DEF c
<1>8. L \in T
  <2>1. 0 .. L \subseteq T
    <3> HIDE DEF T
    <3> QED BY <1>4, <1>6, <1>7, UpTo
  <2> QED BY <1>4, <2>1
<1> QED BY <1>3, <1>4, <1>8

-----------------------------------------------------------------------------
(* Without fUpdate, a transaction the wallet knows if it concerns it.       *)
LEMMA AddKnown ==
    ASSUME NEW w, FlagsOk(w), NEW t \in Tx, NEW b \in Block \ {Genesis}, t \in TxsOf(b),
           Involves(t) => t \in w.known, NEW C
    PROVE  Same(w, AddToWalletIfInvolvingMe(w, t, b, FALSE, C))
<1>1. CASE t \in w.known
  BY <1>1 DEF AddToWalletIfInvolvingMe, Same
<1>2. w \in Wallets /\ w.known \subseteq Tx /\ w.hashBlock \in [Tx -> Block \cup {NoBlock}]
  BY DEF FlagsOk, Wallets
<1>3. CASE t \notin w.known /\ t \notin C
  <2> DEFINE v == WalletUpdateSpent(w, t, FALSE)
  <2>1. AddToWalletIfInvolvingMe(w, t, b, FALSE, C) = v
    BY <1>3 DEF AddToWalletIfInvolvingMe, Involves, IsFromMe
  <2>3. /\ v \in Wallets /\ v.known = w.known /\ v.hashBlock = w.hashBlock
        /\ v.spent = w.spent \cup OwnInputs(t, w.known)
    BY <1>2, UpdateSpentIs
  <2>4. OwnInputs(t, w.known) \subseteq ZeroValue /\ \A o \in OwnInputs(t, w.known) : o[1] \in w.known
    BY <1>3 DEF OwnInputs, Involves
  <2> HIDE DEF v
  <2> QED BY <2>1, <2>3, <2>4 DEF Same, FlagsOk
<1>4. CASE t \notin w.known /\ t \in C
  <2> DEFINE v == AddToWallet(w, t, b)
             K == w.known \cup {t}
  <2>1. AddToWalletIfInvolvingMe(w, t, b, FALSE, C) = v
    BY <1>4 DEF AddToWalletIfInvolvingMe
  <2>2. /\ v \in Wallets /\ v.known = K /\ v.hashBlock = [w.hashBlock EXCEPT ![t] = b]
        /\ v.spent = (w.spent \cup OwnInputs(t, K)) \ Outs(t)
    BY <1>2, AddConfirmedIs
  <2>3. OwnInputs(t, K) \subseteq ZeroValue /\ \A o \in OwnInputs(t, K) : o[1] \in K
    BY <1>4 DEF OwnInputs, Involves
  <2>4. \A o \in w.spent : o \notin Outs(t) /\ o[1] \in K
    BY <1>4 DEF FlagsOk, Outs
  <2> HIDE DEF v
  <2>5. FlagsOk(v)
    BY <1>2, <2>2, <2>3, <2>4 DEF FlagsOk
  <2>6. Same(w, v)
    BY <1>2, <1>4, <2>2, <2>3, <2>4, <2>5 DEF Same
  <2> QED BY <2>1, <2>6
<1> QED BY <1>1, <1>3, <1>4

(* The same for the transactions of a block ...                             *)
LEMMA BlockSame ==
    ASSUME NEW w, FlagsOk(w), NEW b \in Block \ {Genesis}, Knows(w, TxsOf(b)), NEW C
    PROVE  Same(w, AddBlock(w, b, FALSE, C))
<1> DEFINE L == Len(Vtx[b])
<1>1. L \in Nat /\ \A n \in 1 .. L : Vtx[b][n] \in Tx /\ Vtx[b][n] \in TxsOf(b)
  BY ChainAssumption DEF TxsOf
<1>2. w \in Wallets
  BY DEF FlagsOk
<1>3. PICK g \in [0 .. L -> Wallets] :
        /\ g[0] = w
        /\ \A n \in 1 .. L : g[n] = AddToWalletIfInvolvingMe(g[n - 1], Vtx[b][n], b, FALSE, C)
        /\ AddBlock(w, b, FALSE, C) = g[L]
  <2> DEFINE f == FALSE
  <2>1. f \in BOOLEAN /\ b \in Block
    OBVIOUS
  <2> HIDE DEF f
  <2>2. \E g \in [0 .. L -> Wallets] :
          /\ g[0] = w
          /\ \A n \in 1 .. L : g[n] = AddToWalletIfInvolvingMe(g[n - 1], Vtx[b][n], b, f, C)
          /\ AddBlock(w, b, f, C) = g[L]
    BY <1>2, <2>1, AddBlockRuns
  <2> QED BY <2>2 DEF f
<1> HIDE DEF L
<1> DEFINE T == {n \in 0 .. L : Same(w, g[n])}
<1>4. 0 \in T
  BY <1>1, <1>3 DEF Same
<1>5. ASSUME NEW n \in 0 .. L - 1, n \in T PROVE n + 1 \in T
  <2> DEFINE t == Vtx[b][n + 1]
  <2>1. n + 1 \in 1 .. L /\ n + 1 \in 0 .. L /\ (n + 1) - 1 = n
    BY <1>1
  <2>2. t \in Tx /\ t \in TxsOf(b) /\ g[n + 1] = AddToWalletIfInvolvingMe(g[n], t, b, FALSE, C)
    BY <1>1, <1>3, <2>1
  <2>3. Same(w, g[n])
    BY <1>5
  <2> HIDE DEF t
  <2>4. FlagsOk(g[n]) /\ (Involves(t) => t \in g[n].known)
    BY <2>2, <2>3 DEF Same, Knows
  <2>5. Same(g[n], g[n + 1])
    BY <2>2, <2>4, AddKnown
  <2> QED BY <2>1, <2>3, <2>5 DEF Same
<1>6. L \in T
  <2>1. 0 .. L \subseteq T
    <3> HIDE DEF T
    <3> QED BY <1>1, <1>4, <1>5, UpTo
  <2> QED BY <1>1, <2>1
<1> QED BY <1>3, <1>6

(* ... and of a chain.                                                      *)
LEMMA ScanSame ==
    ASSUME NEW w, FlagsOk(w), NEW b \in Block, Knows(w, ChainTxs(b)), NEW C
    PROVE  Same(w, Scan(w, b, FALSE, C))
<1> DEFINE path == PathUp(b, Genesis)
           L == Len(path)
<1>1. /\ path \in Seq(Block) /\ Climbs(Genesis, path, b)
      /\ Range(path) \subseteq Ancestors[b]
  BY Ancestry, PathsShape DEF WellRooted
<1>2. w \in Wallets
  BY DEF FlagsOk
<1>3. PICK g \in [0 .. L -> Wallets] :
        /\ g[0] = w
        /\ \A n \in 1 .. L : g[n] = AddBlock(g[n - 1], path[n], FALSE, C)
        /\ Scan(w, b, FALSE, C) = g[L]
  <2> DEFINE f == FALSE
  <2>1. f \in BOOLEAN
    OBVIOUS
  <2> HIDE DEF f
  <2>2. \E g \in [0 .. L -> Wallets] :
          /\ g[0] = w
          /\ \A n \in 1 .. L : g[n] = AddBlock(g[n - 1], path[n], f, C)
          /\ Scan(w, b, f, C) = g[L]
    BY <1>2, <2>1, ScanRuns
  <2> QED BY <2>2 DEF f
<1> HIDE DEF path
<1>4. L \in Nat /\ \A n \in 1 .. L : /\ path[n] \in Block \ {Genesis}
                                   /\ TxsOf(path[n]) \subseteq ChainTxs(b)
  BY <1>1 DEF Climbs, Range, ChainTxs
<1> HIDE DEF L
<1> DEFINE T == {n \in 0 .. L : Same(w, g[n])}
<1>5. 0 \in T
  BY <1>3, <1>4 DEF Same
<1>6. ASSUME NEW n \in 0 .. L - 1, n \in T PROVE n + 1 \in T
  <2> DEFINE c == path[n + 1]
  <2>1. n + 1 \in 1 .. L /\ n + 1 \in 0 .. L /\ (n + 1) - 1 = n
    BY <1>4
  <2>2. c \in Block \ {Genesis} /\ TxsOf(c) \subseteq ChainTxs(b) /\ g[n + 1] = AddBlock(g[n], c, FALSE, C)
    BY <1>3, <1>4, <2>1
  <2>3. Same(w, g[n])
    BY <1>6
  <2> HIDE DEF c
  <2>4. FlagsOk(g[n]) /\ Knows(g[n], TxsOf(c))
    BY <2>2, <2>3 DEF Same, Knows
  <2>5. Same(g[n], g[n + 1])
    BY <2>2, <2>4, BlockSame
  <2> QED BY <2>1, <2>3, <2>5 DEF Same
<1>7. L \in T
  <2>1. 0 .. L \subseteq T
    <3> HIDE DEF T
    <3> QED BY <1>4, <1>5, <1>6, UpTo
  <2> QED BY <1>4, <2>1
<1> QED BY <1>3, <1>7

(* What is said of the one holds of the other.                              *)
LEMMA SameFits ==
    ASSUME NEW w, NEW v, FlagsOk(w), Same(w, v), NEW X, Knows(w, X), NEW A, NEW M
    PROVE  /\ Knows(v, X)
           /\ Places(w, X, A) => Places(v, X, A)
           /\ Marks(w, X, M) => Marks(v, X, M)
           /\ Accounts(w, X) => Accounts(v, X)
<1>1. Knows(v, X) /\ (Places(w, X, A) => Places(v, X, A))
  BY DEF Same, Knows, Places
<1>2. Marks(w, X, M) => Marks(v, X, M)
  BY DEF Same, Marks
<1>3. Accounts(w, X) => Accounts(v, X)
  BY DEF Same, Accounts
<1> QED BY <1>1, <1>2, <1>3

-----------------------------------------------------------------------------
(* A disconnected block: the coinstake gives its inputs back, which nothing *)
(* else on the chain spends; its other transactions are loose now.          *)
LEMMA DisconnectFits ==
    ASSUME NEW w, FlagsOk(w), NEW b \in Block \ {Genesis}, ValidChain(b),
           Knows(w, ChainTxs(b)), NEW M
    PROVE  LET v == SyncDisconnect(w, b)
               X == ChainTxs(b)
               Y == ChainTxs(Pprev[b])
           IN  /\ FlagsOk(v) /\ v.known = w.known /\ Knows(v, Y)
               /\ Places(w, X, Ancestors[b]) => Places(v, Y, Ancestors[Pprev[b]])
               /\ Marks(w, X, M) => Marks(v, Y, M)
               /\ Accounts(w, X) => Accounts(v, Y)
<1> DEFINE v == SyncDisconnect(w, b)
           p == Pprev[b]
           X == ChainTxs(b)
           Y == ChainTxs(p)
           given == UNION {Vin[t] : t \in {u \in TxsOf(b) \cap CoinStake : IsFromMe(w, u)}}
<1>1. /\ p \in Block /\ ValidBlock(b) /\ X = Y \cup TxsOf(b) /\ X \subseteq Tx /\ b \in Block
      /\ Ancestors[b] = Ancestors[p] \cup {b} /\ Ancestors[b] \subseteq Block
  BY BlockTreeAssumption, PprevAssumption, ValidChainOf, ChainTxsOf
<1>2. /\ v \in Wallets /\ v.known = w.known /\ v.hashBlock = w.hashBlock
      /\ v.spent = w.spent \ {o \in given \cap Mine : o[1] \in w.known}
  BY DEF SyncDisconnect, FlagsOk, Wallets
<1>3. \A u \in TxsOf(b) : u \notin Y /\ \A o \in Vin[u] \ ZeroValue : \A t \in Y : o \notin Vin[t]
  BY <1>1 DEF ValidBlock, TxsOf
<1> HIDE DEF v, p, given
<1>4. FlagsOk(v)
  BY <1>2 DEF FlagsOk
<1>5. Knows(v, Y)
  BY <1>1, <1>2 DEF Knows
<1>6. Places(w, X, Ancestors[b]) => Places(v, Y, Ancestors[p])
  <2> SUFFICES ASSUME Places(w, X, Ancestors[b]), NEW t \in Y, Involves(t)
               PROVE  v.hashBlock[t] \in Ancestors[p]
    BY DEF Places
  <2>1. t \in X /\ t \in Tx
    BY <1>1
  <2>2. w.hashBlock[t] \in Ancestors[b]
    BY <2>1 DEF Places
  <2>3. t \in TxsOf(w.hashBlock[t])
    BY <1>1, <2>1, <2>2, BlockTreeAssumption DEF FlagsOk
  <2> QED BY <1>1, <1>2, <1>3, <2>2, <2>3
<1>7. Marks(w, X, M) => Marks(v, Y, M)
  <2> SUFFICES ASSUME Marks(w, X, M), NEW t \in Y, NEW o \in (Vin[t] \cap Mine) \ ZeroValue
               PROVE  o \in v.spent \/ o[1] \in M
    BY DEF Marks
  <2>1. o \notin given
    BY <1>3 DEF given
  <2>2. o \in w.spent \/ o[1] \in M
    BY <1>1 DEF Marks
  <2> QED BY <1>2, <2>1, <2>2
<1>8. Accounts(w, X) => Accounts(v, Y)
  <2> SUFFICES ASSUME Accounts(w, X), NEW o \in v.spent \ ZeroValue, o[1] \in Y
               PROVE  (\E t \in Y : o \in Vin[t]) \/ \E t \in v.known \ CoinStake : o \in Vin[t]
    BY DEF Accounts
  <2>1. o \in w.spent /\ o \in Mine /\ o[1] \in w.known /\ o[1] \in X /\ o \notin given
    BY <1>1, <1>2 DEF FlagsOk, Wallets
  <2>2. CASE \E t \in w.known \ CoinStake : o \in Vin[t]
    BY <1>2, <2>2
  <2>3. CASE \E t \in X : o \in Vin[t]
    <3>1. PICK t \in X : o \in Vin[t]
      BY <2>3
    <3>2. IsFromMe(w, t) /\ Involves(t)
      BY <2>1, <3>1 DEF IsFromMe, Involves
    <3>3. t \in w.known
      BY <3>2 DEF Knows
    <3>4. t \in Y \/ t \notin CoinStake
      BY <1>1, <2>1, <3>1, <3>2 DEF given
    <3> QED BY <1>2, <3>1, <3>3, <3>4
  <2> QED BY <2>1, <2>2, <2>3 DEF Accounts
<1> QED BY <1>2, <1>4, <1>5, <1>6, <1>7, <1>8 DEF v, p

(* A loose transaction only adds flags, to what it spends itself.           *)
Grows(w, v) ==
    /\ FlagsOk(v) /\ w.known \subseteq v.known /\ v.hashBlock = w.hashBlock
    /\ w.spent \subseteq v.spent
    /\ \A o \in (v.spent \ w.spent) \ ZeroValue : \E t \in v.known \ CoinStake : o \in Vin[t]

(* What fits every chain before it does after it.                           *)
LEMMA GrowsFits ==
    ASSUME NEW w, NEW v, Grows(w, v), NEW X, NEW A, NEW M
    PROVE  /\ Knows(w, X) => Knows(v, X)
           /\ Places(w, X, A) => Places(v, X, A)
           /\ Marks(w, X, M) => Marks(v, X, M)
           /\ Accounts(w, X) => Accounts(v, X)
<1>1. Accounts(w, X) => Accounts(v, X)
  BY DEF Grows, Accounts
<1> QED BY <1>1 DEF Grows, Knows, Places, Marks

(* The wallet is handed a transaction that is in no block.                  *)
LEMMA LooseGrows ==
    ASSUME NEW w, FlagsOk(w), NEW t \in Tx \ CoinStake, NEW C
    PROVE  /\ Grows(w, AddToWallet(w, t, NoBlock))
           /\ Grows(w, AddToWalletIfInvolvingMe(w, t, NoBlock, TRUE, C))
<1>1. w \in Wallets
  BY DEF FlagsOk
<1>2. Grows(w, AddToWallet(w, t, NoBlock))
  <2> DEFINE v == AddToWallet(w, t, NoBlock)
             K == w.known \cup {t}
  <2>1. /\ v \in Wallets /\ v.known = K /\ v.hashBlock = w.hashBlock
        /\ v.spent = w.spent \cup OwnInputs(t, K)
    BY <1>1, AddLooseIs
  <2>2. \A o \in OwnInputs(t, K) : o \in Vin[t] /\ o[1] \in K
    BY DEF OwnInputs
  <2> HIDE DEF v
  <2>3. Grows(w, v)
    BY <2>1, <2>2 DEF Grows, FlagsOk
  <2> QED BY <2>3 DEF v
<1>3. CASE t \in w.known \/ IsMine(t) \/ IsFromMe(w, t) \/ t \in C
  BY <1>2, <1>3 DEF AddToWalletIfInvolvingMe
<1>4. CASE ~(t \in w.known \/ IsMine(t) \/ IsFromMe(w, t) \/ t \in C)
  <2> DEFINE v == WalletUpdateSpent(w, t, FALSE)
             K == w.known
  <2>1. /\ v \in Wallets /\ v.known = K /\ v.hashBlock = w.hashBlock
        /\ v.spent = w.spent \cup OwnInputs(t, K)
    BY <1>1, UpdateSpentIs
  <2>2. \A o \in OwnInputs(t, K) : o \in ZeroValue /\ o[1] \in K
    BY <1>4 DEF OwnInputs, IsFromMe
  <2>3. v = AddToWalletIfInvolvingMe(w, t, NoBlock, TRUE, C)
    BY <1>4 DEF AddToWalletIfInvolvingMe
  <2> HIDE DEF v
  <2>4. Grows(w, v)
    BY <2>1, <2>2 DEF Grows, FlagsOk
  <2> QED BY <1>2, <2>3, <2>4
<1> QED BY <1>2, <1>3, <1>4

-----------------------------------------------------------------------------
(* Wallet w beside the chain of tip, which the batch holds, and that of     *)
(* best, which is committed.  Until a reorganisation is given up half way   *)
(* (c) it fits the former; after a crash ReacceptWalletTransactions, once   *)
(* it has run (r), has restored the flags, minted outputs apart.            *)
Fits(w, r, c, tip, best) ==
    /\ FlagsOk(w)
    /\ r \in BOOLEAN /\ c \in {"no", "aborted", "crashed"}
    /\ Knows(w, ChainTxs(tip)) /\ Knows(w, ChainTxs(best))
    /\ c = "no" => /\ Places(w, ChainTxs(tip), Ancestors[tip])
                   /\ Marks(w, ChainTxs(tip), {})
                   /\ Accounts(w, ChainTxs(tip))
    /\ c = "crashed" /\ ~r => Marks(w, ChainTxs(tip), {t \in Tx : Minted(t)})

WalletInv == Fits(wallet, reaccept, cut, Tip, disk.best) /\ PoolAgrees(mempool)

(* ConnectBlock tells the wallet of b, and commits it or does not yet.      *)
LEMMA ConnectFits ==
    ASSUME NEW w, NEW r, NEW c, NEW best, NEW b \in Block \ {Genesis}, ValidChain(b),
           Fits(w, r, c, Pprev[b], best), NEW C
    PROVE  Fits(SyncConnect(w, b, C), r, c, b, best) /\ Fits(SyncConnect(w, b, C), r, c, b, b)
<1> DEFINE v == AddBlock(w, b, TRUE, C)
           X == ChainTxs(Pprev[b])
           Y == ChainTxs(b)
<1>1. FlagsOk(w) /\ Knows(w, X)
  BY DEF Fits
<1>2. Ancestors[b] = Ancestors[Pprev[b]] \cup {b}
  BY PprevAssumption
<1>3. \A M : Follows(w, X, v, Y, Ancestors[b], M)
  BY <1>1, <1>2, BlockFollows
<1>4. Places(w, X, Ancestors[Pprev[b]]) => Places(w, X, Ancestors[b])
  BY <1>2 DEF Places
<1> HIDE DEF v, X, Y
<1>5. FlagsOk(v) /\ Knows(v, Y) /\ w.known \subseteq v.known
  BY <1>3 DEF Follows
<1>6. Knows(v, ChainTxs(best))
  BY <1>5 DEF Fits, Knows
<1>7. c = "no" => Places(v, Y, Ancestors[b]) /\ Marks(v, Y, {}) /\ Accounts(v, Y)
  BY <1>3, <1>4 DEF Follows, Fits, X
<1>8. c = "crashed" /\ ~r => Marks(v, Y, {t \in Tx : Minted(t)})
  BY <1>3 DEF Follows, Fits, X
<1> QED BY <1>5, <1>6, <1>7, <1>8 DEF Fits, SyncConnect, v, Y

(* DisconnectBlock tells it that b is gone.                                 *)
LEMMA DisconnectedFits ==
    ASSUME NEW w, NEW r, NEW c, NEW best, NEW b \in Block \ {Genesis}, ValidChain(b),
           Fits(w, r, c, b, best)
    PROVE  Fits(SyncDisconnect(w, b), r, c, Pprev[b], best)
<1> DEFINE v == SyncDisconnect(w, b)
           X == ChainTxs(b)
           Y == ChainTxs(Pprev[b])
<1>1. FlagsOk(w) /\ Knows(w, X)
  BY DEF Fits
<1>2. /\ FlagsOk(v) /\ v.known = w.known /\ Knows(v, Y)
      /\ Places(w, X, Ancestors[b]) => Places(v, Y, Ancestors[Pprev[b]])
      /\ Accounts(w, X) => Accounts(v, Y)
      /\ \A M : Marks(w, X, M) => Marks(v, Y, M)
  BY <1>1, DisconnectFits
<1> HIDE DEF v, X, Y
<1>3. Knows(v, ChainTxs(best))
  BY <1>2 DEF Fits, Knows
<1>4. c = "no" => Places(v, Y, Ancestors[Pprev[b]]) /\ Marks(v, Y, {}) /\ Accounts(v, Y)
  BY <1>2 DEF Fits, X
<1>5. c = "crashed" /\ ~r => Marks(v, Y, {t \in Tx : Minted(t)})
  BY <1>2 DEF Fits, X
<1> QED BY <1>2, <1>3, <1>4, <1>5 DEF Fits, v, Y

(* It is handed a loose transaction.                                        *)
LEMMA GrownFits ==
    ASSUME NEW w, NEW v, NEW r, NEW c, NEW tip, NEW best, Fits(w, r, c, tip, best), Grows(w, v)
    PROVE  Fits(v, r, c, tip, best)
<1>1. \A X, A, M : /\ Knows(w, X) => Knows(v, X)
                   /\ Places(w, X, A) => Places(v, X, A)
                   /\ Marks(w, X, M) => Marks(v, X, M)
                   /\ Accounts(w, X) => Accounts(v, X)
  BY GrowsFits
<1>2. FlagsOk(v)
  BY DEF Grows
<1> QED BY <1>1, <1>2 DEF Fits

(* It is scanned for at a start, with -rescan.                              *)
LEMMA ScannedFits ==
    ASSUME NEW w, FlagsOk(w), NEW r \in BOOLEAN, NEW b \in Block, ValidChain(b), NEW C
    PROVE  Fits(Scan(w, b, TRUE, C), r, "no", b, b)
<1> DEFINE v == Scan(w, b, TRUE, C)
<1>1. Follows(w, {}, v, ChainTxs(b), Ancestors[b], {})
  BY ScanFollows
<1>2. Places(w, {}, Ancestors[b]) /\ Marks(w, {}, {}) /\ Accounts(w, {})
  BY DEF Places, Marks, Accounts
<1> HIDE DEF v
<1>3. Fits(v, r, "no", b, b)
  BY <1>1, <1>2 DEF Follows, Fits
<1> QED BY <1>3 DEF v

(* What the index of a valid chain says of the wallet's outputs of value.   *)
LEMMA IndexSays ==
    ASSUME NEW txdb, NEW b \in Block, ValidChain(b), IsIndexOf(txdb, b),
           NEW o \in Mine \ ZeroValue
    PROVE  /\ o \in txdb.spent <=> \E t \in ChainTxs(b) : o \in Vin[t]
           /\ o \in txdb.spent => o[1] \in ChainTxs(b)
           /\ txdb.pos[o[1]] # NotIndexed <=> o[1] \in ChainTxs(b)
<1>1. o \in txdb.spent <=> \E t \in ChainTxs(b) : o \in Vin[t]
  BY DEF IsIndexOf
<1>2. o \in txdb.spent => o[1] \in ChainTxs(b)
  BY <1>1, InputsOnChain
<1>3. o[1] \in Tx
  BY MineIs
<1> QED BY <1>1, <1>2, <1>3 DEF IsIndexOf

(* repairwallet sets the flags of the indexed outputs by the index.         *)
LEMMA RepairedFits ==
    ASSUME NEW w, NEW r, NEW c, NEW b \in Block, ValidChain(b), Fits(w, r, c, b, b),
           NEW txdb, IsIndexOf(txdb, b), NEW v, NEW D,
           D = {o \in Mine : o[1] \in w.known /\ txdb.pos[o[1]] # NotIndexed},
           v = [w EXCEPT !.spent = (@ \ D) \cup (D \cap txdb.spent)]
    PROVE  Fits(v, r, c, b, b)
<1> DEFINE X == ChainTxs(b)
<1>1. FlagsOk(w) /\ w \in Wallets /\ Knows(w, X)
  BY DEF Fits, FlagsOk
<1>2. /\ v \in Wallets /\ v.known = w.known /\ v.hashBlock = w.hashBlock
      /\ v.spent = (w.spent \ D) \cup (D \cap txdb.spent)
  <2>1. D \subseteq Mine
    OBVIOUS
  <2> QED BY <1>1, <2>1 DEF Wallets
<1>3. FlagsOk(v)
  <2>1. \A o \in D : o[1] \in w.known
    OBVIOUS
  <2> QED BY <1>1, <1>2, <2>1 DEF FlagsOk
<1>4. Knows(v, X)
  BY <1>1, <1>2 DEF Knows
<1>5. \A A : Places(w, X, A) => Places(v, X, A)
  BY <1>2 DEF Places
<1>6. \A M : Marks(v, X, M)
  <2> SUFFICES ASSUME NEW t \in X, NEW o \in (Vin[t] \cap Mine) \ ZeroValue PROVE o \in v.spent
    BY DEF Marks
  <2>1. o \in txdb.spent /\ o[1] \in X /\ txdb.pos[o[1]] # NotIndexed
    BY IndexSays
  <2>2. o[1] \in w.known
    BY <1>1, <2>1, MineIs DEF Knows, Involves
  <2> QED BY <1>2, <2>1, <2>2
<1>7. Accounts(v, X)
  <2> SUFFICES ASSUME NEW o \in v.spent \ ZeroValue, o[1] \in X PROVE \E t \in X : o \in Vin[t]
    BY DEF Accounts
  <2>1. o \in Mine /\ o[1] \in w.known
    BY <1>2, <1>3 DEF FlagsOk, Wallets
  <2>2. o \in D
    BY <2>1, IndexSays
  <2>3. o \in txdb.spent
    BY <1>2, <2>2
  <2> QED BY <2>1, <2>3, IndexSays
<1> QED BY <1>3, <1>4, <1>5, <1>6, <1>7 DEF Fits

(* ReacceptWalletTransactions flags what it finds missed: with it, all that *)
(* the chain spends is flagged, minted outputs apart.                       *)
LEMMA MissedFits ==
    ASSUME NEW w, NEW r, NEW c, NEW b \in Block, ValidChain(b), Fits(w, r, c, b, b),
           NEW txdb, IsIndexOf(txdb, b),
           NEW missed, missed \subseteq {o \in Mine \cap txdb.spent : o[1] \in w.known},
           \A o \in (Mine \cap txdb.spent) \ ZeroValue :
                o[1] \in w.known => o \in w.spent \cup missed \/ Minted(o[1]),
           NEW u, u \in Wallets, u.known = w.known, u.hashBlock = w.hashBlock,
           u.spent = w.spent \cup missed
    PROVE  Fits(u, FALSE, c, b, b)
<1> DEFINE X == ChainTxs(b)
<1>1. FlagsOk(w) /\ Knows(w, X)
  BY DEF Fits
<1>2. FlagsOk(u)
  BY <1>1 DEF FlagsOk
<1>3. Knows(u, X) /\ \A A : Places(w, X, A) => Places(u, X, A)
  BY <1>1 DEF Knows, Places
<1>4. \A M : Marks(w, X, M) => Marks(u, X, M)
  BY DEF Marks
<1>5. Marks(u, X, {t \in Tx : Minted(t)})
  <2> SUFFICES ASSUME NEW t \in X, NEW o \in (Vin[t] \cap Mine) \ ZeroValue
               PROVE  o \in u.spent \/ o[1] \in {x \in Tx : Minted(x)}
    BY DEF Marks
  <2>1. o \in txdb.spent /\ o[1] \in X
    BY IndexSays
  <2>2. o[1] \in w.known /\ o[1] \in Tx
    BY <1>1, <2>1, MineIs DEF Knows, Involves
  <2> QED BY <2>1, <2>2
<1>6. Accounts(w, X) => Accounts(u, X)
  <2> SUFFICES ASSUME Accounts(w, X), NEW o \in u.spent \ ZeroValue, o[1] \in X
               PROVE  (\E t \in X : o \in Vin[t]) \/ \E t \in u.known \ CoinStake : o \in Vin[t]
    BY DEF Accounts
  <2>1. CASE o \in w.spent
    BY <2>1 DEF Accounts
  <2>2. CASE o \in missed
    <3>1. o \in Mine /\ o \in txdb.spent
      BY <2>2
    <3> QED BY <3>1, IndexSays
  <2> QED BY <2>1, <2>2
<1> QED BY <1>2, <1>3, <1>4, <1>5, <1>6 DEF Fits

(* ... and the scan that follows finds nothing more that concerns it.       *)
LEMMA RescannedFits ==
    ASSUME NEW w, NEW r, NEW c, NEW b \in Block, Fits(w, r, c, b, b), NEW C
    PROVE  Fits(Scan(w, b, FALSE, C), r, c, b, b)
<1> DEFINE v == Scan(w, b, FALSE, C)
<1>1. FlagsOk(w) /\ Knows(w, ChainTxs(b))
  BY DEF Fits
<1>2. Same(w, v)
  BY <1>1, ScanSame
<1> HIDE DEF v
<1>3. \A X, A, M : Knows(w, X) =>
                    /\ Knows(v, X)
                    /\ Places(w, X, A) => Places(v, X, A)
                    /\ Marks(w, X, M) => Marks(v, X, M)
                    /\ Accounts(w, X) => Accounts(v, X)
  BY <1>1, <1>2, SameFits
<1>4. FlagsOk(v)
  BY <1>2 DEF Same
<1>5. Fits(v, r, c, b, b)
  BY <1>3, <1>4 DEF Fits
<1> QED BY <1>5 DEF v

-----------------------------------------------------------------------------
(* When Reorganize starts, the batch holds the committed chain.             *)
LEMMA TipAtStart == TypeOK /\ BranchesOk /\ pc = "reorganize" /\ done = 0 => Tip = disk.best
BY DEF TypeOK, BranchesOk, Falls, Tip

(* For the chain, every step of the wallet is one of its own, or changes    *)
(* the memory pool alone.                                                   *)
LEMMA WalletChainStep ==
    ASSUME TypeOK, Located, ChainInv, PoolConsistent, FlagsOk(wallet),
           [WalletNext /\ StartsConnected']_<<vars, coins>>
    PROVE  TypeOK' /\ Located' /\ ChainInv' /\ PoolConsistent'
<1>1. ASSUME [Next /\ StartsConnected']_vars
      PROVE  TypeOK' /\ Located' /\ ChainInv' /\ PoolConsistent'
  <2>1. [Next]_vars
    BY <1>1
  <2>2. TypeOK' /\ Located' /\ PoolConsistent'
    BY <2>1, ShapeStep, PoolStep
  <2> QED BY <1>1, <2>2, ChainInvStep
<1>2. ASSUME UNCHANGED <<memory, diskIndex, disk, batch, pc, branches, done,
                         vpindexSecondary, queues, crashes>>,
             mempool'.mapTx \subseteq Tx, PoolAgrees(mempool')
      PROVE  TypeOK' /\ Located' /\ ChainInv' /\ PoolConsistent'
  <2>1. TypeOK' /\ Located'
    BY <1>2 DEF TypeOK, Located, ReorganizedTo, memory, diskIndex, branches, queues
  <2>2. BranchesOk'
    BY <1>2 DEF ChainInv, BranchesOk, Base, memory, branches
  <2>3. IndexOk'
    BY <1>2 DEF ChainInv, IndexOk, Tip, Base, memory, branches
  <2>4. KnownOk'
    BY <1>2 DEF ChainInv, KnownOk, memory, diskIndex, branches
  <2> QED BY <1>2, <2>1, <2>2, <2>3, <2>4 DEF ChainInv, PoolConsistent
<1>3. CASE UNCHANGED <<vars, coins>>
  BY <1>1, <1>3
<1>4. CASE \E t \in Signed : CommitTransaction(t)
  <2>1. PICK t \in Signed : CommitTransaction(t)
    BY <1>4
  <2>2. t \in Tx
    BY WalletAssumption
  <2>3. CASE Acceptable(mempool, disk, t, Recent(pindexBest))
    <3>1. mempool' = AddUnchecked(mempool, t) /\ Vin[t] \cap DOMAIN mempool.mapNextTx = {}
      BY <2>1, <2>3 DEF CommitTransaction, Accepted, Acceptable, PreAccept
    <3>2. PoolAgrees(mempool')
      BY <3>1, AddUncheckedAgrees DEF PoolConsistent
    <3>3. mempool'.mapTx \subseteq Tx
      BY <2>2, <3>1 DEF AddUnchecked, TypeOK
    <3> QED BY <1>2, <2>1, <3>2, <3>3 DEF CommitTransaction
  <2>4. CASE ~Acceptable(mempool, disk, t, Recent(pindexBest))
    <3>1. mempool' = mempool
      BY <2>1, <2>4 DEF CommitTransaction, Accepted
    <3> QED BY <1>2, <2>1, <3>1 DEF CommitTransaction, TypeOK, PoolConsistent
  <2> QED BY <2>3, <2>4
<1>5. CASE Reaccept
  <2>1. PICK s : s \in Seq(Tx) /\ mempool' = AcceptedAll(mempool, s)
    <3> DEFINE loose == {t \in {u \in wallet.known : ~PassedOver(u)} :
                            disk.pos[t] = NotIndexed /\ ~Minted(t)}
    <3>1. PICK s \in Orders(loose) : mempool' = AcceptedAll(mempool, s)
      BY <1>5 DEF Reaccept
    <3>2. Cardinality(loose) \in Nat /\ loose \subseteq Tx
      <4>1. IsFiniteSet(wallet.known) /\ wallet.known \subseteq Tx
        BY DEF FlagsOk, Wallets
      <4>2. loose \subseteq wallet.known
        OBVIOUS
      <4> HIDE DEF loose
      <4> QED BY <4>1, <4>2, FS_Subset, FS_CardinalityType
    <3> HIDE DEF loose
    <3>3. s \in [1 .. Cardinality(loose) -> loose]
      BY <3>1 DEF Orders, Bijection, Injection
    <3>4. \A n \in Nat : \A f \in [1 .. n -> loose] : f \in Seq(Tx)
      BY <3>2
    <3> QED BY <3>1, <3>2, <3>3, <3>4
  <2>2. PoolAgrees(mempool') /\ mempool'.mapTx \subseteq Tx
    BY <2>1, AcceptedAllAgrees DEF TypeOK, PoolConsistent
  <2> QED BY <1>2, <1>5, <2>2 DEF Reaccept
<1>6. CASE \/ \E t \in Relayed : ReceiveTx(t) \/ ReceiveOrphanTx(t)
           \/ FixSpentCoins \/ ConnectStep \/ DisconnectStep \/ Abort \/ QuietStep
           \/ \E fRescan \in BOOLEAN : Restart(fRescan)
  <2>1. Next \/ UNCHANGED vars
    BY <1>6, WalletAssumption
       DEF ReceiveTx, ReceiveOrphanTx, FixSpentCoins, ConnectStep, DisconnectStep, Abort, QuietStep,
           Restart, Next, Step
  <2> QED BY <1>1, <1>6, <2>1
<1> QED BY <1>3, <1>4, <1>5, <1>6 DEF WalletNext

(* The first state has it.                                                  *)
LEMMA WalletInvInit == WalletInit => WalletInv
<1> SUFFICES ASSUME WalletInit PROVE WalletInv
  OBVIOUS
<1>1. Tip = Genesis /\ disk.best = Genesis /\ mempool = EmptyPool
  BY DEF WalletInit, Init, Tip
<1>2. ChainTxs(Genesis) = {}
  BY ChainTxsOf
<1>3. FlagsOk(wallet)
  BY FS_EmptySet, BlockTreeAssumption DEF WalletInit, Empty, FlagsOk, Wallets
<1>4. PoolAgrees(EmptyPool)
  BY DEF PoolAgrees, EmptyPool
<1>5. /\ \A w, M : Marks(w, {}, M) /\ Knows(w, {}) /\ Places(w, {}, M)
      /\ \A w : Accounts(w, {})
  BY DEF Marks, Knows, Places, Accounts
<1> QED BY <1>1, <1>2, <1>3, <1>4, <1>5 DEF WalletInv, Fits, WalletInit

(* The chain the batch holds, and the committed one.                        *)
LEMMA TipFacts ==
    TypeOK /\ ChainInv =>
        /\ Tip \in Block /\ ValidChain(Tip)
        /\ disk.best \in Block /\ ValidChain(disk.best) /\ IsIndexOf(disk, disk.best)
<1> SUFFICES ASSUME TypeOK, ChainInv
             PROVE  Tip \in Block /\ disk.best \in Block
  BY DEF ChainInv, IndexOk, Holds
<1>1. disk.best \in Block
  BY DEF TypeOK, TxDB
<1>2. CASE pc = "reorganize"
  <2>1. Base \in Block
    BY <1>1, <1>2, AncestorsTransitive DEF ChainInv, BranchesOk
  <2>2. /\ done \in Nat /\ done <= Len(vDisconnect) + Len(vConnect)
        /\ vDisconnect \in Seq(Block) /\ vConnect \in Seq(Block)
    BY DEF TypeOK
  <2> QED BY <1>1, <1>2, <2>1, <2>2 DEF Tip
<1> QED BY <1>1, <1>2 DEF Tip

(* Where the steps that connect or disconnect a block leave Tip.            *)
LEMMA TipMoves ==
    ASSUME TypeOK, ChainInv
    PROVE  /\ Extend => /\ pindexNew \in Block \ {Genesis} /\ Pprev[pindexNew] = Tip
                        /\ Tip' = pindexNew /\ disk'.best = pindexNew
           /\ ReorganizeDisconnect =>
                /\ ToDisconnect \in Block \ {Genesis} /\ ToDisconnect = Tip
                /\ Tip' = Pprev[Tip] /\ disk' = disk
           /\ ReorganizeConnect =>
                /\ ToConnect \in Block \ {Genesis} /\ Pprev[ToConnect] = Tip
                /\ Tip' = ToConnect /\ disk' = disk
           /\ ConnectSecondary =>
                /\ Head(vpindexSecondary) \in Block \ {Genesis}
                /\ Pprev[Head(vpindexSecondary)] = Tip
                /\ Tip' = Head(vpindexSecondary) /\ disk'.best = Head(vpindexSecondary)
<1>1. ASSUME NEW b \in Block, SetBestChainInner(b) PROVE disk'.best = b
  BY <1>1, ConnectBlockType DEF SetBestChainInner, TypeOK, TxDB
<1>2. ASSUME Extend
      PROVE  /\ pindexNew \in Block \ {Genesis} /\ Pprev[pindexNew] = Tip
             /\ Tip' = pindexNew /\ disk'.best = pindexNew
  <2>1. /\ pc = "extend" /\ pindexNew \in Block \ {Genesis} /\ Pprev[pindexNew] = disk.best
        /\ SetBestChainInner(pindexNew) /\ pc' = "idle"
    BY <1>2 DEF Extend, NewBest, Return, ChainInv, BranchesOk, KnownOk, TypeOK
  <2> QED BY <1>1, <2>1 DEF Tip
<1>3. ASSUME ReorganizeDisconnect
      PROVE  /\ ToDisconnect \in Block \ {Genesis} /\ ToDisconnect = Tip
             /\ Tip' = Pprev[Tip] /\ disk' = disk
  <2>1. /\ pc = "reorganize" /\ done < Len(vDisconnect) /\ done + 1 \in DOMAIN vDisconnect
        /\ done' = done + 1 /\ pc' = pc /\ UNCHANGED <<vDisconnect, vConnect, disk>>
        /\ Len(vDisconnect) \in Nat /\ done \in Nat
    BY <1>3 DEF ReorganizeDisconnect, Disconnecting, branches, TypeOK
  <2>2. ToDisconnect \in Block \ {Genesis} /\ ToDisconnect = Tip
        /\ Pprev[ToDisconnect] = IF done + 1 = Len(vDisconnect) THEN Base ELSE vDisconnect[(done + 1) + 1]
    BY <2>1 DEF ChainInv, BranchesOk, Falls, Tip, ToDisconnect
  <2>3. Tip' = IF done + 1 = Len(vDisconnect) THEN Base ELSE vDisconnect[(done + 1) + 1]
    BY <2>1 DEF Tip, Base
  <2> QED BY <2>1, <2>2, <2>3
<1>4. ASSUME ReorganizeConnect
      PROVE  /\ ToConnect \in Block \ {Genesis} /\ Pprev[ToConnect] = Tip
             /\ Tip' = ToConnect /\ disk' = disk
  <2> DEFINE i == done + 1 - Len(vDisconnect)
  <2>1. /\ pc = "reorganize" /\ i \in DOMAIN vConnect /\ done >= Len(vDisconnect)
        /\ done' = done + 1 /\ pc' = pc /\ UNCHANGED <<vDisconnect, vConnect, disk>>
        /\ Len(vDisconnect) \in Nat /\ done \in Nat
    BY <1>4 DEF ReorganizeConnect, Connecting, branches, TypeOK
  <2>2. /\ ToConnect \in Block \ {Genesis} /\ ToConnect = vConnect[i]
        /\ Pprev[ToConnect] = IF i = 1 THEN Base ELSE vConnect[i - 1]
    BY <2>1 DEF ChainInv, BranchesOk, Climbs, ToConnect
  <2>3. Tip = IF i = 1 THEN Base ELSE vConnect[i - 1]
    BY <2>1 DEF Tip
  <2>4. Tip' = vConnect[i]
    BY <2>1 DEF Tip
  <2> QED BY <2>1, <2>2, <2>3, <2>4
<1>5. ASSUME ConnectSecondary
      PROVE  /\ Head(vpindexSecondary) \in Block \ {Genesis}
             /\ Pprev[Head(vpindexSecondary)] = Tip
             /\ Tip' = Head(vpindexSecondary) /\ disk'.best = Head(vpindexSecondary)
  <2> DEFINE b == Head(vpindexSecondary)
  <2>1. /\ pc = "pool" /\ pc' = pc /\ vpindexSecondary # <<>> /\ SetBestChainInner(b)
        /\ Climbs(disk.best, vpindexSecondary, pindexNew) /\ vpindexSecondary \in Seq(Block)
    BY <1>5 DEF ConnectSecondary, Secondary, ChainInv, BranchesOk, TypeOK
  <2>2. b \in Block \ {Genesis} /\ Pprev[b] = disk.best
    BY <2>1, ClimbsTail
  <2> HIDE DEF b
  <2>3. Tip = disk.best /\ Tip' = disk'.best /\ disk'.best = b
    BY <1>1, <2>1, <2>2 DEF Tip
  <2> QED BY <2>2, <2>3 DEF b
<1> QED BY <1>2, <1>3, <1>4, <1>5

(* Every step keeps it.                                                     *)
LEMMA WalletInvStep ==
    TypeOK /\ Located /\ ChainInv /\ TypeOK' /\ ChainInv' /\ PoolConsistent' /\ WalletInv
        /\ [WalletNext /\ StartsConnected']_<<vars, coins>> => WalletInv'
<1> SUFFICES ASSUME TypeOK, Located, ChainInv, TypeOK', ChainInv', PoolConsistent', WalletInv,
                    [WalletNext /\ StartsConnected']_<<vars, coins>>
             PROVE  Fits(wallet', reaccept', cut', Tip', disk'.best)
  BY DEF WalletInv, PoolConsistent
<1>1. /\ Fits(wallet, reaccept, cut, Tip, disk.best)
      /\ Tip \in Block /\ ValidChain(Tip)
      /\ disk.best \in Block /\ ValidChain(disk.best) /\ IsIndexOf(disk, disk.best)
  BY TipFacts DEF WalletInv
<1>2. ValidChain(Tip')
  BY DEF ChainInv, IndexOk, Holds
<1>3. pc # "reorganize" => Tip = disk.best
  BY DEF Tip
<1>4. pc' # "reorganize" => Tip' = disk'.best
  BY DEF Tip
<1>5. ASSUME UNCHANGED coins, Tip' = Tip, disk'.best = disk.best \/ disk'.best = Tip
      PROVE  Fits(wallet', reaccept', cut', Tip', disk'.best)
  BY <1>1, <1>5 DEF Fits, coins, history
<1>6. ASSUME UNCHANGED coins, pc # "reorganize", pc' # "reorganize", disk' = disk
      PROVE  Fits(wallet', reaccept', cut', Tip', disk'.best)
  BY <1>3, <1>4, <1>5, <1>6
<1>7. CASE UNCHANGED <<vars, coins>>
  <2>1. Tip' = Tip /\ disk' = disk
    BY <1>7 DEF vars, branches, Tip, Base
  <2> QED BY <1>5, <1>7, <2>1
<1>8. CASE ConnectStep
  <2>1. UNCHANGED <<reaccept, cut>>
    BY <1>8 DEF ConnectStep, history
  <2>2. ASSUME NEW C, NEW b \in Block \ {Genesis}, Pprev[b] = Tip, Tip' = b,
               disk'.best = disk.best \/ disk'.best = b, wallet' = SyncConnect(wallet, b, C)
        PROVE  Fits(wallet', reaccept', cut', Tip', disk'.best)
    BY <1>1, <1>2, <2>1, <2>2, ConnectFits
  <2>3. PICK C \in SUBSET Projects :
            \/ Extend /\ wallet' = SyncConnect(wallet, pindexNew, C)
            \/ ReorganizeConnect /\ wallet' = SyncConnect(wallet, ToConnect, C)
            \/ ConnectSecondary /\ wallet' = SyncConnect(wallet, Head(vpindexSecondary), C)
    BY <1>8 DEF ConnectStep
  <2>4. CASE Extend /\ wallet' = SyncConnect(wallet, pindexNew, C)
    BY <2>2, <2>4, TipMoves
  <2>5. CASE ReorganizeConnect /\ wallet' = SyncConnect(wallet, ToConnect, C)
    BY <2>2, <2>5, TipMoves
  <2>6. CASE ConnectSecondary /\ wallet' = SyncConnect(wallet, Head(vpindexSecondary), C)
    BY <2>2, <2>6, TipMoves
  <2> QED BY <2>3, <2>4, <2>5, <2>6
<1>17. CASE DisconnectStep
  <2>1. UNCHANGED <<reaccept, cut>>
    BY <1>17 DEF DisconnectStep, history
  <2>2. /\ Tip \in Block \ {Genesis} /\ Tip' = Pprev[Tip] /\ disk' = disk
        /\ wallet' = SyncDisconnect(wallet, Tip)
    BY <1>17, TipMoves DEF DisconnectStep
  <2> QED BY <1>1, <2>1, <2>2, DisconnectedFits
<1>9. CASE QuietStep
  <2>1. UNCHANGED coins
    BY <1>9 DEF QuietStep
  <2>2. CASE SetBestChain
    <3>1. pc = "begin" /\ disk' = disk /\ done' = done /\ done = 0
      BY <2>2 DEF SetBestChain, Located
    <3>2. pc' = "reorganize" => Tip' = disk'.best
      BY <3>1 DEF TypeOK, ChainInv, BranchesOk, Falls, Tip, Base
    <3> QED BY <1>3, <1>4, <1>5, <2>1, <3>1, <3>2
  <2>3. CASE ReorganizeCommit
    <3>1. /\ pc = "reorganize" /\ pc' = "pool" /\ vConnect # <<>>
          /\ done = Len(vDisconnect) + Len(vConnect)
          /\ disk'.best = vConnect[Len(vConnect)]
          /\ Len(vDisconnect) \in Nat /\ Len(vConnect) \in Nat /\ Len(vConnect) # 0
      BY <2>3 DEF ReorganizeCommit, ReorganizedTo, ChainInv, BranchesOk, TypeOK, TxDB
    <3>2. Tip = vConnect[Len(vConnect)]
      BY <3>1 DEF Tip
    <3> QED BY <1>4, <1>5, <2>1, <3>1, <3>2
  <2>4. CASE ExtendFails \/ SecondaryFails \/ SetBestChainDone
    BY <1>6, <2>1, <2>4 DEF ExtendFails, SecondaryFails, SetBestChainDone, Secondary,
                            NewBest, Return
  <2>5. CASE Resurrect \/ DeleteRedundant
    BY <1>6, <2>1, <2>5 DEF Resurrect, DeleteRedundant
  <2>6. CASE \E b \in Block \ {Genesis} : AddToBlockIndex(b)
    BY <1>6, <2>1, <2>6 DEF AddToBlockIndex
  <2>7. CASE \E c \in Checkpoint : EnforceCheckpoint(c)
    BY <1>6, <2>1, <2>7 DEF EnforceCheckpoint
  <2> QED BY <1>9, <2>2, <2>3, <2>4, <2>5, <2>6, <2>7 DEF QuietStep
<1>10. CASE Abort
  <2>1. /\ pc = "reorganize" /\ pc' = "idle" /\ disk' = disk
        /\ UNCHANGED <<wallet, reaccept>> /\ cut' = IF done > 0 THEN "aborted" ELSE cut
    BY <1>10 DEF Abort, ReorganizeFails, Disconnecting, Connecting, Return
  <2>2. CASE done = 0
    <3>1. Tip = disk.best
      BY <2>1, <2>2, TipAtStart DEF ChainInv
    <3> QED BY <1>4, <1>5, <2>1, <2>2, <3>1 DEF coins, history
  <2>3. CASE done # 0
    <3>1. cut' = "aborted"
      BY <2>1, <2>3 DEF TypeOK
    <3> QED BY <1>1, <1>4, <2>1, <3>1 DEF Fits
  <2> QED BY <2>2, <2>3
<1>11. CASE \E t \in Signed : CommitTransaction(t)
  <2>1. PICK t \in Signed : CommitTransaction(t)
    BY <1>11
  <2> DEFINE v == AddToWallet(wallet, t, NoBlock)
  <2>2. t \in Tx \ CoinStake /\ FlagsOk(wallet)
    BY <1>1, WalletAssumption DEF Minted, Fits
  <2>3. Grows(wallet, v)
    BY <2>2, LooseGrows
  <2>4. wallet' = [v EXCEPT !.spent = @ \cup Vin[t], !.vtxPrev[t] = Copies(t)]
        /\ UNCHANGED <<pc, disk, vDisconnect, vConnect, done, reaccept, cut>>
    BY <2>1 DEF CommitTransaction, branches, history
  <2>5. \A o \in Vin[t] : o \in Mine /\ o[1] \in wallet.known
    BY <2>1 DEF CommitTransaction, CanSend, AvailableCoins
  <2>6. Copies(t) \in SUBSET (Tx \X (Block \cup {NoBlock}))
    <3>1. disk.pos \in [Tx -> Block \cup {NotIndexed}]
          /\ wallet.hashBlock \in [Tx -> Block \cup {NoBlock}]
      BY <2>2 DEF TypeOK, TxDB, FlagsOk, Wallets
    <3>2. RestsOn(t) \subseteq Tx
      BY DEF RestsOn
    <3> QED BY <3>1, <3>2 DEF Copies
  <2>7. t \in v.known
    BY <2>2, AddLooseIs DEF FlagsOk
  <2> HIDE DEF v
  <2>8. Grows(wallet, wallet')
    <3>1. v \in Wallets /\ wallet.known \subseteq v.known
      BY <2>3 DEF Grows, FlagsOk
    <3>2. /\ wallet'.known = v.known /\ wallet'.hashBlock = v.hashBlock
          /\ wallet'.spent = v.spent \cup Vin[t] /\ wallet' \in Wallets
      BY <2>2, <2>4, <2>5, <2>6, <3>1 DEF Wallets
    <3>3. FlagsOk(wallet')
      BY <2>3, <2>5, <3>1, <3>2 DEF Grows, FlagsOk
    <3> QED BY <2>2, <2>3, <2>7, <3>2, <3>3 DEF Grows
  <2>9. Tip' = Tip
    BY <2>4 DEF Tip, Base
  <2> QED BY <1>1, <2>4, <2>8, <2>9, GrownFits
<1>12. CASE \E t \in Relayed : ReceiveTx(t)
  <2>1. PICK t \in Relayed : ReceiveTx(t)
    BY <1>12
  <2>2. t \in Tx \ CoinStake /\ FlagsOk(wallet)
    BY <1>1, <2>1, WalletAssumption
       DEF ReceiveTx, AcceptToMemoryPool, Acceptable, PreAccept, Minted, Fits
  <2>3. PICK C : wallet' = AddToWalletIfInvolvingMe(wallet, t, NoBlock, TRUE, C)
        /\ UNCHANGED <<pc, disk, vDisconnect, vConnect, done, reaccept, cut>>
    BY <2>1 DEF ReceiveTx, AcceptToMemoryPool, branches, history
  <2>4. Grows(wallet, wallet')
    BY <2>2, <2>3, LooseGrows
  <2>5. Tip' = Tip
    BY <2>3 DEF Tip, Base
  <2> QED BY <1>1, <2>3, <2>4, <2>5, GrownFits
<1>13. CASE \E t \in Relayed : ReceiveOrphanTx(t)
  BY <1>6, <1>13 DEF ReceiveOrphanTx, AcceptToMemoryPool
<1>14. CASE FixSpentCoins
  <2> DEFINE D == {o \in Mine : o[1] \in wallet.known /\ disk.pos[o[1]] # NotIndexed}
  <2>1. /\ pc = "idle" /\ UNCHANGED <<pc, disk, reaccept, cut>>
        /\ wallet' = [wallet EXCEPT !.spent = (@ \ D) \cup (D \cap disk.spent)]
    BY <1>14 DEF FixSpentCoins, vars, history
  <2>2. Tip = disk.best /\ Tip' = disk.best
    BY <1>3, <1>4, <2>1
  <2> HIDE DEF D
  <2>3. D = {o \in Mine : o[1] \in wallet.known /\ disk.pos[o[1]] # NotIndexed}
    BY DEF D
  <2>4. Fits(wallet, reaccept, cut, disk.best, disk.best)
    BY <1>1, <2>2
  <2>5. Fits(wallet', reaccept, cut, disk.best, disk.best)
    BY <1>1, <2>1, <2>3, <2>4, RepairedFits
  <2> QED BY <2>1, <2>2, <2>5
<1>15. CASE \E fRescan \in BOOLEAN : Restart(fRescan)
  <2>1. PICK fRescan \in BOOLEAN : Restart(fRescan)
    BY <1>15
  <2>2. pc' = "idle" /\ disk' = disk /\ reaccept' = TRUE /\ Tip' = disk.best
    BY <1>4, <2>1 DEF Restart, CrashAndLoadBlockIndex, Return
  <2>3. CASE fRescan
    <3>1. PICK C : wallet' = Scan(wallet, disk.best, TRUE, C) /\ cut' = "no"
      BY <2>1, <2>3 DEF Restart
    <3>2. FlagsOk(wallet)
      BY <1>1 DEF Fits
    <3> QED BY <1>1, <2>2, <3>1, <3>2, ScannedFits
  <2>4. CASE ~fRescan
    <3>1. wallet' = wallet
          /\ cut' = IF cut # "no" \/ (pc = "reorganize" /\ done > 0) THEN "crashed" ELSE "no"
      BY <2>1, <2>4 DEF Restart
    <3>2. cut' = "no" => cut = "no" /\ Tip = disk.best
      BY <1>3, <3>1, TipAtStart DEF ChainInv, TypeOK
    <3> QED BY <1>1, <2>2, <3>1, <3>2 DEF Fits
  <2> QED BY <2>3, <2>4
<1>16. CASE Reaccept
  <2> DEFINE missed == {o \in (Mine \cap disk.spent) \ wallet.spent :
                            /\ o[1] \in {t \in wallet.known : ~PassedOver(t)}
                            /\ disk.pos[o[1]] # NotIndexed}
             u == [wallet EXCEPT !.spent = @ \cup missed]
  <2>1. PICK C :
        /\ pc = "idle" /\ UNCHANGED <<pc, disk, cut>> /\ reaccept' \in BOOLEAN
        /\ wallet' = IF missed = {} THEN wallet ELSE Scan(u, disk.best, FALSE, C)
    BY <1>16 DEF Reaccept
  <2>2. Tip = disk.best /\ Tip' = disk.best
    BY <1>3, <1>4, <2>1
  <2>3. Fits(wallet, reaccept, cut, disk.best, disk.best) /\ wallet \in Wallets
    BY <1>1, <2>2 DEF Fits, FlagsOk
  <2>4. missed \subseteq {o \in Mine \cap disk.spent : o[1] \in wallet.known}
    OBVIOUS
  <2>5. ASSUME NEW o \in (Mine \cap disk.spent) \ ZeroValue, o[1] \in wallet.known
        PROVE  o \in wallet.spent \cup missed \/ Minted(o[1])
    <3>1. disk.pos[o[1]] # NotIndexed
      BY <1>1, IndexSays
    <3>2. PassedOver(o[1]) => Minted(o[1])
      BY DEF PassedOver, Minted
    <3> QED BY <2>5, <3>1, <3>2
  <2>6. /\ u \in Wallets /\ u.known = wallet.known /\ u.hashBlock = wallet.hashBlock
        /\ u.spent = wallet.spent \cup missed
    BY <2>3, <2>4 DEF Wallets
  <2> HIDE DEF missed, u
  <2>7. Fits(u, FALSE, cut, disk.best, disk.best)
    BY <1>1, <2>3, <2>4, <2>5, <2>6, MissedFits
  <2>8. missed = {} => Fits(wallet, FALSE, cut, disk.best, disk.best)
    <3>1. missed = {} => wallet.spent = wallet.spent \cup missed
      OBVIOUS
    <3> QED BY <1>1, <2>3, <2>4, <2>5, <3>1, MissedFits
  <2>9. Fits(Scan(u, disk.best, FALSE, C), FALSE, cut, disk.best, disk.best)
    BY <1>1, <2>7, RescannedFits
  <2>10. Fits(wallet', FALSE, cut, disk.best, disk.best)
    BY <2>1, <2>8, <2>9
  <2>11. Fits(wallet', reaccept', cut, disk.best, disk.best)
    BY <2>1, <2>10 DEF Fits
  <2> QED BY <2>1, <2>2, <2>11
<1> QED BY <1>7, <1>8, <1>9, <1>10, <1>11, <1>12, <1>13, <1>14, <1>15, <1>16, <1>17 DEF WalletNext

-----------------------------------------------------------------------------
(* The invariants of the chain and of the wallet, together.                 *)
LEMMA WalletHolds == WalletSpec => [](TypeOK /\ Located /\ ChainInv /\ WalletInv)
<1> DEFINE Inv == TypeOK /\ Located /\ ChainInv /\ WalletInv
<1>1. WalletInit => Inv
  BY ShapeInit, ChainInvInit, WalletInvInit DEF WalletInit
<1>2. Inv /\ [WalletNext /\ StartsConnected']_<<vars, coins>> => Inv'
  <2> SUFFICES ASSUME Inv, [WalletNext /\ StartsConnected']_<<vars, coins>> PROVE Inv'
    OBVIOUS
  <2>1. TypeOK' /\ Located' /\ ChainInv' /\ PoolConsistent'
    <3>1. PoolConsistent /\ FlagsOk(wallet)
      BY DEF WalletInv, PoolConsistent, Fits
    <3> QED BY <3>1, WalletChainStep
  <2>2. WalletInv'
    BY <2>1, WalletInvStep
  <2> QED BY <2>1, <2>2
<1> QED BY <1>1, <1>2, PTL DEF WalletSpec

(* The shape of the wallet: flags and blocks belong to transactions it      *)
(* knows, whatever blocks, peers and the user hand it.                      *)
THEOREM WalletTypeCorrect == WalletSpec => []WalletTypeOK
<1>1. WalletInv => WalletTypeOK
  BY DEF WalletInv, Fits, FlagsOk, Wallets, WalletTypeOK
<1> QED BY <1>1, WalletHolds, PTL

(* Every output of the wallet that the best chain has spent is flagged,     *)
(* for every block tree and every order of connected and abandoned blocks;  *)
(* after a crash in a reorganisation, minted outputs apart.                 *)
THEOREM SpendsMarked == WalletSpec => []ConfirmedSpendsMarked
<1>1. TypeOK /\ ChainInv /\ WalletInv => ConfirmedSpendsMarked
  <2> SUFFICES ASSUME TypeOK, ChainInv, WalletInv, Settled, cut # "aborted",
                      NEW o \in (Mine \cap disk.spent) \ ZeroValue
               PROVE  o \in wallet.spent \/ (cut = "crashed" /\ Minted(o[1]))
    BY DEF ConfirmedSpendsMarked
  <2>1. Fits(wallet, FALSE, cut, disk.best, disk.best)
    BY DEF WalletInv, Fits, Settled, Tip
  <2>2. PICK t \in ChainTxs(disk.best) : o \in Vin[t]
    BY TipFacts, IndexSays
  <2>3. CASE cut = "no"
    BY <2>1, <2>2, <2>3 DEF Fits, Marks
  <2>4. CASE cut = "crashed"
    BY <2>1, <2>2, <2>4 DEF Fits, Marks
  <2> QED BY <2>1, <2>3, <2>4 DEF Fits
<1> QED BY <1>1, WalletHolds, PTL

(* A transaction of the chain is in the block the wallet believes it in.    *)
LEMMA PlacedRight ==
    ASSUME TypeOK, ChainInv, WalletInv, pc = "idle", cut = "no",
           NEW t \in ChainTxs(disk.best), Involves(t)
    PROVE  /\ t \in wallet.known /\ wallet.hashBlock[t] = disk.pos[t]
           /\ disk.pos[t] \in Ancestors[disk.best]
<1>1. /\ FlagsOk(wallet) /\ t \in wallet.known
      /\ wallet.hashBlock[t] \in Ancestors[disk.best]
  BY DEF WalletInv, Fits, Tip, Knows, Places
<1>2. t \in Tx /\ wallet.hashBlock[t] # NoBlock
  BY <1>1, TipFacts, ChainTxsOf, BlockTreeAssumption
<1>3. t \in TxsOf(wallet.hashBlock[t]) /\ wallet.hashBlock[t] # Genesis
  BY <1>1, <1>2 DEF FlagsOk
<1> QED BY <1>1, <1>3, TipFacts DEF IsIndexOf

(* Every transaction of the best chain that pays the wallet value, or       *)
(* passes IsMine otherwise, or takes value from it is in it, under its      *)
(* block, unless a reorganisation was given up.                             *)
THEOREM AllRecorded == WalletSpec => []ConfirmedRecorded
<1>1. TypeOK /\ ChainInv /\ WalletInv => ConfirmedRecorded
  <2> SUFFICES ASSUME TypeOK, ChainInv, WalletInv, Settled, cut = "no",
                      NEW t \in Tx, disk.pos[t] # NotIndexed, Involves(t)
               PROVE  t \in wallet.known /\ wallet.hashBlock[t] = disk.pos[t]
    <3>1. \A x \in Tx : (Outs(x) \cap Mine) \ ZeroValue # {} => IsMine(x)
      BY DEF IsMine
    <3> QED BY <3>1 DEF ConfirmedRecorded, Involves
  <2>1. t \in ChainTxs(disk.best)
    BY TipFacts DEF IsIndexOf
  <2> QED BY <2>1, PlacedRight DEF Settled
<1> QED BY <1>1, WalletHolds, PTL

(* Every flag has its reason: a flagged output of value on the best chain   *)
(* is spent there, or by a recorded transaction that is no coinstake, for   *)
(* every block tree and every order of connected and abandoned blocks.      *)
THEOREM CoinsAccounted == WalletSpec => []FlagsExplained
<1>1. TypeOK /\ ChainInv /\ WalletInv => FlagsExplained
  <2> SUFFICES ASSUME TypeOK, ChainInv, WalletInv, Settled, cut = "no",
                      NEW o \in wallet.spent \ ZeroValue, disk.pos[o[1]] # NotIndexed
               PROVE  o \in disk.spent \/ \E t \in wallet.known \ CoinStake : o \in Vin[t]
    BY DEF FlagsExplained
  <2>1. FlagsOk(wallet) /\ Accounts(wallet, ChainTxs(disk.best))
    BY DEF WalletInv, Fits, Settled, Tip
  <2>2. o \in Mine
    BY <2>1 DEF FlagsOk, Wallets
  <2>3. o[1] \in ChainTxs(disk.best)
    BY <2>2, TipFacts, IndexSays
  <2>4. (\E t \in ChainTxs(disk.best) : o \in Vin[t])
        \/ \E t \in wallet.known \ CoinStake : o \in Vin[t]
    BY <2>1, <2>3 DEF Accounts
  <2> QED BY <2>2, <2>4, TipFacts, IndexSays
<1> QED BY <1>1, WalletHolds, PTL

(* Where the wallet finds a block in the main chain, it is there.           *)
LEMMA MainChainIs ==
    ASSUME TypeOK, ChainInv, pindexBest = disk.best, NEW b \in Block \cup {NoBlock}
    PROVE  IsInMainChain(b) => b \in Ancestors[disk.best] /\ Height[b] \in Nat
                               /\ Height[b] <= Height[disk.best] /\ Height[disk.best] \in Nat
<1> SUFFICES ASSUME IsInMainChain(b)
             PROVE  b \in Ancestors[disk.best] /\ Height[b] \in Nat
                    /\ Height[b] <= Height[disk.best] /\ Height[disk.best] \in Nat
  OBVIOUS
<1>1. disk.best \in Block /\ pnext \in [Block -> Block \cup {NoBlock}]
      /\ LeadsTo(pnext, disk.best) /\ Forward(pnext)
  BY DEF TypeOK, TxDB, ChainInv, IndexOk
<1>2. b \in Block /\ (pnext[b] # NoBlock \/ b = disk.best)
  BY DEF IsInMainChain
<1>3. b \in Ancestors[disk.best]
  BY <1>1, <1>2, LinksDetermined, SelfAncestor
<1> QED BY <1>1, <1>3, AncestorsTransitive, BlockTreeAssumption

(* A coin the wallet offers is on the chain or in the pool; if it is on the *)
(* chain it is unspent there, and mature.                                   *)
LEMMA AvailableIs ==
    ASSUME TypeOK, ChainInv, WalletInv, Settled, cut = "no", pindexBest = disk.best,
           NEW o \in AvailableCoins
    PROVE  /\ o \in Mine \ ZeroValue /\ o \notin disk.spent
           /\ disk.pos[o[1]] # NotIndexed \/ o[1] \in mempool.mapTx
           /\ Minted(o[1]) => disk.pos[o[1]] \notin Recent(pindexBest)
<1> DEFINE t == o[1]
           h == wallet.hashBlock[t]
<1>1. /\ o \in Mine \ ZeroValue /\ o \notin wallet.spent /\ t \in wallet.known /\ IsTrusted(t)
      /\ Minted(t) => Depth(t, h) >= CoinbaseMaturity + MaturityMargin
  BY DEF AvailableCoins
<1>2. /\ FlagsOk(wallet) /\ Marks(wallet, ChainTxs(disk.best), {}) /\ t \in Tx
      /\ disk.best \in Block
  BY <1>1, MineIs, TipFacts DEF WalletInv, Fits, Settled, Tip
<1>3. h \in Block \cup {NoBlock}
      /\ (h # NoBlock => h # Genesis /\ t \in TxsOf(h))
  BY <1>2 DEF FlagsOk, Wallets
<1> HIDE DEF h, t
<1>4. o \notin disk.spent
  <2> SUFFICES ASSUME o \in disk.spent PROVE FALSE
    OBVIOUS
  <2>1. PICK u \in ChainTxs(disk.best) : o \in Vin[u]
    BY <1>1, TipFacts, IndexSays
  <2> QED BY <1>1, <1>2, <2>1 DEF Marks
<1>5. IsInMainChain(h) => /\ disk.pos[t] = h /\ h \in Block
                          /\ Depth(t, h) = Height[disk.best] - Height[h] + 1
                          /\ Height[h] \in Nat /\ Height[h] <= Height[disk.best]
                          /\ Height[disk.best] \in Nat
  <2> SUFFICES ASSUME IsInMainChain(h)
               PROVE  disk.pos[t] = h /\ h \in Block
    BY <1>3, MainChainIs DEF Depth
  <2>1. h \in Ancestors[disk.best] /\ h # NoBlock /\ h \in Block
    BY <1>3, MainChainIs DEF IsInMainChain
  <2> QED BY <1>3, <2>1, TipFacts DEF IsIndexOf
<1>6. ~IsInMainChain(h) => Depth(t, h) = IF t \in mempool.mapTx THEN 0 ELSE -1
  BY DEF Depth
<1>7. disk.pos[t] # NotIndexed \/ t \in mempool.mapTx
  <2>1. Depth(t, h) >= 1 \/ Depth(t, h) = 0
    BY <1>1 DEF IsTrusted, h, t
  <2>2. CASE IsInMainChain(h)
    BY <1>5, <2>2, ChainAssumption
  <2>3. CASE ~IsInMainChain(h)
    BY <1>6, <2>1, <2>3
  <2> QED BY <2>2, <2>3
<1>8. ASSUME Minted(t), disk.pos[t] \in Recent(pindexBest) PROVE FALSE
  <2>1. Depth(t, h) >= CoinbaseMaturity + MaturityMargin
        /\ CoinbaseMaturity \in Nat /\ MaturityMargin \in Nat \ {0}
    BY <1>1, <1>8, WalletAssumption, ChainAssumption
  <2>2. IsInMainChain(h)
    BY <1>6, <2>1
  <2>3. disk.pos[t] = h /\ Height[disk.best] - Height[h] < CoinbaseMaturity
    BY <1>5, <1>8, <2>2 DEF Recent
  <2> QED BY <1>5, <2>1, <2>2, <2>3
<1> QED BY <1>1, <1>4, <1>7, <1>8 DEF t

(* What the wallet lets the user send is refused by the pool only because a *)
(* pooled transaction spends the same coin, for every chain and every       *)
(* margin of at least one block: the wallet's depth counts the block of the *)
(* coin, ConnectInputs does not, so without a margin it would be too early. *)
THEOREM SendableAccepted == WalletSpec => []RefusedByPoolOnly
<1>1. TypeOK /\ ChainInv /\ WalletInv => RefusedByPoolOnly
  <2> SUFFICES ASSUME TypeOK, ChainInv, WalletInv, Settled, cut = "no", pindexBest = disk.best,
                      NEW t \in Signed \ Unfit, CanSend(t),
                      Vin[t] \cap DOMAIN mempool.mapNextTx = {}
               PROVE  Acceptable(mempool, disk, t, Recent(pindexBest))
    BY DEF RefusedByPoolOnly
  <2>1. t \in Tx /\ ~Minted(t) /\ Vin[t] # {}
    BY WalletAssumption DEF Minted, IsCoinBase
  <2>2. t \notin wallet.known /\ Vin[t] \subseteq AvailableCoins
    BY DEF CanSend
  <2>3. \A o \in Vin[t] :
          /\ o \in Mine \ ZeroValue /\ o \notin disk.spent
          /\ disk.pos[o[1]] # NotIndexed \/ o[1] \in mempool.mapTx
          /\ Minted(o[1]) => disk.pos[o[1]] \notin Recent(pindexBest)
    BY <2>2, AvailableIs
  <2>4. t \notin mempool.mapTx
    BY <2>1 DEF WalletInv, PoolAgrees
  <2>5. disk.pos[t] = NotIndexed
    <3> SUFFICES ASSUME disk.pos[t] # NotIndexed PROVE FALSE
      OBVIOUS
    <3>1. Involves(t) /\ t \in ChainTxs(disk.best)
      BY <2>1, <2>3, TipFacts DEF Involves, IsIndexOf
    <3> QED BY <2>2, <3>1, PlacedRight DEF Settled
  <2>6. InRange(t)
    <3>1. \A o \in Mine : o \in Outs(o[1]) /\ o[1] \in Tx
      BY MineIs
    <3>2. \A o \in Mine : o[2] < NOut[o[1]]
      BY <3>1, TransactionsAssumption DEF Outs
    <3> QED BY <2>3, <3>2 DEF InRange
  <2> QED BY <2>1, <2>3, <2>4, <2>5, <2>6 DEF Acceptable, PreAccept, MissingInputs
<1> QED BY <1>1, WalletHolds, PTL

=============================================================================
