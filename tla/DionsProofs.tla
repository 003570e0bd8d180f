---------------------------- MODULE DionsProofs ----------------------------
(***************************************************************************)
(* Theorems about the naming layer, for every universe of alias             *)
(* transactions and every number of blocks, reorganisations and restarts:   *)
(* what filter() and the scans write is who holds each name, the node's own *)
(* block takes no name in use from its holder, and what is pending is in    *)
(* the pool.                                                                *)
(***************************************************************************)
EXTENDS Dions, WellFoundedInduction, TLAPS

-----------------------------------------------------------------------------
(* Induction on a counter, in the form the provers can use: over the set of *)
(* the numbers that have the property.  With it, what a loop that is        *)
(* written as a recursive function computes.                                *)

(* A set of natural numbers that is not empty has a least element.          *)
LEMMA LeastNat ==
    ASSUME NEW T, T \subseteq Nat, T # {}
    PROVE  \E n \in T : \A m \in T : n <= m
<1> DEFINE R == OpToRel(<, Nat)
<1>1. IsWellFoundedOn(R, Nat)
  BY NatLessThanWellFounded
<1>2. \A x, y \in Nat : <<y, x>> \in R <=> y < x
  BY DEF OpToRel
<1> HIDE DEF R
<1>3. PICK x \in T : \A y \in T : ~(<<y, x>> \in R)
  BY <1>1, WFMin
<1>4. \A y \in T : ~(y < x)
  BY <1>2, <1>3
<1> QED BY <1>4

(* A property of 0 that passes from each number to the next.                *)
LEMMA UpTo ==
    ASSUME NEW L \in Nat, NEW T, 0 \in T, \A n \in 0 .. L - 1 : n \in T => n + 1 \in T
    PROVE  0 .. L \subseteq T
<1> DEFINE R == {n \in 0 .. L : n \notin T}
<1>1. ASSUME R # {} PROVE FALSE
  <2>1. PICK n \in R : \A m \in R : n <= m
    <3>1. R \subseteq Nat
      OBVIOUS
    <3> HIDE DEF R
    <3> QED BY <1>1, <3>1, LeastNat
  <2>2. n # 0 /\ n - 1 \in 0 .. L - 1 /\ ~(n <= n - 1) /\ (n - 1) + 1 = n
    BY <2>1
  <2>3. n - 1 \in 0 .. L
    BY <2>2
  <2> QED BY <2>1, <2>2, <2>3
<1> QED BY <1>1

(* A loop of L rounds that applies F to its state, a member of W, and its   *)
(* counter; g is the states it goes through from w.                         *)
Loop(W, F, L) == L \in Nat /\ \A v \in W : \A n \in 1 .. L : F[<<v, n>>] \in W
Goes(g, W, F, L, w) ==
    /\ g \in [0 .. L -> W]
    /\ g[0] = w /\ \A n \in 1 .. L : g[n] = F[<<g[n - 1], n>>]

(* A loop runs to the end.                                                  *)
LEMMA LoopRuns ==
    ASSUME NEW W, NEW F, NEW L, Loop(W, F, L), NEW w \in W
    PROVE  \E g : Goes(g, W, F, L, w)
<1> USE DEF Loop
<1> DEFINE Run(g, m) == g[0] = w /\ \A n \in 1 .. m : g[n] = F[<<g[n - 1], n>>]
           T == {m \in 0 .. L : \E g \in [0 .. m -> W] : Run(g, m)}
<1>1. 0 \in T
  <2>1. [i \in 0 .. 0 |-> w] \in [0 .. 0 -> W] /\ Run([i \in 0 .. 0 |-> w], 0)
    OBVIOUS
  <2>2. 0 \in 0 .. L
    OBVIOUS
  <2> HIDE DEF Run
  <2> QED BY <2>1, <2>2
<1>2. ASSUME NEW m \in 0 .. L - 1, m \in T PROVE m + 1 \in T
  <2>1. PICK g \in [0 .. m -> W] : Run(g, m)
    BY <1>2
  <2> DEFINE h == [i \in 0 .. m + 1 |-> IF i = m + 1 THEN F[<<g[m], m + 1>>] ELSE g[i]]
  <2>2. g[m] \in W /\ m + 1 \in 1 .. L
    BY <1>2
  <2>3. h \in [0 .. m + 1 -> W]
    BY <2>2
  <2>4. ASSUME NEW n \in 1 .. m + 1 PROVE h[n] = F[<<h[n - 1], n>>]
    <3>1. CASE n = m + 1
      BY <3>1
    <3>2. CASE n \in 1 .. m
      BY <2>1, <3>2
    <3> QED BY <3>1, <3>2
  <2>5. h[0] = w
    BY <2>1
  <2>6. Run(h, m + 1)
    BY <2>4, <2>5
  <2>7. m + 1 \in 0 .. L
    BY <1>2
  <2> HIDE DEF h, Run
  <2> QED BY <2>3, <2>6, <2>7
<1>3. L \in T
  <2> HIDE DEF T
  <2>1. 0 .. L \subseteq T
    BY <1>1, <1>2, UpTo
  <2> QED BY <2>1
<1> QED BY <1>3 DEF Goes

(* Whatever satisfies the equations of a loop is what the loop goes through.*)
LEMMA LoopIs ==
    ASSUME NEW W, NEW F, NEW L, Loop(W, F, L), NEW w \in W, NEW h,
           h = [n \in 0 .. L |-> h[n]], h[0] = w,
           \A n \in 1 .. L : h[n - 1] \in W => h[n] = F[<<h[n - 1], n>>]
    PROVE  Goes(h, W, F, L, w)
<1> DEFINE T == {n \in 0 .. L : h[n] \in W}
<1>1. L \in Nat
  BY DEF Loop
<1>2. 0 \in T
  BY <1>1
<1>3. ASSUME NEW n \in 0 .. L - 1, n \in T PROVE n + 1 \in T
  <2>1. n + 1 \in 1 .. L /\ (n + 1) - 1 = n /\ n + 1 \in 0 .. L
    BY <1>1
  <2> QED BY <1>3, <2>1 DEF Loop
<1>4. 0 .. L \subseteq T
  <2> HIDE DEF T
  <2> QED BY <1>1, <1>2, <1>3, UpTo
<1>5. \A n \in 0 .. L : h[n] \in W
  BY <1>4
<1>6. \A n \in 1 .. L : n - 1 \in 0 .. L
  BY <1>1
<1>7. h \in [0 .. L -> W]
  BY <1>5
<1> QED BY <1>5, <1>6, <1>7 DEF Goes

-----------------------------------------------------------------------------
(* The first and the last of some places in a sequence.                     *)
LEMMA MinIs ==
    ASSUME NEW S, S \subseteq Nat, S # {}
    PROVE  Min(S) \in S /\ \A i \in S : Min(S) <= i
<1>1. \E n \in S : \A m \in S : n <= m
  BY LeastNat
<1> QED BY <1>1 DEF Min

(* The last of some places.                                                 *)
LEMMA MaxIs ==
    ASSUME NEW L \in Nat, NEW S, S \subseteq 1 .. L, S # {}
    PROVE  Max(S) \in S /\ \A i \in S : i <= Max(S)
<1> DEFINE T == {L - i : i \in S}
<1>1. T \subseteq Nat /\ T # {}
  <2>1. \A i \in S : L - i \in Nat
    OBVIOUS
  <2> QED BY <2>1
<1>2. PICK n \in T : \A m \in T : n <= m
  <2> HIDE DEF T
  <2> QED BY <1>1, LeastNat
<1>3. PICK i \in S : n = L - i
  BY <1>2
<1>4. \A j \in S : L - i <= L - j
  BY <1>2, <1>3
<1>5. \A j \in S : i >= j
  BY <1>4
<1>6. Max(S) \in S /\ \A j \in S : Max(S) >= j
  BY <1>3, <1>5 DEF Max
<1> QED BY <1>6

-----------------------------------------------------------------------------
(* What is known of any chain of blocks that ConnectBlock has accepted: a   *)
(* transaction is in one block only; an OP_ALIAS_RELAY spends an operation  *)
(* on the same name in a block below its own, or before it in its own; the  *)
(* first block holds registrations only.                                    *)
Entry == [tx : Tx, nHeight : Nat, id : Nat]
Block == [id : Nat, txs : Seq(Tx)]
Maybe == Entry \cup {NoEntry}
Index == [Names -> Maybe]

InBlock(c, h) == ToSet(c[h].txs)

(* The transaction at place i of block h, if it is an OP_ALIAS_RELAY.       *)
Carries(c, h, i) ==
    LET t == c[h].txs[i] IN
    Op[t] = "relay" =>
      /\ Prev[t] \in Tx /\ Op[Prev[t]] # "encrypted" /\ Alias[Prev[t]] = Alias[t]
      /\ \/ \E k \in 1 .. h - 1 : Prev[t] \in InBlock(c, k)
         \/ \E j \in 1 .. i - 1 : Prev[t] = c[h].txs[j]

WellMade(c) ==
    /\ c \in Seq(Block)
    /\ \A h, k \in 1 .. Len(c) : InBlock(c, h) \cap InBlock(c, k) # {} => h = k
    /\ \A h \in 1 .. Len(c) : \A i \in 1 .. Len(c[h].txs) : Carries(c, h, i)
    /\ Len(c) > 0 => \A t \in InBlock(c, 1) : Op[t] = "encrypted"


(* A block of a chain and its transactions.                                 *)
LEMMA BlockTxs ==
    ASSUME NEW c \in Seq(Block), NEW h \in 1 .. Len(c)
    PROVE  /\ c[h] \in Block /\ c[h].txs \in Seq(Tx) /\ c[h].id \in Nat
           /\ Len(c[h].txs) \in Nat /\ DOMAIN c[h].txs = 1 .. Len(c[h].txs)
           /\ \A i \in 1 .. Len(c[h].txs) : c[h].txs[i] \in InBlock(c, h) /\ c[h].txs[i] \in Tx
           /\ InBlock(c, h) \subseteq Tx
           /\ \A t \in InBlock(c, h) : \E i \in 1 .. Len(c[h].txs) : t = c[h].txs[i]
<1>1. c[h] \in Block
  OBVIOUS
<1>2. c[h].txs \in Seq(Tx) /\ c[h].id \in Nat
  BY <1>1 DEF Block
<1> QED BY <1>1, <1>2 DEF InBlock, ToSet

(* The transactions of a chain are those of its blocks.                     *)
LEMMA TxsIs ==
    ASSUME NEW c \in Seq(Block), NEW t
    PROVE  t \in Txs(c) <=> \E h \in 1 .. Len(c) : t \in InBlock(c, h)
BY DEF Txs, InBlock

(* The position of a transaction is that of its only block.                 *)
LEMMA PosIs ==
    ASSUME NEW c, WellMade(c), NEW h \in 1 .. Len(c), NEW t \in InBlock(c, h)
    PROVE  /\ HeightOf(c, t) = h
           /\ Pos(c, t) = [tx |-> t, nHeight |-> h, id |-> c[h].id]
           /\ Pos(c, t) \in Entry /\ Pos(c, t) # NoEntry
<1>1. c \in Seq(Block) /\ h \in DOMAIN c /\ DOMAIN c = 1 .. Len(c)
  BY DEF WellMade
<1>2. ASSUME NEW k \in DOMAIN c, t \in ToSet(c[k].txs) PROVE k = h
  <2>1. InBlock(c, h) \cap InBlock(c, k) # {}
    BY <1>2 DEF InBlock
  <2> QED BY <1>1, <2>1 DEF WellMade
<1>3. HeightOf(c, t) = h
  BY <1>1, <1>2 DEF HeightOf, InBlock
<1>4. t \in Tx /\ c[h].id \in Nat
  BY <1>1, BlockTxs
<1> QED BY <1>3, <1>4, DionsAssumption DEF Pos, Entry

(* A chain is well made up to any height.                                   *)
LEMMA PrefixMade ==
    ASSUME NEW c, WellMade(c), NEW h \in 0 .. Len(c)
    PROVE  /\ WellMade(SubSeq(c, 1, h))
           /\ Len(SubSeq(c, 1, h)) = h
           /\ \A k \in 1 .. h : SubSeq(c, 1, h)[k] = c[k]
<1> DEFINE d == SubSeq(c, 1, h)
<1>1. c \in Seq(Block)
  BY DEF WellMade
<1>2. d \in Seq(Block) /\ Len(d) = h /\ \A k \in 1 .. h : d[k] = c[k]
  BY <1>1
<1>3. 1 .. h \subseteq 1 .. Len(c)
  BY <1>1
<1> HIDE DEF d
<1>4. \A k \in 1 .. h : InBlock(d, k) = InBlock(c, k)
  BY <1>2 DEF InBlock
<1>5. ASSUME NEW k \in 1 .. h, NEW i \in 1 .. Len(d[k].txs) PROVE Carries(d, k, i)
  <2>1. d[k] = c[k]
    BY <1>2
  <2>2. Carries(c, k, i)
    BY <1>3, <2>1 DEF WellMade
  <2>3. \A m \in 1 .. k - 1 : m \in 1 .. h
    BY <1>1
  <2> QED BY <1>4, <2>1, <2>2, <2>3 DEF Carries
<1>6. \A k, m \in 1 .. h : InBlock(d, k) \cap InBlock(d, m) # {} => k = m
  BY <1>3, <1>4 DEF WellMade
<1>7. h > 0 => \A t \in InBlock(d, 1) : Op[t] = "encrypted"
  <2> SUFFICES ASSUME h > 0 PROVE \A t \in InBlock(d, 1) : Op[t] = "encrypted"
    OBVIOUS
  <2>1. 1 \in 1 .. h /\ Len(c) > 0
    BY <1>1
  <2> QED BY <1>4, <2>1 DEF WellMade
<1>8. WellMade(d)
  BY <1>2, <1>5, <1>6, <1>7 DEF WellMade
<1> QED BY <1>2, <1>8 DEF d

(* A block that ConnectBlock accepts keeps a chain well made.               *)
LEMMA ConnectedMade ==
    ASSUME NEW c, WellMade(c), Len(c) > 0, NEW s \in Seq(Tx), NEW n \in Nat, Connects(c, s)
    PROVE  WellMade(Append(c, [id |-> n, txs |-> s]))
<1> DEFINE b == [id |-> n, txs |-> s]
           d == Append(c, b)
           L == Len(c)
<1>1. c \in Seq(Block) /\ b \in Block /\ L \in Nat
  BY DEF WellMade, Block
<1>2. d \in Seq(Block) /\ Len(d) = L + 1 /\ d[L + 1] = b /\ \A h \in 1 .. L : d[h] = c[h]
  BY <1>1
<1>3. InBlock(d, L + 1) = ToSet(s) /\ \A h \in 1 .. L : InBlock(d, h) = InBlock(c, h)
  BY <1>2 DEF InBlock
<1>0. DOMAIN s = 1 .. Len(s) /\ Len(s) \in Nat /\ d[L + 1].txs = s
  BY <1>2
<1>4. \A i \in 1 .. Len(s) :
        /\ InputsFit(c, Before(s, i), {}, s[i])
        /\ ConnectInputsPost(Append(c, [id |-> 0, txs |-> SubSeq(s, 1, i - 1)]),
                             s[i], [a \in Names |-> NoEntry], TRUE, FALSE)
  BY DEF Connects, ConnectsUpTo
<1>11. \A t \in ToSet(s) : t \notin Txs(c)
  BY <1>0, <1>4 DEF InputsFit, ToSet
<1>5. \A h \in 1 .. L : InBlock(c, h) \cap ToSet(s) = {}
  BY <1>1, <1>11, TxsIs
<1>6. ASSUME NEW i \in 1 .. Len(s) PROVE Carries(d, L + 1, i)
  <2> DEFINE t == s[i]
  <2> SUFFICES ASSUME Op[t] = "relay"
               PROVE  /\ Prev[t] \in Tx /\ Op[Prev[t]] # "encrypted" /\ Alias[Prev[t]] = Alias[t]
                      /\ \/ \E k \in 1 .. (L + 1) - 1 : Prev[t] \in InBlock(d, k)
                         \/ \E j \in 1 .. i - 1 : Prev[t] = s[j]
    BY <1>0 DEF Carries
  <2>1. Prev[t] # NoTx /\ Op[Prev[t]] \in {"set", "relay"} /\ Alias[Prev[t]] = Alias[t]
    BY <1>4 DEF ConnectInputsPost
  <2>2. t \in Tx
    BY <1>0
  <2>3. Prev[t] \in Tx
    BY <2>1, <2>2, DionsAssumption
  <2>4. Prev[t] \in Txs(c) \/ Prev[t] \in Before(s, i)
    BY <1>4, <2>1 DEF InputsFit
  <2>5. (L + 1) - 1 = L
    BY <1>1
  <2>6. ASSUME Prev[t] \in Txs(c) PROVE \E k \in 1 .. (L + 1) - 1 : Prev[t] \in InBlock(d, k)
    BY <1>1, <1>3, <2>5, <2>6, TxsIs
  <2>7. ASSUME Prev[t] \in Before(s, i) PROVE \E j \in 1 .. i - 1 : Prev[t] = s[j]
    BY <2>7 DEF Before
  <2> QED BY <2>1, <2>3, <2>4, <2>6, <2>7
<1> HIDE DEF b, d, L
<1>7. ASSUME NEW h \in 1 .. L + 1, NEW i \in 1 .. Len(d[h].txs) PROVE Carries(d, h, i)
  <2>1. CASE h = L + 1
    BY <1>0, <1>6, <1>7, <2>1
  <2>2. CASE h \in 1 .. L
    <3>0. d[h] = c[h]
      BY <1>2, <2>2
    <3>1. Carries(c, h, i)
      BY <2>2, <3>0 DEF WellMade, L
    <3>2. \A k \in 1 .. h - 1 : k \in 1 .. L
      BY <1>1, <2>2
    <3> QED BY <1>3, <3>0, <3>1, <3>2 DEF Carries
  <2> QED BY <1>1, <2>1, <2>2
<1>8. ASSUME NEW h \in 1 .. L + 1, NEW k \in 1 .. L + 1, InBlock(d, h) \cap InBlock(d, k) # {}
      PROVE  h = k
  <2>1. CASE h \in 1 .. L /\ k \in 1 .. L
    BY <1>3, <1>8, <2>1 DEF WellMade, L
  <2>2. CASE h = L + 1 \/ k = L + 1
    <3>1. h # k => h \in 1 .. L \/ k \in 1 .. L
      BY <1>1, <2>2
    <3> QED BY <1>3, <1>5, <1>8, <2>2, <3>1
  <2> QED BY <1>1, <2>1, <2>2
<1>9. \A t \in InBlock(d, 1) : Op[t] = "encrypted"
  <2>1. 1 \in 1 .. L
    BY <1>1 DEF L
  <2> QED BY <1>3, <2>1 DEF WellMade, L
<1>10. WellMade(d)
  BY <1>2, <1>7, <1>8, <1>9 DEF WellMade
<1> QED BY <1>10 DEF d, b

-----------------------------------------------------------------------------
(* The operations on a name in a block are places in it.                    *)
LEMMA OnIs ==
    ASSUME NEW c \in Seq(Block), NEW h \in 1 .. Len(c), NEW op, NEW a
    PROVE  /\ On(op, c[h].txs, a) \subseteq 1 .. Len(c[h].txs)
           /\ On(op, c[h].txs, a) \subseteq Nat
           /\ \A i \in On(op, c[h].txs, a) :
                /\ c[h].txs[i] \in InBlock(c, h)
                /\ Op[c[h].txs[i]] = op /\ Alias[c[h].txs[i]] = a
           /\ \A t \in InBlock(c, h) : Op[t] = op /\ Alias[t] = a =>
                On(op, c[h].txs, a) # {}
<1>1. DOMAIN c[h].txs = 1 .. Len(c[h].txs) /\ Len(c[h].txs) \in Nat
  BY BlockTxs
<1>2. \A i \in 1 .. Len(c[h].txs) : i \in Nat /\ c[h].txs[i] \in InBlock(c, h)
  BY <1>1, BlockTxs
<1>3. \A t \in InBlock(c, h) : \E i \in 1 .. Len(c[h].txs) : t = c[h].txs[i]
  BY BlockTxs
<1> QED BY <1>1, <1>2, <1>3 DEF On

(* Whoever holds a name after a block held it before, or is the position of *)
(* an operation on it in the block; a name that is taken stays taken.       *)
LEMMA HolderIs ==
    ASSUME NEW c, WellMade(c), NEW h \in 1 .. Len(c), NEW a, NEW e \in Maybe
    PROVE  LET H == Holder(e, c, h, a) IN
           /\ H \in Maybe
           /\ \/ H = e
              \/ \E t \in InBlock(c, h) :
                   Alias[t] = a /\ Op[t] # "encrypted" /\ H = Pos(c, t)
           /\ e # NoEntry => H # NoEntry
           /\ \A t \in InBlock(c, h) : Alias[t] = a /\ Op[t] # "encrypted" => H # NoEntry
<1> DEFINE txs == c[h].txs
           relays == On("relay", txs, a)
           sets == On("set", txs, a)
           H == Holder(e, c, h, a)
<1>1. c \in Seq(Block) /\ Len(txs) \in Nat
  BY BlockTxs DEF WellMade
<1>2. /\ relays \subseteq 1 .. Len(txs) /\ sets \subseteq Nat
      /\ \A i \in relays : txs[i] \in InBlock(c, h) /\ Op[txs[i]] = "relay" /\ Alias[txs[i]] = a
      /\ \A i \in sets : txs[i] \in InBlock(c, h) /\ Op[txs[i]] = "set" /\ Alias[txs[i]] = a
  <2>1. /\ relays \subseteq 1 .. Len(txs) /\ sets \subseteq Nat
        /\ \A i \in relays \cup sets : txs[i] \in InBlock(c, h)
    BY <1>1, OnIs
  <2> QED BY <2>1 DEF On
<1>3. H = CASE relays # {} -> Pos(c, txs[Max(relays)])
            [] /\ relays = {} /\ sets # {}
               /\ e # NoEntry => h - e.nHeight >= scaleMonitor -> Pos(c, txs[Min(sets)])
            [] OTHER -> e
  BY DEF Holder
<1> HIDE DEF txs, relays, sets, H
<1>4. relays # {} => Max(relays) \in relays
  BY <1>1, <1>2, MaxIs
<1>5. sets # {} => Min(sets) \in sets
  BY <1>2, MinIs
<1>6. \A t \in InBlock(c, h) : Pos(c, t) \in Maybe /\ Pos(c, t) # NoEntry
  BY PosIs DEF Maybe
<1>7. \/ relays # {} /\ H = Pos(c, txs[Max(relays)])
      \/ sets # {} /\ H = Pos(c, txs[Min(sets)])
      \/ H = e /\ (e = NoEntry => sets = {} /\ relays = {})
  BY <1>3
<1>8. ASSUME NEW t \in InBlock(c, h), Alias[t] = a, Op[t] # "encrypted"
      PROVE  sets # {} \/ relays # {}
  <2>1. t \in Tx
    BY <1>1, BlockTxs
  <2>2. Op[t] \in {"set", "relay"}
    BY <1>8, <2>1, DionsAssumption
  <2> QED BY <1>8, <2>2 DEF sets, relays, txs, On, InBlock, ToSet
<1> QED BY <1>2, <1>4, <1>5, <1>6, <1>7, <1>8 DEF H

(* The blocks above do not matter.                                          *)
LEMMA HolderPrefix ==
    ASSUME NEW c, WellMade(c), NEW m \in 0 .. Len(c), NEW h \in 1 .. m, NEW a, NEW e \in Maybe
    PROVE  Holder(e, SubSeq(c, 1, m), h, a) = Holder(e, c, h, a)
<1> DEFINE d == SubSeq(c, 1, m)
           relays == On("relay", c[h].txs, a)
           sets == On("set", c[h].txs, a)
<1>1. WellMade(d) /\ Len(d) = m /\ d[h] = c[h] /\ c \in Seq(Block) /\ h \in 1 .. Len(c)
  BY PrefixMade DEF WellMade
<1> HIDE DEF d
<1>2. ASSUME NEW t \in InBlock(c, h) PROVE Pos(d, t) = Pos(c, t)
  <2>1. t \in InBlock(d, h)
    BY <1>1 DEF InBlock
  <2> QED BY <1>1, <2>1, PosIs
<1>3. relays # {} => c[h].txs[Max(relays)] \in InBlock(c, h)
  <2>1. relays \subseteq 1 .. Len(c[h].txs) /\ Len(c[h].txs) \in Nat
    BY <1>1, OnIs, BlockTxs
  <2>2. \A i \in relays : c[h].txs[i] \in InBlock(c, h)
    BY <1>1, OnIs
  <2> HIDE DEF relays
  <2> QED BY <2>1, <2>2, MaxIs
<1>4. sets # {} => c[h].txs[Min(sets)] \in InBlock(c, h)
  <2>1. sets \subseteq Nat
    BY <1>1, OnIs
  <2>2. \A i \in sets : c[h].txs[i] \in InBlock(c, h)
    BY <1>1, OnIs
  <2> HIDE DEF sets
  <2> QED BY <2>1, <2>2, MinIs
<1>5. /\ relays # {} => Pos(d, c[h].txs[Max(relays)]) = Pos(c, c[h].txs[Max(relays)])
      /\ sets # {} => Pos(d, c[h].txs[Min(sets)]) = Pos(c, c[h].txs[Min(sets)])
  BY <1>2, <1>3, <1>4
<1>6. d[h].txs = c[h].txs
  BY <1>1
<1> QED BY <1>5, <1>6 DEF Holder, d

(* The function Title is computed with.                                     *)
Holders(T, c, a) ==
    /\ T \in [0 .. Len(c) -> Maybe] /\ T[0] = NoEntry
    /\ \A h \in 1 .. Len(c) : T[h] = Holder(T[h - 1], c, h, a)

(* It exists, and ends with the title.                                      *)
LEMMA TitleRuns ==
    ASSUME NEW c, WellMade(c), NEW a \in Names
    PROVE  \E T : Holders(T, c, a) /\ Title(c)[a] = T[Len(c)]
<1> DEFINE L == Len(c)
           A(e, n) == Holder(e, c, n, a)
           Eq(g) == g = [n \in 0 .. L |-> IF n = 0 THEN NoEntry ELSE A(g[n - 1], n)]
           F == [x \in Maybe \X (1 .. L) |-> A(x[1], x[2])]
           h == CHOOSE g : Eq(g)
<1>1. L \in Nat /\ NoEntry \in Maybe
  BY DEF WellMade, Maybe
<1>2. \A e \in Maybe : \A n \in 1 .. L : A(e, n) \in Maybe
  BY HolderIs
<1>3. Title(c)[a] = h[L]
  BY DEF Title
<1> HIDE DEF L, A
<1>4. \A e \in Maybe : \A n \in 1 .. L : F[<<e, n>>] = A(e, n) /\ F[<<e, n>>] \in Maybe
  BY <1>2
<1> HIDE DEF F, Eq, h
<1>5. Loop(Maybe, F, L)
  BY <1>1, <1>4 DEF Loop
<1>6. PICK g : Goes(g, Maybe, F, L, NoEntry)
  BY <1>1, <1>5, LoopRuns
<1>7. ASSUME NEW n \in 0 .. L PROVE g[n] = IF n = 0 THEN NoEntry ELSE A(g[n - 1], n)
  <2>1. n # 0 => n \in 1 .. L /\ n - 1 \in 0 .. L
    BY <1>1
  <2> QED BY <1>4, <1>6, <2>1 DEF Goes
<1>8. Eq(g)
  BY <1>6, <1>7 DEF Eq, Goes
<1>9. Eq(h)
  BY <1>8 DEF h
<1>10. h = [n \in 0 .. L |-> h[n]] /\ h[0] = NoEntry /\ \A n \in 1 .. L : h[n] = A(h[n - 1], n)
  BY <1>1, <1>9 DEF Eq
<1>11. Goes(h, Maybe, F, L, NoEntry)
  BY <1>1, <1>4, <1>5, <1>10, LoopIs
<1>12. Holders(h, c, a)
  BY <1>10, <1>11 DEF Holders, Goes, L, A
<1> QED BY <1>3, <1>12 DEF L

(* Up to each height it has computed the title of the chain so far.         *)
LEMMA TitleRun ==
    ASSUME NEW c, WellMade(c), NEW a \in Names
    PROVE  \E T : /\ Holders(T, c, a)
                  /\ \A m \in 0 .. Len(c) : Title(SubSeq(c, 1, m))[a] = T[m]
                  /\ Title(c)[a] = T[Len(c)]
<1>1. PICK T : Holders(T, c, a) /\ Title(c)[a] = T[Len(c)]
  BY TitleRuns
<1>2. ASSUME NEW m \in 0 .. Len(c) PROVE Title(SubSeq(c, 1, m))[a] = T[m]
  <2> DEFINE d == SubSeq(c, 1, m)
  <2>1. WellMade(d) /\ Len(d) = m /\ m \in Nat /\ Len(c) \in Nat
    BY PrefixMade DEF WellMade
  <2>2. \A h \in 1 .. m : \A e \in Maybe : Holder(e, d, h, a) = Holder(e, c, h, a)
    BY HolderPrefix
  <2> HIDE DEF d
  <2>3. PICK U : Holders(U, d, a) /\ Title(d)[a] = U[m]
    BY <2>1, TitleRuns
  <2> DEFINE S == {i \in 0 .. m : U[i] = T[i]}
  <2>4. 0 \in S
    BY <1>1, <2>1, <2>3 DEF Holders
  <2>5. ASSUME NEW i \in 0 .. m - 1, i \in S PROVE i + 1 \in S
    <3>1. i + 1 \in 1 .. m /\ i + 1 \in 1 .. Len(c) /\ (i + 1) - 1 = i /\ i \in 0 .. Len(c)
      BY <2>1
    <3>2. U[i + 1] = Holder(T[i], d, i + 1, a) /\ T[i + 1] = Holder(T[i], c, i + 1, a)
      BY <1>1, <2>1, <2>3, <2>5, <3>1 DEF Holders
    <3>3. T[i] \in Maybe
      BY <1>1, <3>1 DEF Holders
    <3> QED BY <2>1, <2>2, <3>1, <3>2, <3>3
  <2>6. 0 .. m \subseteq S
    <3> HIDE DEF S
    <3> QED BY <2>1, <2>4, <2>5, UpTo
  <2> QED BY <2>1, <2>3, <2>6 DEF d
<1> QED BY <1>1, <1>2

(* Who holds a name after the last block follows from who held it before.   *)
LEMMA TitleTop ==
    ASSUME NEW c, WellMade(c), NEW m \in 1 .. Len(c), NEW a \in Names
    PROVE  Title(SubSeq(c, 1, m))[a] = Holder(Title(SubSeq(c, 1, m - 1))[a], c, m, a)
<1>1. PICK T : /\ Holders(T, c, a)
               /\ \A i \in 0 .. Len(c) : Title(SubSeq(c, 1, i))[a] = T[i]
  BY TitleRun
<1>2. m \in 0 .. Len(c) /\ m - 1 \in 0 .. Len(c)
  BY DEF WellMade
<1> QED BY <1>1, <1>2 DEF Holders

(* A chain is its own longest part.                                         *)
LEMMA WholeChain ==
    ASSUME NEW c, WellMade(c)
    PROVE  SubSeq(c, 1, Len(c)) = c
BY DEF WellMade

(* A name that has been used below is not free; its holder is a position on *)
(* the chain.                                                               *)
LEMMA TitleIs ==
    ASSUME NEW c, WellMade(c), NEW a \in Names
    PROVE  /\ Title(c)[a] \in Maybe
           /\ Title(c)[a] # NoEntry =>
                /\ Title(c)[a].nHeight \in 1 .. Len(c)
                /\ Title(SubSeq(c, 1, Title(c)[a].nHeight))[a] = Title(c)[a]
           /\ \A h \in 1 .. Len(c) : \A t \in InBlock(c, h) :
                Alias[t] = a /\ Op[t] # "encrypted" => Title(c)[a] # NoEntry
<1>1. PICK T : /\ Holders(T, c, a) /\ Title(c)[a] = T[Len(c)]
               /\ \A m \in 0 .. Len(c) : Title(SubSeq(c, 1, m))[a] = T[m]
  BY TitleRun
<1> DEFINE L == Len(c)
           Used(n) == \E h \in 1 .. n : \E t \in InBlock(c, h) : Alias[t] = a /\ Op[t] # "encrypted"
           S == {n \in 0 .. L : /\ T[n] # NoEntry =>
                                     T[n].nHeight \in 1 .. n /\ T[T[n].nHeight] = T[n]
                                /\ Used(n) => T[n] # NoEntry}
<1>2. L \in Nat /\ c \in Seq(Block)
  BY DEF WellMade
<1>3. 0 \in S
  BY <1>1, <1>2 DEF Holders
<1>4. ASSUME NEW n \in 0 .. L - 1, n \in S PROVE n + 1 \in S
  <2>1. n + 1 \in 1 .. L /\ n + 1 \in 0 .. L /\ n \in 0 .. L /\ (n + 1) - 1 = n
    BY <1>2
  <2>2. T[n] \in Maybe /\ T[n + 1] = Holder(T[n], c, n + 1, a)
    BY <1>1, <2>1 DEF Holders
  <2>3. /\ \/ T[n + 1] = T[n]
           \/ \E t \in InBlock(c, n + 1) : T[n + 1] = Pos(c, t)
        /\ T[n] # NoEntry => T[n + 1] # NoEntry
        /\ \A t \in InBlock(c, n + 1) :
             Alias[t] = a /\ Op[t] # "encrypted" => T[n + 1] # NoEntry
    BY <2>1, <2>2, HolderIs
  <2>4. \A t \in InBlock(c, n + 1) : Pos(c, t).nHeight = n + 1
    BY <2>1, PosIs
  <2>5. ASSUME T[n + 1] # NoEntry
        PROVE  T[n + 1].nHeight \in 1 .. n + 1 /\ T[T[n + 1].nHeight] = T[n + 1]
    BY <1>4, <2>3, <2>4, <2>5
  <2>6. ASSUME Used(n + 1) PROVE T[n + 1] # NoEntry
    <3>1. PICK h \in 1 .. n + 1 : \E t \in InBlock(c, h) : Alias[t] = a /\ Op[t] # "encrypted"
      BY <2>6
    <3>2. PICK t \in InBlock(c, h) : Alias[t] = a /\ Op[t] # "encrypted"
      BY <3>1
    <3>3. CASE h \in 1 .. n
      BY <1>4, <2>3, <3>2, <3>3
    <3>4. CASE h = n + 1
      BY <2>3, <3>2, <3>4
    <3>7. h \in 1 .. n \/ h = n + 1
      BY <2>1
    <3> QED BY <3>3, <3>4, <3>7
  <2> HIDE DEF Used
  <2> QED BY <2>1, <2>5, <2>6
<1>5. L \in S
  <2> HIDE DEF S
  <2>1. 0 .. L \subseteq S
    BY <1>2, <1>3, <1>4, UpTo
  <2> QED BY <1>2, <2>1
<1>6. T[L] \in Maybe
  BY <1>1, <1>2 DEF Holders
<1>7. \A m \in 1 .. L : m \in 0 .. L
  BY <1>2
<1> QED BY <1>1, <1>5, <1>6, <1>7

(* Blocks without an operation on a name leave its holder alone.            *)
LEMMA TitleUnnamed ==
    ASSUME NEW c, WellMade(c), NEW a \in Names, NEW m \in 0 .. Len(c),
           \A h \in m + 1 .. Len(c) : \A t \in InBlock(c, h) :
             Alias[t] = a => Op[t] = "encrypted"
    PROVE  Title(c)[a] = Title(SubSeq(c, 1, m))[a]
<1>1. PICK T : /\ Holders(T, c, a)
               /\ \A i \in 0 .. Len(c) : Title(SubSeq(c, 1, i))[a] = T[i]
               /\ Title(c)[a] = T[Len(c)]
  BY TitleRun
<1> DEFINE L == Len(c)
           S == {n \in 0 .. L - m : T[m + n] = T[m]}
<1>2. L \in Nat /\ m \in Nat /\ L - m \in Nat
  BY DEF WellMade
<1>3. 0 \in S
  BY <1>2
<1>4. ASSUME NEW n \in 0 .. (L - m) - 1, n \in S PROVE n + 1 \in S
  <2> DEFINE h == m + n + 1
  <2>1. h \in 1 .. L /\ h \in m + 1 .. L /\ h - 1 = m + n /\ m + n \in 0 .. L /\ n + 1 \in 0 .. L - m
    BY <1>2
  <2>2. T[h] = Holder(T[m + n], c, h, a) /\ T[m + n] \in Maybe
    BY <1>1, <2>1 DEF Holders
  <2>3. \/ T[h] = T[m + n]
        \/ \E t \in InBlock(c, h) : Alias[t] = a /\ Op[t] # "encrypted"
    BY <2>1, <2>2, HolderIs
  <2>4. T[h] = T[m + n]
    BY <2>1, <2>3
  <2>5. h = m + (n + 1)
    BY <1>2
  <2> QED BY <1>4, <2>1, <2>4, <2>5
<1>5. 0 .. L - m \subseteq S
  <2> HIDE DEF S
  <2> QED BY <1>2, <1>3, <1>4, UpTo
<1>6. L - m \in S /\ m + (L - m) = L
  BY <1>2, <1>5
<1> QED BY <1>1, <1>6

-----------------------------------------------------------------------------
(* An entry that filter() takes for lapsed at height n.                     *)
Lapsed(e, n) == n < e.nHeight \/ n - e.nHeight >= scaleMonitor

(* filter() on one transaction, seen from one name.                         *)
LEMMA FilterIs ==
    ASSUME NEW c, WellMade(c), Len(c) > 0, NEW ix \in Index, NEW t \in InBlock(c, Len(c))
    PROVE  /\ Filter(ix, c, t) \in Index
           /\ \A a \in Names :
                LET e == ix[a]
                    x == Filter(ix, c, t)[a]
                IN /\ Alias[t] # a \/ Op[t] = "encrypted" => x = e
                   /\ Alias[t] = a /\ Op[t] = "relay" =>
                        x = IF e # NoEntry THEN Pos(c, t) ELSE e
                   /\ Alias[t] = a /\ Op[t] = "set" =>
                        x = IF e = NoEntry \/ Lapsed(e, Len(c)) THEN Pos(c, t) ELSE e
<1>1. Len(c) \in 1 .. Len(c) /\ c \in Seq(Block)
  BY DEF WellMade
<1>2. t \in Tx /\ Alias[t] \in Names /\ Pos(c, t) \in Maybe
  BY <1>1, BlockTxs, PosIs DEF Names, Maybe
<1>3. Op[t] \in {"encrypted", "set", "relay"}
  BY <1>2, DionsAssumption
<1> DEFINE b == Alias[t]
           e == ix[b]
           taken == [ix EXCEPT ![b] = Pos(c, t)]
<1>4. taken \in Index /\ \A a \in Names : taken[a] = IF a = b THEN Pos(c, t) ELSE ix[a]
  BY <1>2 DEF Index
<1>5. CASE Op[t] = "set"
  <2>1. Filter(ix, c, t) = IF e = NoEntry \/ Lapsed(e, Len(c)) THEN taken ELSE ix
    BY <1>5 DEF Filter, Lapsed
  <2> HIDE DEF taken
  <2> QED BY <1>4, <1>5, <2>1
<1>6. CASE Op[t] = "relay"
  <2>1. Filter(ix, c, t) = IF e # NoEntry THEN taken ELSE ix
    BY <1>6 DEF Filter
  <2> HIDE DEF taken
  <2> QED BY <1>4, <1>6, <2>1
<1>7. CASE Op[t] = "encrypted"
  <2>1. Filter(ix, c, t) = ix
    BY <1>7 DEF Filter
  <2> QED BY <1>7, <2>1
<1> QED BY <1>3, <1>5, <1>6, <1>7

(* The states filter() goes through.                                        *)
Filters(F, ix, c) ==
    LET txs == c[Len(c)].txs IN
    /\ F \in [0 .. Len(txs) -> Index] /\ F[0] = ix
    /\ \A n \in 1 .. Len(txs) : F[n] = Filter(F[n - 1], c, txs[n])

(* filter() goes through all transactions of the block.                     *)
LEMMA FilterRuns ==
    ASSUME NEW c, WellMade(c), Len(c) > 0, NEW ix \in Index
    PROVE  \E F : Filters(F, ix, c) /\ FilterTop(ix, c) = F[Len(c[Len(c)].txs)]
<1> DEFINE txs == c[Len(c)].txs
           L == Len(txs)
           A(x, n) == Filter(x, c, txs[n])
           Eq(g) == g = [n \in 0 .. L |-> IF n = 0 THEN ix ELSE A(g[n - 1], n)]
           F == [x \in Index \X (1 .. L) |-> A(x[1], x[2])]
           h == CHOOSE g : Eq(g)
<1>0. Len(c) \in 1 .. Len(c) /\ c \in Seq(Block)
  BY DEF WellMade
<1>1. L \in Nat /\ \A n \in 1 .. L : txs[n] \in InBlock(c, Len(c))
  BY <1>0, BlockTxs
<1>2. \A x \in Index : \A n \in 1 .. L : A(x, n) \in Index
  <2> HIDE DEF L, txs
  <2> QED BY <1>1, FilterIs
<1>3. FilterTop(ix, c) = h[L]
  BY DEF FilterTop, Last
<1> HIDE DEF L, A
<1>4. \A x \in Index : \A n \in 1 .. L : F[<<x, n>>] = A(x, n) /\ F[<<x, n>>] \in Index
  BY <1>2
<1> HIDE DEF F, Eq, h
<1>5. Loop(Index, F, L)
  BY <1>1, <1>4 DEF Loop
<1>6. PICK g : Goes(g, Index, F, L, ix)
  BY <1>5, LoopRuns
<1>7. ASSUME NEW n \in 0 .. L PROVE g[n] = IF n = 0 THEN ix ELSE A(g[n - 1], n)
  <2>1. n # 0 => n \in 1 .. L /\ n - 1 \in 0 .. L
    BY <1>1
  <2> QED BY <1>4, <1>6, <2>1 DEF Goes
<1>8. Eq(g)
  BY <1>6, <1>7 DEF Eq, Goes
<1>9. Eq(h)
  BY <1>8 DEF h
<1>10. h = [n \in 0 .. L |-> h[n]] /\ h[0] = ix /\ \A n \in 1 .. L : h[n] = A(h[n - 1], n)
  BY <1>1, <1>9 DEF Eq
<1>11. Goes(h, Index, F, L, ix)
  BY <1>4, <1>5, <1>10, LoopIs
<1>12. Filters(h, ix, c)
  BY <1>10, <1>11 DEF Filters, Goes, L, A
<1> QED BY <1>3, <1>12 DEF L

(* What the first n transactions of a block do to an entry e of the name a: *)
(* the last OP_ALIAS_RELAY has it, or else the first OP_ALIAS_SET if the    *)
(* name was free or had lapsed.                                             *)
Outcome(x, c, a, e, n) ==
    LET txs == c[Len(c)].txs
        relays == {i \in On("relay", txs, a) : i <= n}
        sets == {i \in On("set", txs, a) : i <= n}
        free == e = NoEntry \/ Lapsed(e, Len(c))
    IN \/ \E i \in relays : (\A j \in relays : j <= i) /\ x = Pos(c, txs[i])
       \/ relays = {} /\ free /\ \E i \in sets : (\A j \in sets : i <= j) /\ x = Pos(c, txs[i])
       \/ relays = {} /\ ~(free /\ sets # {}) /\ x = e

(* That is what filter() does, if a relayed name has an entry or an         *)
(* OP_ALIAS_SET before the relay.                                           *)
LEMMA FilterTopIs ==
    ASSUME NEW c, WellMade(c), Len(c) > 0, NEW ix \in Index, NEW a \in Names,
           ix[a] = NoEntry => \A i \in On("relay", c[Len(c)].txs, a) :
                                \E j \in On("set", c[Len(c)].txs, a) : j < i
    PROVE  /\ FilterTop(ix, c) \in Index
           /\ Outcome(FilterTop(ix, c)[a], c, a, ix[a], Len(c[Len(c)].txs))
<1> DEFINE N == Len(c)
           txs == c[N].txs
           L == Len(txs)
           e == ix[a]
           R == On("relay", txs, a)
           S == On("set", txs, a)
<1>1. N \in 1 .. N /\ c \in Seq(Block) /\ N \in Nat
  BY DEF WellMade
<1>2. /\ L \in Nat /\ DOMAIN txs = 1 .. L
      /\ \A n \in 1 .. L : txs[n] \in InBlock(c, N) /\ txs[n] \in Tx
  BY <1>1, BlockTxs
<1>3. PICK F : Filters(F, ix, c) /\ FilterTop(ix, c) = F[L]
  BY FilterRuns
<1>4. /\ R \subseteq 1 .. L /\ S \subseteq 1 .. L
      /\ \A i \in 1 .. L : /\ i \in R <=> Op[txs[i]] = "relay" /\ Alias[txs[i]] = a
                           /\ i \in S <=> Op[txs[i]] = "set" /\ Alias[txs[i]] = a
  BY <1>2 DEF On
<1>5. \A i \in 1 .. L : /\ Pos(c, txs[i]) # NoEntry
                        /\ ~Lapsed(Pos(c, txs[i]), N)
  <2> SUFFICES ASSUME NEW i \in 1 .. L
               PROVE  Pos(c, txs[i]) # NoEntry /\ ~Lapsed(Pos(c, txs[i]), N)
    OBVIOUS
  <2>1. Pos(c, txs[i]) # NoEntry /\ Pos(c, txs[i]).nHeight = N
    BY <1>1, <1>2, PosIs
  <2> QED BY <1>1, <2>1, DionsAssumption DEF Lapsed
<1> DEFINE T == {n \in 0 .. L : Outcome(F[n][a], c, a, e, n)}
<1> HIDE DEF N, R, S
<1>6. 0 \in T
  <2>1. F[0] = ix /\ 0 \in 0 .. L
    BY <1>2, <1>3 DEF Filters
  <2>2. {i \in R : i <= 0} = {} /\ {i \in S : i <= 0} = {}
    <3>1. \A i \in 1 .. L : ~(i <= 0)
      BY <1>2
    <3> QED BY <1>4, <3>1
  <2>3. Outcome(e, c, a, e, 0)
    BY <2>2 DEF Outcome, R, S, N
  <2> QED BY <2>1, <2>3
<1>7. ASSUME NEW n \in 0 .. L - 1, n \in T PROVE n + 1 \in T
  <2> DEFINE t == txs[n + 1]
             x == F[n][a]
             y == F[n + 1][a]
             Rn == {i \in R : i <= n}
             Sn == {i \in S : i <= n}
             Rm == {i \in R : i <= n + 1}
             Sm == {i \in S : i <= n + 1}
             free == e = NoEntry \/ Lapsed(e, N)
  <2>1. n + 1 \in 1 .. L /\ n \in 0 .. L /\ n + 1 \in 0 .. L /\ (n + 1) - 1 = n /\ n \in Nat
    BY <1>2
  <2>2. F[n] \in Index /\ F[n + 1] = Filter(F[n], c, t) /\ t \in InBlock(c, N)
    BY <1>2, <1>3, <2>1 DEF Filters, N
  <2>3. /\ Alias[t] # a \/ Op[t] = "encrypted" => y = x
        /\ Alias[t] = a /\ Op[t] = "relay" => y = IF x # NoEntry THEN Pos(c, t) ELSE x
        /\ Alias[t] = a /\ Op[t] = "set" =>
             y = IF x = NoEntry \/ Lapsed(x, N) THEN Pos(c, t) ELSE x
    BY <1>1, <2>2, FilterIs DEF N
  <2>4. Op[t] \in {"encrypted", "set", "relay"}
    BY <1>2, <2>1, DionsAssumption
  <2>5. \/ \E i \in Rn : (\A j \in Rn : j <= i) /\ x = Pos(c, txs[i])
        \/ Rn = {} /\ free /\ \E i \in Sn : (\A j \in Sn : i <= j) /\ x = Pos(c, txs[i])
        \/ Rn = {} /\ ~(free /\ Sn # {}) /\ x = e
    BY <1>7 DEF Outcome, R, S, N
  <2>6. /\ Rm = IF n + 1 \in R THEN Rn \cup {n + 1} ELSE Rn
        /\ Sm = IF n + 1 \in S THEN Sn \cup {n + 1} ELSE Sn
        /\ \A i \in Rn \cup Sn : i <= n + 1 /\ i \in 1 .. L
    <3>1. \A i \in 1 .. L : i <= n + 1 <=> (i <= n \/ i = n + 1)
      BY <2>1
    <3>2. n + 1 <= n + 1
      BY <2>1
    <3> QED BY <1>4, <3>1, <3>2
  <2>7. e = NoEntry => \A i \in R : \E j \in S : j < i
    BY DEF R, S, N
  <2>8. /\ n + 1 \in R <=> Op[t] = "relay" /\ Alias[t] = a
        /\ n + 1 \in S <=> Op[t] = "set" /\ Alias[t] = a
    BY <1>4, <2>1
  <2> DEFINE Goal == \/ \E i \in Rm : (\A j \in Rm : j <= i) /\ y = Pos(c, txs[i])
                     \/ Rm = {} /\ free /\ \E i \in Sm : (\A j \in Sm : i <= j) /\ y = Pos(c, txs[i])
                     \/ Rm = {} /\ ~(free /\ Sm # {}) /\ y = e
  <2>9. Rn \subseteq R /\ n + 1 <= n + 1
    BY <2>1
  <2> HIDE DEF Rn, Sn, Rm, Sm, x, y, free, Lapsed
  <2>10. ASSUME n + 1 \in R PROVE Goal
    <3>0. e = NoEntry => Sn # {}
      <4> SUFFICES ASSUME e = NoEntry PROVE Sn # {}
        OBVIOUS
      <4>1. PICK j \in S : j < n + 1
        BY <2>7, <2>10
      <4>2. j <= n
        BY <1>4, <2>1, <4>1
      <4> QED BY <4>1, <4>2 DEF Sn
    <3>1. x # NoEntry
      BY <1>5, <2>5, <2>6, <3>0 DEF free
    <3>2. y = Pos(c, txs[n + 1])
      BY <2>3, <2>8, <2>10, <3>1
    <3>3. n + 1 \in Rm /\ \A j \in Rm : j <= n + 1
      BY <2>6, <2>9, <2>10
    <3> QED BY <3>2, <3>3
  <2>11. ASSUME n + 1 \in S PROVE Goal
    <3>1. n + 1 \notin R /\ Rm = Rn /\ Sm = Sn \cup {n + 1}
      BY <2>6, <2>8, <2>11
    <3>2. y = IF x = NoEntry \/ Lapsed(x, N) THEN Pos(c, t) ELSE x
      BY <2>3, <2>8, <2>11
    <3>3. CASE \E i \in Rn : (\A j \in Rn : j <= i) /\ x = Pos(c, txs[i])
      <4>1. y = x
        BY <1>5, <2>6, <3>2, <3>3
      <4> QED BY <3>1, <3>3, <4>1
    <3>4. CASE Rn = {} /\ free /\ \E i \in Sn : (\A j \in Sn : i <= j) /\ x = Pos(c, txs[i])
      <4>1. y = x
        BY <1>5, <2>6, <3>2, <3>4
      <4>2. PICK i \in Sn : (\A j \in Sn : i <= j) /\ x = Pos(c, txs[i])
        BY <3>4
      <4>3. i \in Sm /\ \A j \in Sm : i <= j
        BY <2>6, <3>1, <4>2
      <4> QED BY <3>1, <3>4, <4>1, <4>2, <4>3
    <3>5. CASE Rn = {} /\ ~(free /\ Sn # {}) /\ x = e
      <4>1. CASE free
        <5>1. y = Pos(c, txs[n + 1])
          BY <3>2, <3>5, <4>1 DEF free
        <5>2. Sm = {n + 1}
          BY <3>1, <3>5, <4>1
        <5>3. n + 1 \in Sm /\ \A j \in Sm : n + 1 <= j
          BY <2>9, <5>2
        <5> QED BY <3>1, <3>5, <4>1, <5>1, <5>3
      <4>2. CASE ~free
        <5>1. y = e
          BY <3>2, <3>5, <4>2 DEF free
        <5> QED BY <3>1, <3>5, <4>2, <5>1
      <4> QED BY <4>1, <4>2
    <3> QED BY <2>5, <3>3, <3>4, <3>5
  <2>12. ASSUME n + 1 \notin R, n + 1 \notin S PROVE Goal
    <3>1. y = x
      BY <2>3, <2>4, <2>8, <2>12
    <3>2. Rm = Rn /\ Sm = Sn
      BY <2>6, <2>12
    <3> QED BY <2>5, <3>1, <3>2
  <2>13. Goal
    BY <2>10, <2>11, <2>12
  <2> QED BY <2>1, <2>13 DEF Outcome, Rm, Sm, R, S, N, y, free
<1>8. L \in T
  <2> HIDE DEF T
  <2>1. 0 .. L \subseteq T
    BY <1>2, <1>6, <1>7, UpTo
  <2> QED BY <1>2, <2>1
<1>9. FilterTop(ix, c) \in Index
  BY <1>2, <1>3 DEF Filters, N
<1> QED BY <1>3, <1>8, <1>9 DEF N

(* The outcome of a whole block.                                            *)
LEMMA OutcomeIs ==
    ASSUME NEW c, WellMade(c), Len(c) > 0, NEW a, NEW e, NEW x,
           Outcome(x, c, a, e, Len(c[Len(c)].txs))
    PROVE  LET txs == c[Len(c)].txs
               R == On("relay", txs, a)
               S == On("set", txs, a)
               free == e = NoEntry \/ Lapsed(e, Len(c))
           IN /\ R # {} => x = Pos(c, txs[Max(R)]) /\ Max(R) \in R
              /\ R = {} /\ free /\ S # {} => x = Pos(c, txs[Min(S)])
              /\ R = {} /\ ~(free /\ S # {}) => x = e
<1> DEFINE txs == c[Len(c)].txs
           L == Len(txs)
           R == On("relay", txs, a)
           S == On("set", txs, a)
           free == e = NoEntry \/ Lapsed(e, Len(c))
<1>1. Len(c) \in 1 .. Len(c) /\ c \in Seq(Block)
  BY DEF WellMade
<1>2. L \in Nat /\ DOMAIN txs = 1 .. L
  BY <1>1, BlockTxs
<1>3. R \subseteq 1 .. L /\ S \subseteq 1 .. L
  BY <1>2 DEF On
<1>4. \/ \E i \in {i \in R : i <= L} : (\A j \in {i_1 \in R : i_1 <= L} : j <= i) /\ x = Pos(c, txs[i])
      \/ /\ {i \in R : i <= L} = {} /\ free
         /\ \E i \in {i \in S : i <= L} : (\A j \in {i_1 \in S : i_1 <= L} : i <= j) /\ x = Pos(c, txs[i])
      \/ {i \in R : i <= L} = {} /\ ~(free /\ {i \in S : i <= L} # {}) /\ x = e
  BY DEF Outcome
<1> HIDE DEF L, R, S, free, txs
<1>5. {i \in R : i <= L} = R /\ {i \in S : i <= L} = S
  <2>1. \A i \in 1 .. L : i <= L
    BY <1>2
  <2> QED BY <1>3, <2>1
<1>6. \/ \E i \in R : (\A j \in R : j <= i) /\ x = Pos(c, txs[i])
      \/ R = {} /\ free /\ \E i \in S : (\A j \in S : i <= j) /\ x = Pos(c, txs[i])
      \/ R = {} /\ ~(free /\ S # {}) /\ x = e
  BY <1>4, <1>5
<1>7. \A i, j \in 1 .. L : i <= j /\ j <= i => i = j
  BY <1>2
<1>8. R # {} => Max(R) \in R /\ \A i \in R : i <= Max(R)
  BY <1>2, <1>3, MaxIs
<1>9. S # {} => Min(S) \in S /\ \A i \in S : Min(S) <= i
  <2>1. S \subseteq Nat
    BY <1>2, <1>3
  <2> QED BY <2>1, MinIs
<1>10. R # {} => x = Pos(c, txs[Max(R)])
  BY <1>3, <1>6, <1>7, <1>8
<1>11. R = {} /\ free /\ S # {} => x = Pos(c, txs[Min(S)])
  BY <1>3, <1>6, <1>7, <1>9
<1>12. R = {} /\ ~(free /\ S # {}) => x = e
  BY <1>6
<1> QED BY <1>8, <1>10, <1>11, <1>12 DEF R, S, free, txs

(* Where the last block has an OP_ALIAS_RELAY of a name that was free, it   *)
(* has an OP_ALIAS_SET before it.                                           *)
LEMMA RelayHeld ==
    ASSUME NEW c, WellMade(c), Len(c) > 0, NEW a \in Names,
           Title(SubSeq(c, 1, Len(c) - 1))[a] = NoEntry,
           NEW i \in On("relay", c[Len(c)].txs, a)
    PROVE  \E j \in On("set", c[Len(c)].txs, a) : j < i
<1> DEFINE N == Len(c)
           d == SubSeq(c, 1, N - 1)
           txs == c[N].txs
           L == Len(txs)
           R == On("relay", txs, a)
<1>1. N \in 1 .. N /\ N - 1 \in 0 .. N /\ c \in Seq(Block)
  BY DEF WellMade
<1>2. WellMade(d) /\ Len(d) = N - 1 /\ \A k \in 1 .. N - 1 : d[k] = c[k]
  BY <1>1, PrefixMade
<1>3. L \in Nat /\ DOMAIN txs = 1 .. L /\ \A j \in 1 .. L : txs[j] \in Tx
  BY <1>1, BlockTxs
<1>4. R \subseteq 1 .. L /\ R \subseteq Nat /\ i \in R
  BY <1>3 DEF On
<1> DEFINE f == Min(R)
           t == txs[f]
<1>5. f \in R /\ \A j \in R : f <= j
  <2> HIDE DEF R
  <2> QED BY <1>4, MinIs
<1> HIDE DEF f
<1>6. f \in 1 .. L /\ Op[t] = "relay" /\ Alias[t] = a
  BY <1>4, <1>5 DEF On
<1>7. Carries(c, N, f)
  BY <1>1, <1>6 DEF WellMade
<1>8. /\ Prev[t] \in Tx /\ Op[Prev[t]] # "encrypted" /\ Alias[Prev[t]] = a
      /\ \/ \E k \in 1 .. N - 1 : Prev[t] \in InBlock(c, k)
         \/ \E j \in 1 .. f - 1 : Prev[t] = txs[j]
  BY <1>6, <1>7 DEF Carries
<1>9. ASSUME NEW k \in 1 .. N - 1, Prev[t] \in InBlock(c, k) PROVE FALSE
  <2> HIDE DEF d, t
  <2>1. Prev[t] \in InBlock(d, k) /\ k \in 1 .. Len(d)
    BY <1>2, <1>9 DEF InBlock
  <2>2. Title(d)[a] # NoEntry
    BY <1>2, <1>8, <2>1, TitleIs
  <2> QED BY <2>2 DEF d
<1>10. PICK j \in 1 .. f - 1 : Prev[t] = txs[j]
  BY <1>8, <1>9
<1>11. j \in 1 .. L /\ j < f /\ j < i /\ ~(f <= j)
  BY <1>3, <1>4, <1>5, <1>6, <1>10
<1>12. j \notin R
  BY <1>5, <1>11
<1>13. Op[txs[j]] # "relay" /\ Op[txs[j]] \in {"encrypted", "set", "relay"}
  BY <1>3, <1>8, <1>10, <1>11, <1>12, DionsAssumption DEF On
<1> QED BY <1>3, <1>8, <1>10, <1>11, <1>13 DEF On

(* filter() keeps a right entry right, and an OP_ALIAS_RELAY puts a wrong   *)
(* one right.                                                               *)
LEMMA FilterFollows ==
    ASSUME NEW c, WellMade(c), Len(c) > 0, NEW ix \in Index, NEW a \in Names,
           \/ ix[a] = Title(SubSeq(c, 1, Len(c) - 1))[a]
           \/ ix[a] # NoEntry /\ On("relay", c[Len(c)].txs, a) # {}
    PROVE  FilterTop(ix, c)[a] = Title(c)[a]
<1> DEFINE N == Len(c)
           txs == c[N].txs
           R == On("relay", txs, a)
           S == On("set", txs, a)
           e == ix[a]
           T == Title(SubSeq(c, 1, N - 1))[a]
           x == FilterTop(ix, c)[a]
<1>1. N \in 1 .. N /\ N - 1 \in 0 .. N /\ N \in Nat
  BY DEF WellMade
<1>2. T = NoEntry => \A i \in R : \E j \in S : j < i
  BY RelayHeld
<1>3. e = NoEntry => \A i \in R : \E j \in S : j < i
  BY <1>2
<1>4. Outcome(x, c, a, e, Len(txs))
  BY <1>3, FilterTopIs
<1>5. /\ R # {} => x = Pos(c, txs[Max(R)])
      /\ R = {} /\ (e = NoEntry \/ Lapsed(e, N)) /\ S # {} => x = Pos(c, txs[Min(S)])
      /\ R = {} /\ ~((e = NoEntry \/ Lapsed(e, N)) /\ S # {}) => x = e
  BY <1>4, OutcomeIs
<1>6. Title(c)[a] = Holder(T, c, N, a)
  <2>1. Title(SubSeq(c, 1, N))[a] = Holder(T, c, N, a)
    BY <1>1, TitleTop
  <2> QED BY <2>1, WholeChain
<1>7. Holder(T, c, N, a) =
        CASE R # {} -> Pos(c, txs[Max(R)])
          [] /\ R = {} /\ S # {}
             /\ T # NoEntry => N - T.nHeight >= scaleMonitor -> Pos(c, txs[Min(S)])
          [] OTHER -> T
  BY DEF Holder
<1>8. T # NoEntry => T.nHeight \in Nat /\ T.nHeight < N
  <2>1. WellMade(SubSeq(c, 1, N - 1)) /\ Len(SubSeq(c, 1, N - 1)) = N - 1
    BY <1>1, PrefixMade
  <2>2. T # NoEntry => T.nHeight \in 1 .. N - 1
    BY <2>1, TitleIs
  <2> QED BY <1>1, <2>2
<1>9. T # NoEntry => (Lapsed(T, N) <=> N - T.nHeight >= scaleMonitor)
  BY <1>1, <1>8 DEF Lapsed
<1> HIDE DEF N, R, S, e, T, x, txs
<1>10. CASE R # {}
  BY <1>5, <1>6, <1>7, <1>10 DEF x
<1>11. CASE R = {} /\ e = T
  <2>1. CASE (T = NoEntry \/ Lapsed(T, N)) /\ S # {}
    BY <1>5, <1>6, <1>7, <1>9, <1>11, <2>1 DEF x
  <2>2. CASE ~((T = NoEntry \/ Lapsed(T, N)) /\ S # {})
    BY <1>5, <1>6, <1>7, <1>9, <1>11, <2>2 DEF x
  <2> QED BY <2>1, <2>2
<1> QED BY <1>10, <1>11 DEF R, txs, N, e, T

(* What filter() makes of an entry of a later block, when the name was free *)
(* up to this one: the entry counts as lapsed.                              *)
LEMMA FilterAhead ==
    ASSUME NEW c, WellMade(c), Len(c) > 0, NEW ix \in Index, NEW a \in Names,
           Title(SubSeq(c, 1, Len(c) - 1))[a] = NoEntry,
           ix[a] # NoEntry, Len(c) <= ix[a].nHeight,
           Len(c) = ix[a].nHeight => Title(c)[a] = ix[a]
    PROVE  \/ FilterTop(ix, c)[a] = Title(c)[a]
           \/ Title(c)[a] = NoEntry /\ FilterTop(ix, c)[a] = ix[a] /\ Len(c) < ix[a].nHeight
<1> DEFINE N == Len(c)
           txs == c[N].txs
           R == On("relay", txs, a)
           S == On("set", txs, a)
           e == ix[a]
           x == FilterTop(ix, c)[a]
<1>1. N \in 1 .. N /\ N - 1 \in 0 .. N /\ N \in Nat
  BY DEF WellMade
<1>2. e.nHeight \in Nat
  BY DEF Index, Maybe, Entry
<1>3. Lapsed(e, N) <=> N < e.nHeight
  BY <1>1, <1>2, DionsAssumption DEF Lapsed
<1>4. CASE R # {}
  BY <1>4, FilterFollows
<1>5. CASE R = {}
  <2>1. Outcome(x, c, a, e, Len(txs))
    BY FilterTopIs
  <2>2. /\ Lapsed(e, N) /\ S # {} => x = Pos(c, txs[Min(S)])
        /\ ~(Lapsed(e, N) /\ S # {}) => x = e
    BY <1>5, <2>1, OutcomeIs
  <2>3. Title(c)[a] = Holder(NoEntry, c, N, a)
    <3>1. Title(SubSeq(c, 1, N))[a] = Holder(Title(SubSeq(c, 1, N - 1))[a], c, N, a)
      BY <1>1, TitleTop
    <3> QED BY <3>1, WholeChain
  <2>4. Holder(NoEntry, c, N, a) = IF S # {} THEN Pos(c, txs[Min(S)]) ELSE NoEntry
    BY <1>5 DEF Holder
  <2> HIDE DEF S, txs, x
  <2>5. x = Title(c)[a] \/ (Title(c)[a] = NoEntry /\ x = e /\ N < e.nHeight)
    BY <1>1, <1>2, <1>3, <2>2, <2>3, <2>4
  <2> QED BY <2>5 DEF x
<1> QED BY <1>4, <1>5

(* filter() writes positions.                                               *)
LEMMA FilterTopType ==
    ASSUME NEW c, WellMade(c), Len(c) > 0, NEW ix \in Index
    PROVE  FilterTop(ix, c) \in Index
<1>1. Len(c[Len(c)].txs) \in Nat
  <2>1. Len(c) \in 1 .. Len(c) /\ c \in Seq(Block)
    BY DEF WellMade
  <2> QED BY <2>1, BlockTxs
<1>2. PICK F : Filters(F, ix, c) /\ FilterTop(ix, c) = F[Len(c[Len(c)].txs)]
  BY FilterRuns
<1> QED BY <1>1, <1>2 DEF Filters

(* Nobody holds a name on no chain.                                         *)
LEMMA TitleEmpty ==
    ASSUME NEW c, WellMade(c), NEW a \in Names
    PROVE  Title(SubSeq(c, 1, 0))[a] = NoEntry
<1>1. 0 \in 0 .. Len(c)
  BY DEF WellMade
<1>2. PICK T : /\ Holders(T, c, a)
               /\ \A m \in 0 .. Len(c) : Title(SubSeq(c, 1, m))[a] = T[m]
  BY TitleRun
<1> QED BY <1>1, <1>2 DEF Holders

(* A scan finds who holds each name, from nothing or from an entry that was *)
(* right at some height of the chain: the first block, which it may leave   *)
(* out, holds no operation on a name.                                       *)
LEMMA ScanIsTitle ==
    ASSUME NEW c, WellMade(c), Len(c) > 0, NEW old \in Index
    PROVE  /\ xsc(old, c) \in Index
           /\ \A a \in Names : \A m \in 0 .. Len(c) :
                old[a] = Title(SubSeq(c, 1, m))[a] => xsc(old, c)[a] = Title(c)[a]
<1> DEFINE L == Len(c)
           P(n) == SubSeq(c, 1, n)
           A(x, n) == IF n < XscanHeight THEN old ELSE FilterTop(x, P(n))
           Eq(g) == g = [n \in 0 .. L |-> IF n < XscanHeight THEN old
                                                          ELSE FilterTop(g[n - 1], P(n))]
           F == [x \in Index \X (1 .. L) |-> A(x[1], x[2])]
           h == CHOOSE g : Eq(g)
<1>1. L \in Nat /\ XscanHeight \in 1 .. 2
  BY DionsAssumption DEF WellMade
<1>2. \A n \in 0 .. L : WellMade(P(n)) /\ Len(P(n)) = n
  BY PrefixMade
<1>3. ASSUME NEW x \in Index, NEW n \in 1 .. L PROVE A(x, n) \in Index
  <2>1. WellMade(P(n)) /\ Len(P(n)) > 0
    BY <1>1, <1>2
  <2>2. FilterTop(x, P(n)) \in Index
    BY <2>1, FilterTopType
  <2> QED BY <1>1, <2>2
<1>4. xsc(old, c) = h[L]
  BY DEF xsc
<1> HIDE DEF P, L
<1>5. \A x \in Index : \A n \in 1 .. L : F[<<x, n>>] = A(x, n) /\ F[<<x, n>>] \in Index
  BY <1>3
<1> HIDE DEF F, Eq, h
<1>6. Loop(Index, F, L)
  BY <1>1, <1>5 DEF Loop
<1>7. PICK g : Goes(g, Index, F, L, old)
  BY <1>1, <1>6, LoopRuns
<1>8. ASSUME NEW n \in 0 .. L
      PROVE  g[n] = IF n < XscanHeight THEN old ELSE FilterTop(g[n - 1], P(n))
  <2>1. n # 0 => n \in 1 .. L /\ n - 1 \in 0 .. L
    BY <1>1
  <2>2. n = 0 => n < XscanHeight
    BY <1>1
  <2> QED BY <1>5, <1>7, <2>1, <2>2 DEF Goes
<1>9. Eq(g)
  BY <1>7, <1>8 DEF Eq, Goes
<1>10. Eq(h)
  BY <1>9 DEF h
<1>11. h = [n \in 0 .. L |-> h[n]] /\ h[0] = old /\ \A n \in 1 .. L : h[n] = A(h[n - 1], n)
  BY <1>1, <1>10 DEF Eq
<1>12. Goes(h, Index, F, L, old)
  BY <1>1, <1>5, <1>6, <1>11, LoopIs
<1>13. \A n \in 0 .. L : h[n] \in Index
  BY <1>12 DEF Goes
<1>14. ASSUME NEW a \in Names, NEW m \in 0 .. L, old[a] = Title(P(m))[a]
       PROVE  h[L][a] = Title(c)[a]
  <2> DEFINE e == old[a]
             T == {n \in 0 .. L : \/ h[n][a] = Title(P(n))[a]
                                  \/ /\ Title(P(n))[a] = NoEntry /\ h[n][a] = e
                                     /\ e # NoEntry /\ n < e.nHeight}
  <2>0. e # NoEntry => /\ e.nHeight \in 1 .. m
                       /\ Title(P(e.nHeight))[a] = e
    <3> SUFFICES ASSUME e # NoEntry PROVE e.nHeight \in 1 .. m /\ Title(P(e.nHeight))[a] = e
      OBVIOUS
    <3>1. WellMade(P(m)) /\ Len(P(m)) = m
      BY <1>2
    <3>2. e.nHeight \in 1 .. m /\ Title(SubSeq(P(m), 1, e.nHeight))[a] = e
      BY <1>14, <3>1, TitleIs
    <3>3. SubSeq(P(m), 1, e.nHeight) = P(e.nHeight)
      BY <3>2 DEF P, L, WellMade
    <3> QED BY <3>2, <3>3
  <2>1. 0 \in T
    <3>1. Title(P(0))[a] = NoEntry
      BY TitleEmpty DEF P
    <3>2. 0 \in 0 .. L /\ h[0][a] = e
      BY <1>1, <1>11
    <3>3. e # NoEntry => 0 < e.nHeight
      BY <1>1, <2>0
    <3> QED BY <3>1, <3>2, <3>3
  <2>2. ASSUME NEW n \in 0 .. L - 1, n \in T PROVE n + 1 \in T
    <3>1. n + 1 \in 1 .. L /\ n + 1 \in 0 .. L /\ n \in 0 .. L /\ (n + 1) - 1 = n /\ n \in Nat
      BY <1>1
    <3>2. WellMade(P(n + 1)) /\ Len(P(n + 1)) = n + 1
      BY <1>2, <3>1
    <3>3. SubSeq(P(n + 1), 1, n) = P(n)
      BY <3>1 DEF WellMade, P, L
    <3>4. CASE n + 1 < XscanHeight
      <4>1. n = 0 /\ n + 1 = 1
        BY <1>1, <3>1, <3>4
      <4>5. WellMade(P(1)) /\ Len(P(1)) = 1
        BY <3>2, <4>1
      <4>2. h[n + 1][a] = e
        BY <1>11, <3>1, <3>4
      <4>3. \A k \in 0 + 1 .. Len(P(1)) : \A t \in InBlock(P(1), k) : Op[t] = "encrypted"
        <5>1. \A k \in 0 + 1 .. Len(P(1)) : k = 1
          <6>1. \A k \in 0 + 1 .. 1 : k = 1
            OBVIOUS
          <6> QED BY <4>5, <6>1
        <5>2. Len(P(1)) > 0
          BY <4>5
        <5> QED BY <4>5, <5>1, <5>2 DEF WellMade
      <4>4. Title(P(1))[a] = NoEntry
        <5>1. 0 \in 0 .. Len(P(1)) /\ WellMade(P(1))
          BY <4>5
        <5>2. Title(P(1))[a] = Title(SubSeq(P(1), 1, 0))[a]
          BY <4>3, <5>1, TitleUnnamed
        <5> QED BY <5>1, <5>2, TitleEmpty
      <4>6. e # NoEntry => 1 < e.nHeight
        <5> SUFFICES ASSUME e # NoEntry PROVE 1 < e.nHeight
          OBVIOUS
        <5>1. e.nHeight # 1
          BY <2>0, <4>4
        <5> QED BY <1>1, <2>0, <5>1
      <4> QED BY <3>1, <4>1, <4>2, <4>4, <4>6
    <3>5. CASE ~(n + 1 < XscanHeight)
      <4>1. h[n + 1] = FilterTop(h[n], P(n + 1))
        BY <1>11, <3>1, <3>5
      <4>2. SubSeq(P(n + 1), 1, Len(P(n + 1)) - 1) = P(n)
        BY <3>1, <3>2, <3>3
      <4>3. Len(P(n + 1)) > 0 /\ h[n] \in Index
        BY <1>13, <3>1, <3>2
      <4>4. CASE h[n][a] = Title(P(n))[a]
        <5>1. FilterTop(h[n], P(n + 1))[a] = Title(P(n + 1))[a]
          BY <3>2, <4>2, <4>3, <4>4, FilterFollows
        <5> QED BY <3>1, <4>1, <5>1
      <4>5. CASE /\ Title(P(n))[a] = NoEntry /\ h[n][a] = e
                 /\ e # NoEntry /\ n < e.nHeight
        <5>1. n + 1 <= e.nHeight
          BY <2>0, <3>1, <4>5
        <5>2. n + 1 = e.nHeight => Title(P(n + 1))[a] = e
          BY <2>0, <4>5
        <5>3. \/ FilterTop(h[n], P(n + 1))[a] = Title(P(n + 1))[a]
              \/ /\ Title(P(n + 1))[a] = NoEntry /\ FilterTop(h[n], P(n + 1))[a] = e
                 /\ n + 1 < e.nHeight
          <6> DEFINE d == P(n + 1)
                     x == h[n]
          <6>1. /\ WellMade(d) /\ Len(d) > 0 /\ x \in Index
                /\ Title(SubSeq(d, 1, Len(d) - 1))[a] = NoEntry
                /\ x[a] # NoEntry /\ Len(d) <= x[a].nHeight
                /\ Len(d) = x[a].nHeight => Title(d)[a] = x[a]
            BY <3>2, <4>2, <4>3, <4>5, <5>1, <5>2
          <6>2. x[a] = e /\ Len(d) = n + 1
            BY <3>2, <4>5
          <6> HIDE DEF d, x, e
          <6>3. \/ FilterTop(x, d)[a] = Title(d)[a]
                \/ Title(d)[a] = NoEntry /\ FilterTop(x, d)[a] = x[a] /\ Len(d) < x[a].nHeight
            BY <6>1, FilterAhead
          <6> QED BY <6>2, <6>3 DEF d, x
        <5> QED BY <3>1, <4>1, <4>5, <5>3
      <4> QED BY <2>2, <4>4, <4>5
    <3> QED BY <3>4, <3>5
  <2>3. L \in T
    <3> HIDE DEF T
    <3>1. 0 .. L \subseteq T
      BY <1>1, <2>1, <2>2, UpTo
    <3> QED BY <1>1, <3>1
  <2>4. P(L) = c
    BY WholeChain DEF P, L
  <2>5. e # NoEntry => ~(L < e.nHeight)
    BY <1>1, <2>0
  <2> QED BY <2>3, <2>4, <2>5
<1>15. ASSUME NEW a \in Names, NEW m \in 0 .. L, old[a] = Title(SubSeq(c, 1, m))[a]
       PROVE  xsc(old, c)[a] = Title(c)[a]
  BY <1>4, <1>14, <1>15 DEF P
<1>16. xsc(old, c) \in Index
  BY <1>1, <1>4, <1>13
<1> QED BY <1>15, <1>16 DEF L

-----------------------------------------------------------------------------
(* The pool and the pending operations.                                     *)
Pools == {p \in [pool : SUBSET Tx, state : [Names -> SUBSET Tx]] :
            \A a \in Names : p.state[a] \subseteq {t \in p.pool : Alias[t] = a}}

(* AcceptToMemoryPool makes pending what it pools, if anything.             *)
LEMMA AcceptKeeps ==
    ASSUME NEW p \in Pools, NEW c, NEW n, NEW t \in Tx
    PROVE  AcceptToMemoryPool(p, c, n, t) \in Pools
<1> DEFINE q == AcceptToMemoryPoolPost(p.state, n, t)
           more == [p.state EXCEPT ![Alias[t]] = @ \cup {t}]
<1>1. /\ p.pool \in SUBSET Tx /\ p.state \in [Names -> SUBSET Tx]
      /\ \A a \in Names : p.state[a] \subseteq {u \in p.pool : Alias[u] = a}
      /\ p = [pool |-> p.pool, state |-> p.state]
  BY DEF Pools
<1>2. q = p.state \/ q = more
  BY DEF AcceptToMemoryPoolPost
<1>3. Alias[t] \in Names
  BY DEF Names
<1>4. more \in [Names -> SUBSET Tx] /\
      \A a \in Names : more[a] = IF a = Alias[t] THEN p.state[a] \cup {t} ELSE p.state[a]
  BY <1>1, <1>3
<1> HIDE DEF more
<1>5. /\ q \in [Names -> SUBSET Tx]
      /\ \A a \in Names : q[a] \subseteq {u \in p.pool \cup {t} : Alias[u] = a}
  <2>1. CASE q = p.state
    BY <1>1, <2>1
  <2>2. CASE q = more
    <3> SUFFICES ASSUME NEW a \in Names, NEW u \in more[a]
                 PROVE  u \in p.pool \cup {t} /\ Alias[u] = a
      BY <1>4, <2>2
    <3> QED BY <1>1, <1>4
  <2> QED BY <1>2, <2>1, <2>2
<1> HIDE DEF q
<1>6. [pool |-> p.pool \cup {t}, state |-> q] \in Pools
  BY <1>1, <1>5 DEF Pools
<1> QED BY <1>6 DEF AcceptToMemoryPool, q

(* So do the transactions of a block that are offered one by one ...        *)
LEMMA AcceptAllKeeps ==
    ASSUME NEW p \in Pools, NEW c, NEW m, NEW s \in Seq(Tx)
    PROVE  AcceptAll(p, c, m, s) \in Pools
<1> DEFINE L == Len(s)
           A(q, n) == AcceptToMemoryPool(q, c, m, s[n])
           Eq(g) == g = [n \in 0 .. L |-> IF n = 0 THEN p ELSE A(g[n - 1], n)]
           F == [x \in Pools \X (1 .. L) |-> A(x[1], x[2])]
           h == CHOOSE g : Eq(g)
<1>1. L \in Nat /\ \A n \in 1 .. L : s[n] \in Tx
  OBVIOUS
<1>2. \A q \in Pools : \A n \in 1 .. L : A(q, n) \in Pools
  BY <1>1, AcceptKeeps
<1>3. AcceptAll(p, c, m, s) = h[L]
  BY DEF AcceptAll
<1> HIDE DEF L, A
<1>4. \A q \in Pools : \A n \in 1 .. L : F[<<q, n>>] = A(q, n) /\ F[<<q, n>>] \in Pools
  BY <1>2
<1> HIDE DEF F, Eq, h
<1>5. Loop(Pools, F, L)
  BY <1>1, <1>4 DEF Loop
<1>6. PICK g : Goes(g, Pools, F, L, p)
  BY <1>5, LoopRuns
<1>7. ASSUME NEW n \in 0 .. L PROVE g[n] = IF n = 0 THEN p ELSE A(g[n - 1], n)
  <2>1. n # 0 => n \in 1 .. L /\ n - 1 \in 0 .. L
    BY <1>1
  <2> QED BY <1>4, <1>6, <2>1 DEF Goes
<1>8. Eq(g)
  BY <1>6, <1>7 DEF Eq, Goes
<1>9. Eq(h)
  BY <1>8 DEF h
<1>10. h = [n \in 0 .. L |-> h[n]] /\ h[0] = p /\ \A n \in 1 .. L : h[n] = A(h[n - 1], n)
  <2>1. h = [n \in 0 .. L |-> IF n = 0 THEN p ELSE A(h[n - 1], n)]
    BY <1>9 DEF Eq
  <2>2. 0 \in 0 .. L /\ \A n \in 1 .. L : n \in 0 .. L /\ n # 0
    BY <1>1
  <2> QED BY <2>1, <2>2
<1>11. Goes(h, Pools, F, L, p)
  BY <1>4, <1>5, <1>10, LoopIs
<1> QED BY <1>1, <1>3, <1>11 DEF Goes

(* ... and the blocks of a branch.                                          *)
LEMMA ResurrectKeeps ==
    ASSUME NEW p \in Pools, NEW c, NEW m, NEW s \in Seq(Block)
    PROVE  Resurrect(p, c, m, s) \in Pools
<1> DEFINE L == Len(s)
           A(q, n) == AcceptAll(q, c, m, s[n].txs)
           Eq(g) == g = [n \in 0 .. L |-> IF n = 0 THEN p ELSE A(g[n - 1], n)]
           F == [x \in Pools \X (1 .. L) |-> A(x[1], x[2])]
           h == CHOOSE g : Eq(g)
<1>1. L \in Nat /\ \A n \in 1 .. L : s[n].txs \in Seq(Tx)
  BY BlockTxs
<1>2. \A q \in Pools : \A n \in 1 .. L : A(q, n) \in Pools
  BY <1>1, AcceptAllKeeps
<1>3. Resurrect(p, c, m, s) = h[L]
  BY DEF Resurrect
<1> HIDE DEF L, A
<1>4. \A q \in Pools : \A n \in 1 .. L : F[<<q, n>>] = A(q, n) /\ F[<<q, n>>] \in Pools
  BY <1>2
<1> HIDE DEF F, Eq, h
<1>5. Loop(Pools, F, L)
  BY <1>1, <1>4 DEF Loop
<1>6. PICK g : Goes(g, Pools, F, L, p)
  BY <1>5, LoopRuns
<1>7. ASSUME NEW n \in 0 .. L PROVE g[n] = IF n = 0 THEN p ELSE A(g[n - 1], n)
  <2>1. n # 0 => n \in 1 .. L /\ n - 1 \in 0 .. L
    BY <1>1
  <2> QED BY <1>4, <1>6, <2>1 DEF Goes
<1>8. Eq(g)
  BY <1>6, <1>7 DEF Eq, Goes
<1>9. Eq(h)
  BY <1>8 DEF h
<1>10. h = [n \in 0 .. L |-> h[n]] /\ h[0] = p /\ \A n \in 1 .. L : h[n] = A(h[n - 1], n)
  <2>1. h = [n \in 0 .. L |-> IF n = 0 THEN p ELSE A(h[n - 1], n)]
    BY <1>9 DEF Eq
  <2>2. 0 \in 0 .. L /\ \A n \in 1 .. L : n \in 0 .. L /\ n # 0
    BY <1>1
  <2> QED BY <2>1, <2>2
<1>11. Goes(h, Pools, F, L, p)
  BY <1>4, <1>5, <1>10, LoopIs
<1> QED BY <1>1, <1>3, <1>11 DEF Goes

(* What leaves the pool is no longer pending.                               *)
LEMMA RemoveKeeps ==
    ASSUME NEW p \in Pools, NEW S, NEW R, S \subseteq R
    PROVE  [pool |-> p.pool \ S, state |-> RemoveFromMemoryPoolPost(p.state, R)] \in Pools
<1> DEFINE q == RemoveFromMemoryPoolPost(p.state, R)
<1>1. /\ p.pool \in SUBSET Tx /\ p.state \in [Names -> SUBSET Tx]
      /\ \A a \in Names : p.state[a] \subseteq {u \in p.pool : Alias[u] = a}
  BY DEF Pools
<1>2. q \in [Names -> SUBSET Tx] /\ \A a \in Names : q[a] = p.state[a] \ R
  BY <1>1 DEF RemoveFromMemoryPoolPost
<1> HIDE DEF q
<1>3. \A a \in Names : q[a] \subseteq {u \in p.pool \ S : Alias[u] = a}
  BY <1>1, <1>2
<1>4. [pool |-> p.pool \ S, state |-> q] \in Pools
  BY <1>1, <1>2, <1>3 DEF Pools
<1> QED BY <1>4 DEF q

-----------------------------------------------------------------------------
(* The invariant.  The chain is well made, and the index is right, for the  *)
(* chain that filter() has seen, about every name it has been told          *)
(* everything about.                                                        *)
Seen(c, stage) == IF stage = "filter" THEN SubSeq(c, 1, Len(c) - 1) ELSE c

IndexRight(c, ix, stage, miss) ==
    \A a \in Names \ miss : ix[a] = Title(Seen(c, stage))[a]

DionsInv ==
    /\ WellMade(chain) /\ Len(chain) > 0
    /\ locator \in Index
    /\ [pool |-> mempool, state |-> mapState] \in Pools
    /\ pc \in {"idle", "filter"} /\ forks \in Nat
    /\ IndexRight(chain, locator, pc, missed)

(* It holds with the first block ...                                        *)
LEMMA DionsInit == Init => DionsInv
<1> SUFFICES ASSUME Init PROVE DionsInv
  OBVIOUS
<1> DEFINE b == [id |-> 0, txs |-> Registered]
<1>1. chain = <<b>> /\ b \in Block
  BY DionsAssumption DEF Init, Block
<1>2. chain \in Seq(Block) /\ Len(chain) = 1 /\ chain[1] = b
  BY <1>1
<1>3. \A t \in InBlock(chain, 1) : Op[t] = "encrypted"
  BY <1>2, DionsAssumption DEF InBlock
<1>4. \A h \in 1 .. Len(chain) : h = 1
  BY <1>2
<1>11. \A h \in 1 .. Len(chain) : \A i \in 1 .. Len(chain[h].txs) : Carries(chain, h, i)
  <2> SUFFICES ASSUME NEW i \in 1 .. Len(chain[1].txs) PROVE Carries(chain, 1, i)
    BY <1>4
  <2>1. 1 \in 1 .. Len(chain)
    BY <1>2
  <2>2. chain[1].txs[i] \in InBlock(chain, 1)
    BY <1>2, <2>1, BlockTxs
  <2> QED BY <1>3, <2>2 DEF Carries
<1>5. WellMade(chain)
  BY <1>2, <1>3, <1>4, <1>11 DEF WellMade
<1>6. locator \in Index /\ pc = "idle" /\ forks \in Nat
  BY DEF Init, Index, Maybe
<1>7. [pool |-> mempool, state |-> mapState] \in Pools
  BY DEF Init, Pools
<1>8. ASSUME NEW a \in Names PROVE locator[a] = Title(chain)[a]
  <2>1. \A h \in 0 + 1 .. Len(chain) : h = 1
    <3>1. \A h \in 0 + 1 .. 1 : h = 1
      OBVIOUS
    <3> QED BY <1>2, <3>1
  <2>2. 0 \in 0 .. Len(chain)
    BY <1>2
  <2>3. Title(chain)[a] = Title(SubSeq(chain, 1, 0))[a]
    BY <1>3, <1>5, <2>1, <2>2, TitleUnnamed
  <2> QED BY <1>5, <2>3, TitleEmpty DEF Init
<1>9. IndexRight(chain, locator, pc, missed)
  BY <1>6, <1>8 DEF IndexRight, Seen
<1>10. Len(chain) > 0
  BY <1>2
<1> QED BY <1>5, <1>6, <1>7, <1>9, <1>10 DEF DionsInv

(* The sequences TLC can enumerate are sequences.                           *)
LEMMA Bounded ==
    ASSUME NEW S, S \subseteq Tx, NEW s \in BoundedSeq(S, MaxBlockTx)
    PROVE  s \in Seq(Tx)
BY DEF BoundedSeq, SeqOf

(* A block that ConnectBlock accepts is attached.                           *)
LEMMA AttachStep ==
    ASSUME DionsInv, pc = "idle", NEW s \in Seq(Tx), Connects(chain, s), SetBestChainInner(s)
    PROVE  DionsInv'
<1> DEFINE p == [pool |-> mempool, state |-> mapState]
<1>1. /\ WellMade(chain) /\ Len(chain) > 0 /\ forks \in Nat /\ chain \in Seq(Block)
      /\ p \in Pools /\ locator \in Index
  BY DEF DionsInv, WellMade
<1>2. /\ chain' = Append(chain, [id |-> forks, txs |-> s]) /\ pc' = "filter"
      /\ mempool' = mempool \ ToSet(s) /\ mapState' = RemoveFromMemoryPoolPost(mapState, ToSet(s))
      /\ locator' = locator /\ forks' = forks /\ missed' = missed
  BY DEF SetBestChainInner
<1>3. WellMade(chain')
  BY <1>1, <1>2, ConnectedMade
<1>4. /\ Len(chain') = Len(chain) + 1 /\ Len(chain') > 0
      /\ chain'[Len(chain')] = [id |-> forks, txs |-> s]
      /\ SubSeq(chain', 1, Len(chain') - 1) = chain
  BY <1>1, <1>2
<1>5. [pool |-> mempool', state |-> mapState'] \in Pools
  <2>1. [pool |-> p.pool \ ToSet(s), state |-> RemoveFromMemoryPoolPost(p.state, ToSet(s))] \in Pools
    <3> HIDE DEF p
    <3> QED BY <1>1, RemoveKeeps
  <2> QED BY <1>2, <2>1
<1>6. IndexRight(chain', locator', pc', missed')
  BY <1>2, <1>4 DEF IndexRight, Seen, DionsInv
<1> QED BY <1>1, <1>2, <1>3, <1>4, <1>5, <1>6 DEF DionsInv

(* filter() is called.                                                      *)
LEMMA FilterStep ==
    ASSUME DionsInv, FilterBlock
    PROVE  DionsInv'
<1>1. /\ WellMade(chain) /\ Len(chain) > 0 /\ chain \in Seq(Block) /\ locator \in Index
      /\ pc = "filter" /\ pc' = "idle" /\ chain' = chain /\ forks' = forks
      /\ mempool' = mempool /\ mapState' = mapState
      /\ locator' = FilterTop(locator, chain)
      /\ missed' = missed \ {a \in Names : /\ locator[a] # NoEntry
                                           /\ \E t \in ToSet(Last(chain).txs) :
                                                Op[t] = "relay" /\ Alias[t] = a}
  BY DEF DionsInv, FilterBlock, WellMade
<1>2. ASSUME NEW a \in Names \ missed' PROVE locator'[a] = Title(chain)[a]
  <2>1. \/ locator[a] = Title(SubSeq(chain, 1, Len(chain) - 1))[a]
        \/ locator[a] # NoEntry /\ On("relay", chain[Len(chain)].txs, a) # {}
    <3>1. CASE a \notin missed
      BY <1>1, <3>1 DEF DionsInv, IndexRight, Seen
    <3>2. CASE a \in missed
      <4>1. locator[a] # NoEntry /\ \E t \in ToSet(chain[Len(chain)].txs) :
                                      Op[t] = "relay" /\ Alias[t] = a
        BY <1>1, <1>2, <3>2 DEF Last
      <4> QED BY <4>1 DEF On, ToSet
    <3> QED BY <3>1, <3>2
  <2> QED BY <1>1, <2>1, FilterFollows
<1>3. IndexRight(chain', locator', pc', missed')
  BY <1>1, <1>2 DEF IndexRight, Seen
<1>4. locator' \in Index
  BY <1>1, FilterTopType
<1> QED BY <1>1, <1>3, <1>4 DEF DionsInv

(* A branch of other nodes' blocks is well made, on top of where it starts. *)
OnTop(new, c) ==
    WellMade(new) /\ Len(new) > Len(c) /\ SubSeq(new, 1, Len(c)) = c

(* A block more ...                                                         *)
LEMMA GrowMade ==
    ASSUME forks \in Nat, NEW C, \A c \in C : WellMade(c) /\ Len(c) > 0, NEW new \in Grow(C)
    PROVE  \E c \in C : OnTop(new, c)
<1>1. PICK c \in C : \E s \in PeerBlocks(c) : new = Append(c, [id |-> forks + 1, txs |-> s])
  BY DEF Grow
<1>2. PICK s \in PeerBlocks(c) : new = Append(c, [id |-> forks + 1, txs |-> s])
  BY <1>1
<1>3. s \in Seq(Tx) /\ Connects(c, s)
  <2>1. s \in BoundedSeq(Tx \ Txs(c), MaxBlockTx) /\ Connects(c, s)
    BY <1>2 DEF PeerBlocks
  <2> QED BY <2>1, Bounded
<1>4. WellMade(c) /\ Len(c) > 0 /\ forks + 1 \in Nat /\ c \in Seq(Block)
  BY DEF WellMade
<1>5. WellMade(new)
  BY <1>2, <1>3, <1>4, ConnectedMade
<1>6. [id |-> forks + 1, txs |-> s] \in Block
  BY <1>3, <1>4 DEF Block
<1>7. Len(new) = Len(c) + 1 /\ SubSeq(new, 1, Len(c)) = c
  BY <1>2, <1>4, <1>6
<1> QED BY <1>4, <1>5, <1>7 DEF OnTop

(* ... or two.                                                              *)
LEMMA BranchMade ==
    ASSUME forks \in Nat, NEW c, WellMade(c), Len(c) > 0, NEW new \in Branches(c)
    PROVE  OnTop(new, c)
<1>1. ASSUME NEW d \in Grow({c}) PROVE OnTop(d, c)
  BY GrowMade
<1>2. ASSUME NEW d \in Grow(Grow({c})) PROVE OnTop(d, c)
  <2>1. \A e \in Grow({c}) : WellMade(e) /\ Len(e) > 0
    <3> SUFFICES ASSUME NEW e \in Grow({c}) PROVE WellMade(e) /\ Len(e) > 0
      OBVIOUS
    <3>1. OnTop(e, c)
      BY <1>1
    <3>2. Len(e) \in Nat /\ Len(c) \in Nat
      BY <3>1 DEF OnTop, WellMade
    <3> QED BY <3>1, <3>2 DEF OnTop
  <2>2. PICK e \in Grow({c}) : OnTop(d, e)
    BY <2>1, GrowMade
  <2>3. OnTop(e, c)
    BY <1>1
  <2>4. d \in Seq(Block) /\ e \in Seq(Block) /\ c \in Seq(Block)
    BY <2>2, <2>3 DEF OnTop, WellMade
  <2>5. /\ Len(d) > Len(e) /\ Len(e) > Len(c)
        /\ e = SubSeq(d, 1, Len(e)) /\ c = SubSeq(e, 1, Len(c)) /\ WellMade(d)
    BY <2>2, <2>3 DEF OnTop
  <2>6. \A k \in 1 .. Len(c) : c[k] = e[k] /\ e[k] = d[k]
    BY <2>4, <2>5
  <2>7. SubSeq(d, 1, Len(c)) = c
    BY <2>4, <2>5, <2>6
  <2> QED BY <2>4, <2>5, <2>7 DEF OnTop
<1> QED BY <1>1, <1>2 DEF Branches

(* The names of the transactions of the blocks above a height.              *)
LEMMA NamedAbove ==
    ASSUME NEW c \in Seq(Block), NEW h \in 0 .. Len(c), NEW k \in h + 1 .. Len(c),
           NEW t \in InBlock(c, k), Op[t] # "encrypted"
    PROVE  t \in Txs(SubSeq(c, h + 1, Len(c)))
<1> DEFINE d == SubSeq(c, h + 1, Len(c))
<1>1. /\ d \in Seq(Block) /\ Len(d) = Len(c) - h
      /\ \A i \in 1 .. Len(c) - h : d[i] = c[h + i]
  BY SMTT(30)
<1>2. k - h \in 1 .. Len(c) - h /\ h + (k - h) = k
  OBVIOUS
<1> HIDE DEF d
<1>3. t \in InBlock(d, k - h)
  BY <1>1, <1>2 DEF InBlock
<1>4. t \in Txs(d)
  BY <1>1, <1>2, <1>3, TxsIs
<1> QED BY <1>4 DEF d

(* The branch changes; filter() is not called.                              *)
LEMMA ReorganizeStep ==
    ASSUME DionsInv, pc = "idle", NEW h \in 1 .. Len(chain) - 1,
           NEW new \in Branches(SubSeq(chain, 1, h)), Reorganize(h, new)
    PROVE  DionsInv'
<1> DEFINE old == SubSeq(chain, h + 1, Len(chain))
           con == Txs(SubSeq(new, h + 1, Len(new)))
           q == [pool |-> mempool, state |-> mapState]
           p == Resurrect(q, new, Len(chain), old)
           gone == Redundant(p, con)
<1>1. /\ WellMade(chain) /\ Len(chain) > 0 /\ chain \in Seq(Block) /\ locator \in Index
      /\ forks \in Nat /\ q \in Pools
  BY DEF DionsInv, WellMade
<1>2. /\ chain' = new /\ mempool' = p.pool \ gone
      /\ mapState' = RemoveFromMemoryPoolPost(p.state, gone \cup con)
      /\ forks' = forks + 1 /\ missed' = missed \cup Named(Txs(old) \cup con)
      /\ locator' = locator /\ pc' = pc
  BY DEF Reorganize
<1>3. h \in 0 .. Len(chain) /\ h > 0 /\ h \in Nat /\ Len(chain) \in Nat
  BY <1>1
<1>4. WellMade(SubSeq(chain, 1, h)) /\ Len(SubSeq(chain, 1, h)) = h
  BY <1>1, <1>3, PrefixMade
<1>5. WellMade(new) /\ Len(new) > h /\ SubSeq(new, 1, h) = SubSeq(chain, 1, h)
  BY <1>1, <1>3, <1>4, BranchMade DEF OnTop
<1>6. new \in Seq(Block) /\ Len(new) \in Nat
  BY <1>5 DEF WellMade
<1>7. h \in 0 .. Len(new) /\ Len(new) > 0
  BY <1>3, <1>5, <1>6
<1>8. [pool |-> mempool', state |-> mapState'] \in Pools
  <2>1. old \in Seq(Block)
    BY <1>1, <1>3
  <2> HIDE DEF q, old, con, gone
  <2>2. p \in Pools
    BY <1>1, <2>1, ResurrectKeeps
  <2> HIDE DEF p
  <2> QED BY <1>2, <2>2, RemoveKeeps
<1> HIDE DEF p, gone, q
<1>9. ASSUME NEW a \in Names \ missed' PROVE locator[a] = Title(new)[a]
  <2>1. \A t \in Txs(old) \cup con : Alias[t] = a => Op[t] = "encrypted"
    BY <1>2, <1>9 DEF Named
  <2>2. \A k \in h + 1 .. Len(chain) : \A t \in InBlock(chain, k) :
          Alias[t] = a => Op[t] = "encrypted"
    BY <1>1, <1>3, <2>1, NamedAbove
  <2>3. \A k \in h + 1 .. Len(new) : \A t \in InBlock(new, k) :
          Alias[t] = a => Op[t] = "encrypted"
    BY <1>6, <1>7, <2>1, NamedAbove
  <2>4. Title(chain)[a] = Title(SubSeq(chain, 1, h))[a]
    BY <1>1, <1>3, <2>2, TitleUnnamed
  <2>5. Title(new)[a] = Title(SubSeq(new, 1, h))[a]
    BY <1>5, <1>7, <2>3, TitleUnnamed
  <2>6. locator[a] = Title(chain)[a]
    BY <1>2, <1>9 DEF DionsInv, IndexRight, Seen
  <2> QED BY <1>5, <2>4, <2>5, <2>6
<1>10. IndexRight(chain', locator', pc', missed')
  BY <1>2, <1>9 DEF IndexRight, Seen
<1>12. forks' \in Nat /\ pc' \in {"idle", "filter"}
  BY <1>1, <1>2
<1> QED BY <1>1, <1>2, <1>5, <1>7, <1>8, <1>10, <1>12 DEF DionsInv

(* A restart loses the pool, and the call of filter() that was due.         *)
LEMMA RestartStep ==
    ASSUME DionsInv, NEW opt \in Options, Restart(opt)
    PROVE  DionsInv'
<1>1. /\ WellMade(chain) /\ Len(chain) > 0 /\ chain \in Seq(Block) /\ locator \in Index
      /\ forks \in Nat /\ chain' = chain /\ forks' = forks /\ pc' = "idle"
      /\ mempool' = {} /\ mapState' = [a \in Names |-> {}]
  BY DEF DionsInv, Restart, WellMade
<1>2. [pool |-> mempool', state |-> mapState'] \in Pools
  BY <1>1 DEF Pools
<1>3. locator' \in Index /\ \A a \in Names \ missed' : locator'[a] = Title(chain)[a]
  <2> DEFINE none == [a \in Names |-> NoEntry]
             m == IF pc = "filter" THEN Len(chain) - 1 ELSE Len(chain)
  <2>0. m \in 0 .. Len(chain) /\ Seen(chain, pc) = SubSeq(chain, 1, m)
    BY <1>1, WholeChain DEF Seen
  <2>1. CASE opt = "xscan"
    <3>1. locator' = xsc(none, chain)
      BY <2>1 DEF Restart
    <3>2. none \in Index /\ 0 \in 0 .. Len(chain)
      BY <1>1 DEF Index, Maybe
    <3>3. \A a \in Names : none[a] = Title(SubSeq(chain, 1, 0))[a]
      BY <1>1, TitleEmpty
    <3> HIDE DEF none
    <3> QED BY <1>1, <3>1, <3>2, <3>3, ScanIsTitle
  <2>5. CASE opt = "upgradewallet"
    <3>1. locator' = xsc(locator, chain) /\ missed' = missed
      BY <2>5 DEF Restart
    <3>2. \A a \in Names \ missed : locator[a] = Title(SubSeq(chain, 1, m))[a]
      BY <2>0 DEF DionsInv, IndexRight
    <3> HIDE DEF m
    <3> QED BY <1>1, <2>0, <3>1, <3>2, ScanIsTitle
  <2>2. CASE opt = "none" /\ pc = "filter"
    <3>1. locator' = locator /\ missed' = missed \cup Named(ToSet(Last(chain).txs))
      BY <2>2 DEF Restart
    <3> SUFFICES ASSUME NEW a \in Names \ missed' PROVE locator[a] = Title(chain)[a]
      BY <1>1, <3>1
    <3>6. m = Len(chain) - 1
      BY <2>2
    <3>2. m \in 0 .. Len(chain) /\ \A k \in m + 1 .. Len(chain) : k = Len(chain)
      BY <1>1, <3>6
    <3>3. \A t \in InBlock(chain, Len(chain)) : Alias[t] = a => Op[t] = "encrypted"
      BY <3>1 DEF Named, InBlock, Last
    <3>4. \A k \in m + 1 .. Len(chain) : \A t \in InBlock(chain, k) :
            Alias[t] = a => Op[t] = "encrypted"
      BY <3>2, <3>3
    <3>5. locator[a] = Title(SubSeq(chain, 1, m))[a]
      BY <2>0, <3>1 DEF DionsInv, IndexRight
    <3> HIDE DEF m
    <3> QED BY <1>1, <3>2, <3>4, <3>5, TitleUnnamed
  <2>3. CASE opt = "none" /\ pc # "filter"
    <3>1. locator' = locator /\ missed' = missed
      BY <2>3 DEF Restart
    <3> QED BY <1>1, <2>3, <3>1 DEF DionsInv, IndexRight, Seen
  <2> QED BY <2>1, <2>2, <2>3, <2>5 DEF Options
<1>4. IndexRight(chain', locator', pc', missed')
  BY <1>1, <1>3 DEF IndexRight, Seen
<1> QED BY <1>1, <1>2, <1>3, <1>4 DEF DionsInv

(* The pool changes, and what is pending with it.                           *)
LEMMA PoolStep ==
    ASSUME DionsInv, [pool |-> mempool', state |-> mapState'] \in Pools,
           UNCHANGED <<chain, locator, pc, forks, missed>>
    PROVE  DionsInv'
BY DEF DionsInv

(* Every step keeps the invariant.                                          *)
LEMMA DionsStep == DionsInv /\ [Next]_vars => DionsInv'
<1> SUFFICES ASSUME DionsInv, [Next]_vars PROVE DionsInv'
  OBVIOUS
<1> DEFINE p == [pool |-> mempool, state |-> mapState]
<1>1. p \in Pools
  BY DEF DionsInv
<1>2. ASSUME NEW t \in Tx, ReceiveTx(t) PROVE DionsInv'
  <2>1. AcceptToMemoryPool(p, chain, Len(chain), t) \in Pools
    <3> HIDE DEF p
    <3> QED BY <1>1, AcceptKeeps
  <2>2. /\ mempool' = AcceptToMemoryPool(p, chain, Len(chain), t).pool
        /\ mapState' = AcceptToMemoryPool(p, chain, Len(chain), t).state
        /\ UNCHANGED <<chain, locator, pc, forks, missed>>
    BY <1>2 DEF ReceiveTx
  <2>3. [pool |-> mempool', state |-> mapState'] = AcceptToMemoryPool(p, chain, Len(chain), t)
    <3> HIDE DEF p
    <3> QED BY <2>1, <2>2 DEF Pools
  <2> HIDE DEF p
  <2>4. [pool |-> mempool', state |-> mapState'] \in Pools
    BY <2>1, <2>3
  <2> QED BY <2>2, <2>4, PoolStep
<1>3. CASE ReceiveBlock
  <2>1. PICK s \in PeerBlocks(chain) : SetBestChainInner(s)
    BY <1>3 DEF ReceiveBlock
  <2>2. s \in BoundedSeq(Tx \ Txs(chain), MaxBlockTx) /\ Connects(chain, s)
    BY DEF PeerBlocks
  <2>3. s \in Seq(Tx)
    BY <2>2, Bounded
  <2> QED BY <1>3, <2>1, <2>2, <2>3, AttachStep DEF ReceiveBlock
<1>4. CASE StakeBlock
  <2>1. PICK s \in Templates : Connects(chain, s) /\ SetBestChainInner(s)
    BY <1>4 DEF StakeBlock
  <2>2. s \in BoundedSeq(mempool, MaxBlockTx)
    BY DEF Templates
  <2>3. s \in Seq(Tx)
    BY <1>1, <2>2, Bounded DEF Pools
  <2> QED BY <1>4, <2>1, <2>2, <2>3, AttachStep DEF StakeBlock
<1>5. CASE StakeRefused
  <2>1. PICK S : mapState' = RemoveFromMemoryPoolPost(mapState, S)
    BY <1>5 DEF StakeRefused
  <2>2. UNCHANGED <<chain, locator, mempool, pc, forks, missed>>
    BY <1>5 DEF StakeRefused
  <2>3. [pool |-> p.pool \ {}, state |-> RemoveFromMemoryPoolPost(p.state, S)] \in Pools
    <3> HIDE DEF p
    <3> QED BY <1>1, RemoveKeeps
  <2>4. [pool |-> mempool', state |-> mapState'] \in Pools
    <3>1. mempool' = p.pool \ {} /\ mapState' = RemoveFromMemoryPoolPost(p.state, S)
      BY <2>1, <2>2
    <3> HIDE DEF p
    <3> QED BY <2>3, <3>1
  <2> QED BY <2>2, <2>4, PoolStep
<1>6. CASE FilterBlock
  BY <1>6, FilterStep
<1>7. CASE ReorganizeAny
  BY <1>7, ReorganizeStep DEF ReorganizeAny
<1>8. CASE \E opt \in Options : Restart(opt)
  BY <1>8, RestartStep
<1>9. CASE UNCHANGED vars
  BY <1>9 DEF vars, DionsInv
<1> QED BY <1>2, <1>3, <1>4, <1>5, <1>6, <1>7, <1>8, <1>9 DEF Next

(* The invariant holds in every reachable state.                            *)
LEMMA DionsHolds == Spec => []DionsInv
BY DionsInit, DionsStep, PTL DEF Spec

-----------------------------------------------------------------------------
(* What the node's own block makes of a name in use that the index is right *)
(* about: it stays, or an OP_ALIAS_RELAY in the block has it, which the     *)
(* miner has taken because it spends the holder's transaction.              *)
LEMMA OwnBlock ==
    ASSUME DionsInv, pc = "idle", NEW s \in Templates, Connects(chain, s),
           NEW a \in Names \ missed,
           NEW n, n = Title(Append(chain, [id |-> forks, txs |-> s]))[a],
           locator[a] # NoEntry, Len(chain) + 1 - locator[a].nHeight < scaleMonitor,
           n # locator[a]
    PROVE  Op[n.tx] = "relay" /\ Prev[n.tx] = locator[a].tx
<1> DEFINE d == Append(chain, [id |-> forks, txs |-> s])
           N == Len(chain) + 1
           e == locator[a]
           R == On("relay", s, a)
<1>1. /\ WellMade(chain) /\ Len(chain) > 0 /\ chain \in Seq(Block) /\ forks \in Nat
      /\ mempool \subseteq Tx /\ e = Title(chain)[a] /\ a \in Names
  BY DEF DionsInv, WellMade, Pools, IndexRight, Seen
<1>2. s \in Seq(Tx) /\ Mineable(chain, locator, mapState, s)
  BY <1>1, Bounded DEF Templates
<1>3. WellMade(d)
  BY <1>1, <1>2, ConnectedMade
<1>4. [id |-> forks, txs |-> s] \in Block
  BY <1>1, <1>2 DEF Block
<1>5. /\ Len(d) = N /\ N \in 1 .. Len(d) /\ d[N].txs = s /\ N \in Nat
      /\ SubSeq(d, 1, N - 1) = chain /\ d \in Seq(Block)
  BY <1>1, <1>4
<1> HIDE DEF d
<1>6. n = Holder(e, d, N, a)
  <2>1. Title(SubSeq(d, 1, N))[a] = Holder(Title(SubSeq(d, 1, N - 1))[a], d, N, a)
    BY <1>1, <1>3, <1>5, TitleTop
  <2>2. SubSeq(d, 1, N) = d
    BY <1>3, <1>5, WholeChain
  <2> QED BY <1>1, <1>5, <2>1, <2>2 DEF d
<1>7. ~(N - e.nHeight >= scaleMonitor)
  <2>1. e.nHeight \in Nat
    BY <1>1, TitleIs
  <2> QED BY <1>5, <2>1, DionsAssumption
<1>8. R # {} /\ n = Pos(d, s[Max(R)])
  BY <1>5, <1>6, <1>7 DEF Holder
<1> DEFINE t == s[Max(R)]
<1>9. Max(R) \in R
  <2>1. R \subseteq 1 .. Len(s) /\ Len(s) \in Nat
    BY <1>2 DEF On
  <2> HIDE DEF R
  <2> QED BY <1>8, <2>1, MaxIs
<1>10. Max(R) \in DOMAIN s /\ Op[t] = "relay" /\ Alias[t] = a
  BY <1>9 DEF On
<1>11. aliasTxPos(e, chain, Prev[t])
  BY <1>2, <1>10 DEF Mineable, ConnectInputsPost
<1>12. e.tx = Prev[t] /\ n.tx = t
  BY <1>8, <1>11 DEF aliasTxPos, Pos
<1> QED BY <1>10, <1>12

-----------------------------------------------------------------------------
(* aliascache.dat says who holds each name, whatever blocks, reorganisations*)
(* and restarts there are, except for names filter() has missed a block     *)
(* about: what filter() writes block by block, and what -xscan writes at    *)
(* once, is the title of the chain.                                         *)
THEOREM IndexHolds == Spec => []IndexIsTitle
<1>1. DionsInv => IndexIsTitle
  BY DEF DionsInv, IndexRight, Seen, IndexIsTitle
<1> QED BY <1>1, DionsHolds, PTL

(* An operation that is pending is in the pool, after every acceptance,     *)
(* removal, refused block, reorganisation and restart.                      *)
THEOREM PendingHolds == Spec => []PendingPooled
<1>1. DionsInv => PendingPooled
  BY DEF DionsInv, Pools, PendingPooled
<1> QED BY <1>1, DionsHolds, PTL

(* The node's own block never takes a name in use from its holder, whatever *)
(* blocks of other nodes it is built on, unless filter() has missed a block *)
(* about the name.                                                          *)
THEOREM OwnBlocksKeepHolders == Spec => []MinedKeepsHolder
<1>1. DionsInv => MinedKeepsHolder
  <2> SUFFICES ASSUME DionsInv, pc = "idle", NEW s \in Templates, Connects(chain, s),
                      NEW a \in Names \ missed
               PROVE  LET e == Title(chain)[a]
                          n == Title(Append(chain, [id |-> forks, txs |-> s]))[a]
                      IN /\ e # NoEntry /\ Len(chain) + 1 - e.nHeight < scaleMonitor
                         /\ n # e
                         => Op[n.tx] = "relay" /\ Prev[n.tx] = e.tx
    BY DEF MinedKeepsHolder
  <2>1. locator[a] = Title(chain)[a]
    BY DEF DionsInv, IndexRight, Seen
  <2> QED BY <2>1, OwnBlock
<1> QED BY <1>1, DionsHolds, PTL

=============================================================================
