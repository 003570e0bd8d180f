--------------------------- MODULE AddrManProofs ---------------------------
(***************************************************************************)
(* The tables of CAddrMan stay consistent and bounded, and what was reached *)
(* is kept, for every number and size of buckets, every hash and every      *)
(* history of operations, restarts included.                                *)
(***************************************************************************)
EXTENDS AddrMan, FiniteSetTheorems, SequenceTheorems, TLAPS

-----------------------------------------------------------------------------
(* Induction on a counter, over the set of the numbers that have the        *)
(* property, and what a loop computes.                                      *)

(* A set of natural numbers that is not empty has a least element.          *)
LEMMA LeastNat ==
    ASSUME NEW T, T \subseteq Nat, T # {}
    PROVE  \E n \in T : \A m \in T : n <= m
<1> DEFINE R == OpToRel(<, Nat)
<1>1. IsWellFoundedOn(R, Nat)
  BY NatLessThanWellFounded
<1>2. \A x, y \in Nat : <<y, x>> \in R <=> y < x
  BY DEF OpToRel
<1> HIDE DEF R
<1>3. PICK x \in T : \A y \in T : ~(<<y, x>> \in R)
  BY <1>1, WFMin
<1>4. \A y \in T : ~(y < x)
  BY <1>2, <1>3
<1> QED BY <1>4

(* A property of 0 that passes from each number to the next.                *)
LEMMA UpTo ==
    ASSUME NEW L \in Nat, NEW T, 0 \in T, \A n \in 0 .. L - 1 : n \in T => n + 1 \in T
    PROVE  0 .. L \subseteq T
<1> DEFINE R == {n \in 0 .. L : n \notin T}
<1>1. ASSUME R # {} PROVE FALSE
  <2>1. PICK n \in R : \A m \in R : n <= m
    <3>1. R \subseteq Nat
      OBVIOUS
    <3> HIDE DEF R
    <3> QED BY <1>1, <3>1, LeastNat
  <2>2. n # 0 /\ n - 1 \in 0 .. L - 1 /\ ~(n <= n - 1) /\ (n - 1) + 1 = n
    BY <2>1
  <2>3. n - 1 \in 0 .. L
    BY <2>2
  <2> QED BY <2>1, <2>2, <2>3
<1> QED BY <1>1

(* A loop of L rounds that applies F to its state, a member of W, and its   *)
(* counter; g is the states it goes through from w.                         *)
Loop(W, F, L) == L \in Nat /\ \A v \in W : \A n \in 1 .. L : F[<<v, n>>] \in W
Goes(g, W, F, L, w) ==
    /\ g \in [0 .. L -> W]
    /\ g[0] = w /\ \A n \in 1 .. L : g[n] = F[<<g[n - 1], n>>]

(* A loop runs to the end.                                                  *)
LEMMA LoopRuns ==
    ASSUME NEW W, NEW F, NEW L, Loop(W, F, L), NEW w \in W
    PROVE  \E g : Goes(g, W, F, L, w)
<1> USE DEF Loop
<1> DEFINE Run(g, m) == g[0] = w /\ \A n \in 1 .. m : g[n] = F[<<g[n - 1], n>>]
           T == {m \in 0 .. L : \E g \in [0 .. m -> W] : Run(g, m)}
<1>1. 0 \in T
  <2>1. [i \in 0 .. 0 |-> w] \in [0 .. 0 -> W] /\ Run([i \in 0 .. 0 |-> w], 0)
    OBVIOUS
  <2>2. 0 \in 0 .. L
    OBVIOUS
  <2> HIDE DEF Run
  <2> QED BY <2>1, <2>2
<1>2. ASSUME NEW m \in 0 .. L - 1, m \in T PROVE m + 1 \in T
  <2>1. PICK g \in [0 .. m -> W] : Run(g, m)
    BY <1>2
  <2> DEFINE h == [i \in 0 .. m + 1 |-> IF i = m + 1 THEN F[<<g[m], m + 1>>] ELSE g[i]]
  <2>2. g[m] \in W /\ m + 1 \in 1 .. L
    BY <1>2
  <2>3. h \in [0 .. m + 1 -> W]
    BY <2>2
  <2>4. ASSUME NEW n \in 1 .. m + 1 PROVE h[n] = F[<<h[n - 1], n>>]
    <3>1. CASE n = m + 1
      BY <3>1
    <3>2. CASE n \in 1 .. m
      BY <2>1, <3>2
    <3> QED BY <3>1, <3>2
  <2>5. h[0] = w
    BY <2>1
  <2>6. Run(h, m + 1)
    BY <2>4, <2>5
  <2>7. m + 1 \in 0 .. L
    BY <1>2
  <2> HIDE DEF h, Run
  <2> QED BY <2>3, <2>6, <2>7
<1>3. L \in T
  <2> HIDE DEF T
  <2>1. 0 .. L \subseteq T
    BY <1>1, <1>2, UpTo
  <2> QED BY <2>1
<1> QED BY <1>3 DEF Goes

(* Whatever satisfies the equations of a loop is what the loop goes through.*)
LEMMA LoopIs ==
    ASSUME NEW W, NEW F, NEW L, Loop(W, F, L), NEW w \in W, NEW h,
           h = [n \in 0 .. L |-> h[n]], h[0] = w,
           \A n \in 1 .. L : h[n - 1] \in W => h[n] = F[<<h[n - 1], n>>]
    PROVE  Goes(h, W, F, L, w)
<1> DEFINE T == {n \in 0 .. L : h[n] \in W}
<1>1. L \in Nat
  BY DEF Loop
<1>2. 0 \in T
  BY <1>1
<1>3. ASSUME NEW n \in 0 .. L - 1, n \in T PROVE n + 1 \in T
  <2>1. n + 1 \in 1 .. L /\ (n + 1) - 1 = n /\ n + 1 \in 0 .. L
    BY <1>1
  <2> QED BY <1>3, <2>1 DEF Loop
<1>4. 0 .. L \subseteq T
  <2> HIDE DEF T
  <2> QED BY <1>1, <1>2, <1>3, UpTo
<1>5. \A n \in 0 .. L : h[n] \in W
  BY <1>4
<1>6. \A n \in 1 .. L : n - 1 \in 0 .. L
  BY <1>1
<1>7. h \in [0 .. L -> W]
  BY <1>5
<1> QED BY <1>5, <1>6, <1>7 DEF Goes

-----------------------------------------------------------------------------
(* The inductive invariant, in parts.  m is the object at the end of an      *)
(* operation or in the middle of one.                                        *)

Field == {"mapInfo", "mapAddr", "vRandom", "nIdCount", "nTried", "nNew", "vvTried", "vvNew"}

Object(m) == m = [k \in Field |-> m[k]]

(* What the object is made of.                                               *)
Shape(m) ==
    /\ Object(m)
    /\ Ids(m) \subseteq 0 .. MaxId - 1
    /\ m.mapInfo \in [Ids(m) -> InfoType]
    /\ m.mapAddr \in [DOMAIN m.mapAddr -> Ids(m)]
    /\ m.vRandom \in Seq(Ids(m))
    /\ m.nIdCount \in 0 .. MaxId /\ m.nTried \in Int /\ m.nNew \in Int
    /\ m.vvTried \in [TriedBuckets -> Seq(Ids(m))]
    /\ m.vvNew \in [NewBuckets -> SUBSET Ids(m)]

(* mapAddr and vRandom lead to each entry and back; the next id is fresh.    *)
Indexed(m) ==
    /\ \A id \in Ids(m) :
         /\ id < m.nIdCount
         /\ Net[m.mapInfo[id].svc] \in DOMAIN m.mapAddr
         /\ m.mapAddr[Net[m.mapInfo[id].svc]] = id
         /\ m.mapInfo[id].nRandomPos \in 1 .. Len(m.vRandom)
         /\ m.vRandom[m.mapInfo[id].nRandomPos] = id
    /\ \A a \in DOMAIN m.mapAddr : Net[m.mapInfo[m.mapAddr[a]].svc] = a
    /\ \A p \in 1 .. Len(m.vRandom) : m.mapInfo[m.vRandom[p]].nRandomPos = p

(* A new entry is in as many new buckets as it counts, but for x, which has  *)
(* d places still to come; no other is without a place.                      *)
NewIn(m, id) == {b \in NewBuckets : id \in m.vvNew[b]}
InNew(m, x, d) ==
    \A id \in Ids(m) :
      ~m.mapInfo[id].fInTried =>
        /\ m.mapInfo[id].nRefCount = Cardinality(NewIn(m, id)) + (IF id = x THEN d ELSE 0)
        /\ id # x => m.mapInfo[id].nRefCount > 0

(* A tried entry has been reached, is in no new bucket and is once in the    *)
(* tried bucket of its service; nothing else is in a tried bucket.           *)
InTried(m) ==
    /\ \A id \in Ids(m) :
         m.mapInfo[id].fInTried =>
           /\ m.mapInfo[id].nLastSuccess # 0 /\ m.mapInfo[id].nRefCount = 0
           /\ \A b \in NewBuckets : id \notin m.vvNew[b]
           /\ \E p \in 1 .. Len(m.vvTried[TriedBucketOf[m.mapInfo[id].svc]]) :
                m.vvTried[TriedBucketOf[m.mapInfo[id].svc]][p] = id
    /\ \A b \in TriedBuckets : \A p \in 1 .. Len(m.vvTried[b]) :
         /\ m.mapInfo[m.vvTried[b][p]].fInTried
         /\ TriedBucketOf[m.mapInfo[m.vvTried[b][p]].svc] = b
         /\ \A q \in 1 .. Len(m.vvTried[b]) : m.vvTried[b][p] = m.vvTried[b][q] => p = q

(* The totals.                                                               *)
Fresh(m) == {id \in Ids(m) : ~m.mapInfo[id].fInTried}
Totals(m) == m.nTried = Cardinality(TriedIds(m)) /\ m.nNew = Cardinality(Fresh(m))

(* The sizes, r telling whether the new table was rebuilt.                   *)
Sized(m, r) ==
    /\ \A b \in TriedBuckets : Len(m.vvTried[b]) <= TriedBucketSize
    /\ r \/ \A b \in NewBuckets : Cardinality(m.vvNew[b]) <= NewBucketSize

(* Nothing was reached later than now.                                       *)
Past(m, t) == \A id \in Ids(m) : m.mapInfo[id].nLastSuccess <= t

Tables(m, x, d, r, t) ==
    Shape(m) /\ Indexed(m) /\ InNew(m, x, d) /\ InTried(m) /\ Totals(m) /\ Sized(m, r) /\ Past(m, t)

(* No entry is -1.                                                           *)
IInv ==
    /\ Tables(am, -1, 0, rebuilt, now)
    /\ now \in 1 .. MaxNow /\ rebuilt \in BOOLEAN

-----------------------------------------------------------------------------
(* The smallest number of a set.                                             *)
LEMMA MinIs ==
    ASSUME NEW S, S \subseteq Nat, S # {}
    PROVE  Min(S) \in S /\ \A i \in S : Min(S) <= i
<1>1. \E n \in S : \A m \in S : n <= m
  BY LeastNat
<1> QED BY <1>1 DEF Min

(* The numbers below n are n.                                                *)
LEMMA BelowIs ==
    ASSUME NEW n \in Nat
    PROVE  IsFiniteSet(0 .. n - 1) /\ Cardinality(0 .. n - 1) = n
BY FS_Interval

(* The ids are finitely many, and so are the buckets.                        *)
LEMMA Finite ==
    ASSUME NEW m, Shape(m)
    PROVE  /\ IsFiniteSet(Ids(m)) /\ Cardinality(Ids(m)) \in 0 .. MaxId
           /\ \A S \in SUBSET Ids(m) : IsFiniteSet(S) /\ Cardinality(S) \in 0 .. MaxId
           /\ \A S \in SUBSET NewBuckets : IsFiniteSet(S) /\ Cardinality(S) \in Nat
<1>1. IsFiniteSet(0 .. MaxId - 1) /\ Cardinality(0 .. MaxId - 1) = MaxId
  BY FS_Interval, AddrManAssumption
<1>2. IsFiniteSet(NewBuckets)
  BY FS_Interval, AddrManAssumption DEF NewBuckets
<1>3. Ids(m) \in SUBSET (0 .. MaxId - 1)
  BY DEF Shape
<1>4. ASSUME NEW S \in SUBSET Ids(m)
      PROVE  IsFiniteSet(S) /\ Cardinality(S) \in 0 .. MaxId
  <2>1. S \in SUBSET (0 .. MaxId - 1)
    BY <1>3
  <2>2. IsFiniteSet(S) /\ Cardinality(S) <= MaxId
    BY <1>1, <2>1, FS_Subset
  <2>3. Cardinality(S) \in Nat
    BY <2>2, FS_CardinalityType
  <2> QED BY <2>2, <2>3, AddrManAssumption
<1>5. ASSUME NEW S \in SUBSET NewBuckets
      PROVE  IsFiniteSet(S) /\ Cardinality(S) \in Nat
  BY <1>2, FS_Subset, FS_CardinalityType
<1> QED BY <1>4, <1>5

(* vRandom lists each entry once, and mapAddr has a key for each.            *)
LEMMA Listed ==
    ASSUME NEW m, Shape(m), Indexed(m)
    PROVE  /\ Len(m.vRandom) = Cardinality(Ids(m))
           /\ Cardinality(DOMAIN m.mapAddr) = Cardinality(Ids(m))
           /\ Len(m.vRandom) <= m.nIdCount
<1>1. IsFiniteSet(Ids(m)) /\ Cardinality(Ids(m)) \in Nat
  BY Finite
<1>2. Len(m.vRandom) = Cardinality(Ids(m))
  <2> DEFINE n == Len(m.vRandom)
  <2>1. n \in Nat /\ m.vRandom \in [1 .. n -> Ids(m)]
    BY LenProperties DEF Shape
  <2>2. \A p, q \in 1 .. n : m.vRandom[p] = m.vRandom[q] => p = q
    BY DEF Indexed
  <2>3. \A id \in Ids(m) : \E p \in 1 .. n : m.vRandom[p] = id
    BY DEF Indexed
  <2>4. m.vRandom \in Bijection(1 .. n, Ids(m))
    BY <2>1, <2>2, <2>3 DEF Bijection, Injection, Surjection, IsInjective
  <2>5. ExistsBijection(1 .. n, Ids(m))
    BY <2>4 DEF ExistsBijection
  <2> HIDE DEF n
  <2>6. Cardinality(Ids(m)) = n
    BY <2>1, <2>5, FS_CountingElements
  <2> QED BY <2>6 DEF n
<1>3. Cardinality(DOMAIN m.mapAddr) = Cardinality(Ids(m))
  <2> DEFINE f == [id \in Ids(m) |-> Net[m.mapInfo[id].svc]]
  <2>1. f \in [Ids(m) -> DOMAIN m.mapAddr]
    BY DEF Indexed
  <2>2. \A i, j \in Ids(m) : f[i] = f[j] => i = j
    BY DEF Indexed
  <2>3. \A a \in DOMAIN m.mapAddr : m.mapAddr[a] \in Ids(m) /\ f[m.mapAddr[a]] = a
    BY DEF Indexed, Shape
  <2> HIDE DEF f
  <2>4. f \in Bijection(Ids(m), DOMAIN m.mapAddr)
    BY <2>1, <2>2, <2>3 DEF Bijection, Injection, Surjection, IsInjective
  <2>5. ExistsBijection(Ids(m), DOMAIN m.mapAddr)
    BY <2>4 DEF ExistsBijection
  <2> QED BY <1>1, <2>5, FS_Bijection
<1>4. Cardinality(Ids(m)) <= m.nIdCount
  <2>1. m.nIdCount \in Nat
    BY AddrManAssumption DEF Shape
  <2>2. Ids(m) \in SUBSET (0 .. m.nIdCount - 1)
    <3>1. Ids(m) \subseteq Nat
      BY AddrManAssumption DEF Shape
    <3> QED BY <2>1, <3>1 DEF Indexed
  <2>3. IsFiniteSet(0 .. m.nIdCount - 1) /\ Cardinality(0 .. m.nIdCount - 1) = m.nIdCount
    BY <2>1, BelowIs
  <2> QED BY <2>2, <2>3, FS_Subset
<1> QED BY <1>2, <1>3, <1>4

(* A tried entry is at one place only, any other at none.                    *)
LEMMA TriedPlace ==
    ASSUME Shape(am), InTried(am), Sized(am, rebuilt), NEW id \in Ids(am)
    PROVE  /\ am.mapInfo[id].fInTried => Cardinality(TriedAt(id)) = 1
           /\ ~am.mapInfo[id].fInTried => TriedAt(id) = {}
<1> DEFINE kb == TriedBucketOf[am.mapInfo[id].svc]
<1>1. kb \in TriedBuckets
  BY AddrManAssumption DEF Shape, InfoType
<1>2. \A b \in TriedBuckets : Len(am.vvTried[b]) \in Nat
  BY DEF Shape
<1>3. \A at \in TriedAt(id) : /\ at \in TriedBuckets \X (1 .. TriedBucketSize)
                              /\ at[2] \in 1 .. Len(am.vvTried[at[1]])
                              /\ am.vvTried[at[1]][at[2]] = id
  BY <1>2, AddrManAssumption DEF TriedAt
<1>4. ASSUME ~am.mapInfo[id].fInTried PROVE TriedAt(id) = {}
  BY <1>3, <1>4 DEF InTried
<1>5. ASSUME am.mapInfo[id].fInTried PROVE Cardinality(TriedAt(id)) = 1
  <2>1. PICK p \in 1 .. Len(am.vvTried[kb]) : am.vvTried[kb][p] = id
    BY <1>5 DEF InTried
  <2>2. p \in 1 .. TriedBucketSize /\ p <= Len(am.vvTried[kb])
    BY <1>1, <1>2, <2>1, AddrManAssumption DEF Sized
  <2>3. <<kb, p>> \in TriedAt(id)
    BY <1>1, <2>1, <2>2 DEF TriedAt
  <2>4. ASSUME NEW at \in TriedAt(id) PROVE at = <<kb, p>>
    <3>1. at[1] \in TriedBuckets /\ at[2] \in 1 .. Len(am.vvTried[at[1]]) /\ am.vvTried[at[1]][at[2]] = id
      BY <1>3
    <3>2. at[1] = kb
      BY <3>1 DEF InTried
    <3>3. at[2] = p
      BY <1>1, <2>1, <3>1, <3>2 DEF InTried
    <3>4. at = <<at[1], at[2]>>
      BY <1>3
    <3> QED BY <3>2, <3>3, <3>4
  <2>5. TriedAt(id) = {<<kb, p>>}
    BY <2>3, <2>4
  <2> QED BY <2>5, FS_Singleton
<1> QED BY <1>4, <1>5

(* The tables are what TypeOK, TablesConsistent and BucketsBounded say.      *)
LEMMA TablesAre == IInv => TypeOK /\ TablesConsistent /\ BucketsBounded
<1> SUFFICES ASSUME IInv PROVE TypeOK /\ TablesConsistent /\ BucketsBounded
  OBVIOUS
<1>1. /\ Shape(am) /\ Indexed(am) /\ InNew(am, -1, 0) /\ InTried(am) /\ Totals(am) /\ Sized(am, rebuilt)
      /\ now \in 1 .. MaxNow /\ rebuilt \in BOOLEAN
  BY DEF IInv, Tables
<1>2. -1 \notin Ids(am) /\ \A id \in Ids(am) : am.mapInfo[id] \in InfoType
  BY <1>1 DEF Shape
<1>3. TypeOK
  <2>1. am.nTried \in 0 .. MaxId /\ am.nNew \in 0 .. MaxId
    BY <1>1, Finite DEF Totals, TriedIds, Fresh
  <2> QED BY <1>1, <1>2, <2>1 DEF TypeOK, Shape
<1>4. BucketsBounded
  BY <1>1 DEF BucketsBounded, Sized
<1>5. ASSUME NEW id \in Ids(am), am.mapInfo[id].fInTried
      PROVE  /\ am.mapInfo[id].nLastSuccess # 0 /\ am.mapInfo[id].nRefCount = 0
             /\ NewAt(id) = {} /\ Cardinality(TriedAt(id)) = 1
  BY <1>1, <1>5, TriedPlace DEF InTried, NewAt
<1>6. ASSUME NEW id \in Ids(am), ~am.mapInfo[id].fInTried
      PROVE  /\ am.mapInfo[id].nRefCount > 0
             /\ Cardinality(NewAt(id)) = am.mapInfo[id].nRefCount /\ TriedAt(id) = {}
  <2>1. TriedAt(id) = {}
    BY <1>1, <1>6, TriedPlace
  <2>2. NewAt(id) = NewIn(am, id) /\ Cardinality(NewAt(id)) \in Nat
    BY <1>1, Finite DEF NewAt, NewIn
  <2> QED BY <1>1, <1>2, <1>6, <2>1, <2>2 DEF InNew
<1>7. ASSUME NEW id \in Ids(am)
      PROVE  /\ am.mapAddr[Net[am.mapInfo[id].svc]] = id
             /\ am.mapInfo[id].nRandomPos <= Len(am.vRandom) /\ am.vRandom[am.mapInfo[id].nRandomPos] = id
  BY <1>1 DEF Indexed, Shape
<1>8. NewIds(am) = Fresh(am)
  <2>1. \A id \in Ids(am) : am.mapInfo[id].fInTried \in BOOLEAN /\ am.mapInfo[id].nRefCount \in Int
    BY <1>2, AddrManAssumption DEF InfoType
  <2> QED BY <1>5, <1>6, <2>1 DEF NewIds, Fresh
<1>9. TablesConsistent
  BY <1>1, <1>5, <1>6, <1>7, <1>8, Listed DEF TablesConsistent, Totals
<1> QED BY <1>3, <1>4, <1>9

(* The empty tables.                                                         *)
LEMMA InitTables == Init => IInv
<1> SUFFICES ASSUME Init PROVE IInv
  OBVIOUS
<1> USE DEF Init, Empty
<1>1. Ids(am) = {} /\ DOMAIN am.mapAddr = {} /\ Len(am.vRandom) = 0
  BY DEF Ids
<1>2. Shape(am)
  <2>1. Object(am)
    BY DEF Field, Object
  <2>2. am.mapInfo \in [Ids(am) -> InfoType] /\ am.mapAddr \in [DOMAIN am.mapAddr -> Ids(am)]
    BY DEF Ids
  <2>3. am.vRandom \in Seq(Ids(am))
    OBVIOUS
  <2>4. am.vvTried \in [TriedBuckets -> Seq(Ids(am))]
    OBVIOUS
  <2>5. am.vvNew \in [NewBuckets -> SUBSET Ids(am)]
    OBVIOUS
  <2>6. am.nIdCount \in 0 .. MaxId /\ am.nTried \in Int /\ am.nNew \in Int
    BY AddrManAssumption
  <2> QED BY <1>1, <2>1, <2>2, <2>3, <2>4, <2>5, <2>6 DEF Shape
<1>3. /\ \A b \in TriedBuckets : Len(am.vvTried[b]) = 0
      /\ \A b \in NewBuckets : am.vvNew[b] = {}
      /\ am.nTried = 0 /\ am.nNew = 0 /\ now = 1 /\ rebuilt = FALSE
  OBVIOUS
<1> HIDE DEF Init, Empty
<1>4. Indexed(am) /\ InNew(am, -1, 0) /\ Past(am, now)
  BY <1>1 DEF Indexed, InNew, Past
<1>5. InTried(am)
  BY <1>1, <1>3 DEF InTried
<1>6. Totals(am)
  <2>1. TriedIds(am) = {} /\ Fresh(am) = {}
    BY <1>1 DEF TriedIds, Fresh
  <2> QED BY <1>3, <2>1, FS_EmptySet DEF Totals
<1>7. Sized(am, rebuilt)
  <2>1. \A b \in NewBuckets : Cardinality(am.vvNew[b]) = 0
    BY <1>3, FS_EmptySet
  <2> QED BY <1>3, <2>1, AddrManAssumption DEF Sized
<1>8. now \in 1 .. MaxNow
  BY <1>3, AddrManAssumption
<1>9. rebuilt \in BOOLEAN
  BY <1>3
<1> QED BY <1>2, <1>4, <1>5, <1>6, <1>7, <1>8, <1>9 DEF IInv, Tables

-----------------------------------------------------------------------------
(* Steps that leave every entry where it is.                                 *)
SameLodging(m, r) ==
    /\ Ids(r) = Ids(m) /\ r.vvNew = m.vvNew /\ r.vvTried = m.vvTried
    /\ r.nTried = m.nTried /\ r.nNew = m.nNew
    /\ \A id \in Ids(m) :
         /\ r.mapInfo[id].svc = m.mapInfo[id].svc
         /\ r.mapInfo[id].nRefCount = m.mapInfo[id].nRefCount
         /\ r.mapInfo[id].fInTried = m.mapInfo[id].fInTried
         /\ r.mapInfo[id].nLastSuccess >= m.mapInfo[id].nLastSuccess
SameIndexes(m, r) ==
    /\ Ids(r) = Ids(m) /\ r.mapAddr = m.mapAddr /\ r.vRandom = m.vRandom
    /\ r.nIdCount = m.nIdCount
    /\ \A id \in Ids(m) : /\ r.mapInfo[id].svc = m.mapInfo[id].svc
                          /\ r.mapInfo[id].nRandomPos = m.mapInfo[id].nRandomPos

(* The buckets are still right.                                              *)
LEMMA LodgingKept ==
    ASSUME NEW m, NEW r, Shape(m), SameLodging(m, r)
    PROVE  /\ \A x, d : InNew(m, x, d) => InNew(r, x, d)
           /\ InTried(m) => InTried(r)
           /\ Totals(m) => Totals(r)
           /\ \A rb : Sized(m, rb) => Sized(r, rb)
<1>1. \A id : NewIn(r, id) = NewIn(m, id)
  BY DEF SameLodging, NewIn
<1>2. ASSUME NEW x, NEW d, InNew(m, x, d) PROVE InNew(r, x, d)
  BY <1>1, <1>2 DEF SameLodging, InNew
<1>3. ASSUME InTried(m) PROVE InTried(r)
  <2>1. \A id \in Ids(m) : m.mapInfo[id].nLastSuccess \in Nat
    BY AddrManAssumption DEF Shape, InfoType
  <2>2. \A id \in Ids(m) : m.mapInfo[id].nLastSuccess # 0 => r.mapInfo[id].nLastSuccess # 0
    BY <2>1 DEF SameLodging
  <2>3. \A b \in TriedBuckets : \A p \in 1 .. Len(m.vvTried[b]) : m.vvTried[b][p] \in Ids(m)
    BY DEF Shape
  <2>4. ASSUME NEW id \in Ids(r), r.mapInfo[id].fInTried
        PROVE  /\ r.mapInfo[id].nLastSuccess # 0 /\ r.mapInfo[id].nRefCount = 0
               /\ \A b \in NewBuckets : id \notin r.vvNew[b]
               /\ \E p \in 1 .. Len(r.vvTried[TriedBucketOf[r.mapInfo[id].svc]]) :
                    r.vvTried[TriedBucketOf[r.mapInfo[id].svc]][p] = id
    BY <1>3, <2>2, <2>4 DEF InTried, SameLodging
  <2>5. ASSUME NEW b \in TriedBuckets, NEW p \in 1 .. Len(r.vvTried[b])
        PROVE  /\ r.mapInfo[r.vvTried[b][p]].fInTried
               /\ TriedBucketOf[r.mapInfo[r.vvTried[b][p]].svc] = b
               /\ \A q \in 1 .. Len(r.vvTried[b]) : r.vvTried[b][p] = r.vvTried[b][q] => p = q
    <3>1. r.vvTried = m.vvTried /\ p \in 1 .. Len(m.vvTried[b])
      BY DEF SameLodging
    <3>2. /\ m.mapInfo[m.vvTried[b][p]].fInTried
          /\ TriedBucketOf[m.mapInfo[m.vvTried[b][p]].svc] = b
          /\ \A q \in 1 .. Len(m.vvTried[b]) : m.vvTried[b][p] = m.vvTried[b][q] => p = q
      BY <1>3, <3>1 DEF InTried
    <3>3. m.vvTried[b][p] \in Ids(m)
      BY <2>3, <3>1
    <3>4. /\ r.mapInfo[m.vvTried[b][p]].svc = m.mapInfo[m.vvTried[b][p]].svc
          /\ r.mapInfo[m.vvTried[b][p]].fInTried = m.mapInfo[m.vvTried[b][p]].fInTried
      BY <3>3 DEF SameLodging
    <3> QED BY <3>1, <3>2, <3>4
  <2> QED BY <2>4, <2>5 DEF InTried
<1>4. TriedIds(r) = TriedIds(m) /\ Fresh(r) = Fresh(m)
  BY DEF SameLodging, TriedIds, Fresh
<1>5. Totals(m) => Totals(r)
  BY <1>4 DEF Totals, SameLodging
<1>6. \A rb : Sized(m, rb) => Sized(r, rb)
  BY DEF Sized, SameLodging
<1> QED BY <1>2, <1>3, <1>5, <1>6

(* The indexes are still right.                                              *)
LEMMA IndexesKept ==
    ASSUME NEW m, NEW r, Shape(m), Indexed(m), SameIndexes(m, r)
    PROVE  Indexed(r)
<1>1. /\ \A a \in DOMAIN m.mapAddr : m.mapAddr[a] \in Ids(m)
      /\ \A p \in 1 .. Len(m.vRandom) : m.vRandom[p] \in Ids(m)
  BY DEF Shape
<1>2. \A a \in DOMAIN r.mapAddr : Net[r.mapInfo[r.mapAddr[a]].svc] = a
  BY <1>1 DEF Indexed, SameIndexes
<1>3. \A p \in 1 .. Len(r.vRandom) : r.mapInfo[r.vRandom[p]].nRandomPos = p
  BY <1>1 DEF Indexed, SameIndexes
<1>4. ASSUME NEW id \in Ids(r)
      PROVE  /\ id < r.nIdCount
             /\ Net[r.mapInfo[id].svc] \in DOMAIN r.mapAddr
             /\ r.mapAddr[Net[r.mapInfo[id].svc]] = id
             /\ r.mapInfo[id].nRandomPos \in 1 .. Len(r.vRandom)
             /\ r.vRandom[r.mapInfo[id].nRandomPos] = id
  BY DEF Indexed, SameIndexes
<1> QED BY <1>2, <1>3, <1>4 DEF Indexed

(* An object with other entries for the same ids.                            *)
LEMMA ShapeKept ==
    ASSUME NEW m, Shape(m), NEW f \in [Ids(m) -> InfoType]
    PROVE  LET r == [m EXCEPT !.mapInfo = f]
           IN  /\ Shape(r) /\ Ids(r) = Ids(m) /\ r.mapInfo = f /\ r.mapAddr = m.mapAddr /\ r.vRandom = m.vRandom
               /\ r.nIdCount = m.nIdCount /\ r.nTried = m.nTried /\ r.nNew = m.nNew
               /\ r.vvTried = m.vvTried /\ r.vvNew = m.vvNew
<1> DEFINE r == [m EXCEPT !.mapInfo = f]
<1>1. /\ Object(r) /\ r.mapInfo = f /\ r.mapAddr = m.mapAddr /\ r.vRandom = m.vRandom
      /\ r.nIdCount = m.nIdCount /\ r.nTried = m.nTried /\ r.nNew = m.nNew
      /\ r.vvTried = m.vvTried /\ r.vvNew = m.vvNew
  BY DEF Shape, Field, Object
<1>2. Ids(r) = Ids(m)
  BY <1>1 DEF Ids
<1> HIDE DEF r
<1>3. Shape(r)
  BY <1>1, <1>2 DEF Shape
<1> QED BY <1>1, <1>2, <1>3 DEF r

(* Changing the place of an entry twice, or to what it was.                  *)
LEMMA EntryAgain ==
    ASSUME NEW i \in InfoType, NEW p, NEW q
    PROVE  /\ [[i EXCEPT !.nRandomPos = q] EXCEPT !.nRandomPos = p] = [i EXCEPT !.nRandomPos = p]
           /\ [i EXCEPT !.nRandomPos = i.nRandomPos] = i
BY DEF InfoType

(* Two entries change places in vRandom.                                     *)
LEMMA SwapIs ==
    ASSUME NEW m, Shape(m), NEW p \in 1 .. Len(m.vRandom), NEW q \in 1 .. Len(m.vRandom)
    PROVE  LET r == SwapRandom(m, p, q)
               v == m.vRandom
           IN  /\ Object(r)
               /\ Ids(r) = Ids(m) /\ r.mapAddr = m.mapAddr /\ r.nIdCount = m.nIdCount
               /\ r.nTried = m.nTried /\ r.nNew = m.nNew /\ r.vvTried = m.vvTried /\ r.vvNew = m.vvNew
               /\ r.mapInfo = [id \in Ids(m) |-> [m.mapInfo[id] EXCEPT !.nRandomPos =
                     IF id = v[q] THEN p ELSE IF id = v[p] THEN q ELSE m.mapInfo[id].nRandomPos]]
               /\ r.vRandom = [n \in 1 .. Len(v) |-> IF n = q THEN v[p] ELSE IF n = p THEN v[q] ELSE v[n]]
<1> DEFINE r == SwapRandom(m, p, q)
           v == m.vRandom
<1>1. v[p] \in Ids(m) /\ v[q] \in Ids(m) /\ v \in [1 .. Len(v) -> Ids(m)]
  BY DEF Shape
<1>2. /\ Object(r)
      /\ r.mapAddr = m.mapAddr /\ r.nIdCount = m.nIdCount
      /\ r.nTried = m.nTried /\ r.nNew = m.nNew /\ r.vvTried = m.vvTried /\ r.vvNew = m.vvNew
      /\ r.mapInfo = [m.mapInfo EXCEPT ![v[p]].nRandomPos = q, ![v[q]].nRandomPos = p]
      /\ r.vRandom = [v EXCEPT ![p] = v[q], ![q] = v[p]]
  BY DEF SwapRandom, Shape, Field, Object
<1> HIDE DEF r
<1>3. r.vRandom = [n \in 1 .. Len(v) |-> IF n = q THEN v[p] ELSE IF n = p THEN v[q] ELSE v[n]]
  BY <1>1, <1>2
<1>4. m.mapInfo \in [Ids(m) -> InfoType]
  BY DEF Shape
<1> DEFINE g == [id \in Ids(m) |-> [m.mapInfo[id] EXCEPT !.nRandomPos =
                     IF id = v[q] THEN p ELSE IF id = v[p] THEN q ELSE m.mapInfo[id].nRandomPos]]
<1>5. r.mapInfo = g
  <2>1. DOMAIN r.mapInfo = Ids(m) /\ r.mapInfo = [id \in Ids(m) |-> r.mapInfo[id]]
    BY <1>1, <1>2, <1>4
  <2>2. ASSUME NEW id \in Ids(m) PROVE r.mapInfo[id] = g[id]
    <3> DEFINE i == m.mapInfo[id]
    <3>1. i \in InfoType /\ g[id] = [i EXCEPT !.nRandomPos =
             IF id = v[q] THEN p ELSE IF id = v[p] THEN q ELSE i.nRandomPos]
      BY <1>4
    <3>2. CASE id = v[q] /\ id = v[p]
      <4>1. r.mapInfo[id] = [[i EXCEPT !.nRandomPos = q] EXCEPT !.nRandomPos = p]
        BY <1>1, <1>2, <1>4, <3>2
      <4>2. g[id] = [i EXCEPT !.nRandomPos = p]
        BY <3>1, <3>2
      <4>3. i \in InfoType
        BY <3>1
      <4> HIDE DEF i, g
      <4>4. [[i EXCEPT !.nRandomPos = q] EXCEPT !.nRandomPos = p] = [i EXCEPT !.nRandomPos = p]
        BY <4>3, EntryAgain
      <4> QED BY <4>1, <4>2, <4>4
    <3>3. CASE id = v[q] /\ id # v[p]
      BY <1>1, <1>2, <1>4, <3>1, <3>3
    <3>4. CASE id # v[q] /\ id = v[p]
      BY <1>1, <1>2, <1>4, <3>1, <3>4
    <3>5. CASE id # v[q] /\ id # v[p]
      <4>1. r.mapInfo[id] = i
        BY <1>1, <1>2, <1>4, <3>5
      <4> QED BY <3>1, <3>5, <4>1, EntryAgain
    <3> QED BY <3>2, <3>3, <3>4, <3>5
  <2> QED BY <2>1, <2>2
<1>6. Ids(r) = Ids(m)
  BY <1>5 DEF Ids
<1> QED BY <1>2, <1>3, <1>5, <1>6 DEF r

(* SwapRandom keeps the indexes in step.                                     *)
LEMMA SwapKeeps ==
    ASSUME NEW m, Shape(m), Indexed(m), NEW p \in 1 .. Len(m.vRandom), NEW q \in 1 .. Len(m.vRandom)
    PROVE  LET r == SwapRandom(m, p, q)
           IN  /\ Shape(r) /\ Indexed(r) /\ SameLodging(m, r)
               /\ r.mapAddr = m.mapAddr /\ r.nIdCount = m.nIdCount
               /\ Len(r.vRandom) = Len(m.vRandom) /\ r.vRandom[q] = m.vRandom[p]
               /\ \A id \in Ids(m) : r.mapInfo[id].nLastSuccess = m.mapInfo[id].nLastSuccess
<1> DEFINE r == SwapRandom(m, p, q)
           v == m.vRandom
           Pos(id) == IF id = v[q] THEN p ELSE IF id = v[p] THEN q ELSE m.mapInfo[id].nRandomPos
           At(n) == IF n = q THEN v[p] ELSE IF n = p THEN v[q] ELSE v[n]
<1>1. /\ Object(r)
      /\ Ids(r) = Ids(m) /\ r.mapAddr = m.mapAddr /\ r.nIdCount = m.nIdCount
      /\ r.nTried = m.nTried /\ r.nNew = m.nNew /\ r.vvTried = m.vvTried /\ r.vvNew = m.vvNew
      /\ r.mapInfo = [id \in Ids(m) |-> [m.mapInfo[id] EXCEPT !.nRandomPos = Pos(id)]]
      /\ r.vRandom = [n \in 1 .. Len(v) |-> At(n)]
  BY SwapIs
<1> HIDE DEF r
<1>2. Len(v) \in Nat /\ v \in [1 .. Len(v) -> Ids(m)] /\ m.mapInfo \in [Ids(m) -> InfoType]
  BY DEF Shape
<1>3. \A n \in 1 .. Len(v) : At(n) \in Ids(m)
  BY <1>2
<1>4. \A id \in Ids(m) : Pos(id) \in 1 .. Len(v) /\ At(Pos(id)) = id
  BY <1>2 DEF Indexed
<1>5. \A n \in 1 .. Len(v) : Pos(At(n)) = n
  BY <1>2 DEF Indexed
<1> HIDE DEF At, Pos
<1>6. r.vRandom \in Seq(Ids(m)) /\ Len(r.vRandom) = Len(v) /\ \A n \in 1 .. Len(v) : r.vRandom[n] = At(n)
  BY <1>1, <1>2, <1>3
<1>7. Len(v) <= MaxId
  <2>1. Len(v) = Cardinality(Ids(m))
    BY Listed
  <2>2. Cardinality(Ids(m)) \in 0 .. MaxId
    BY Finite
  <2> QED BY <2>1, <2>2, AddrManAssumption
<1>8. ASSUME NEW id \in Ids(m)
      PROVE  /\ r.mapInfo[id] \in InfoType
             /\ r.mapInfo[id].nRandomPos = Pos(id)
             /\ r.mapInfo[id].svc = m.mapInfo[id].svc
             /\ r.mapInfo[id].nRefCount = m.mapInfo[id].nRefCount
             /\ r.mapInfo[id].fInTried = m.mapInfo[id].fInTried
             /\ r.mapInfo[id].nLastSuccess = m.mapInfo[id].nLastSuccess
  <2>1. m.mapInfo[id] \in InfoType /\ r.mapInfo[id] = [m.mapInfo[id] EXCEPT !.nRandomPos = Pos(id)]
    BY <1>1, <1>2
  <2>2. Pos(id) \in 1 .. MaxId
    BY <1>2, <1>4, <1>7, AddrManAssumption
  <2> QED BY <2>1, <2>2 DEF InfoType
<1>9. r.mapInfo \in [Ids(r) -> InfoType]
  BY <1>1, <1>8
<1>10. Shape(r)
  BY <1>1, <1>6, <1>9 DEF Shape
<1>11. SameLodging(m, r)
  <2>1. \A id \in Ids(m) : m.mapInfo[id].nLastSuccess \in Int
    BY <1>2 DEF InfoType
  <2>2. /\ Ids(r) = Ids(m) /\ r.vvNew = m.vvNew /\ r.vvTried = m.vvTried
        /\ r.nTried = m.nTried /\ r.nNew = m.nNew
    BY <1>1
  <2>3. \A id \in Ids(m) : r.mapInfo[id].nLastSuccess >= m.mapInfo[id].nLastSuccess
    BY <1>8, <2>1
  <2> QED BY <1>8, <2>2, <2>3 DEF SameLodging
<1>12. Indexed(r)
  <2>1. \A a \in DOMAIN r.mapAddr : Net[r.mapInfo[r.mapAddr[a]].svc] = a
    <3>1. \A a \in DOMAIN m.mapAddr : m.mapAddr[a] \in Ids(m) /\ Net[m.mapInfo[m.mapAddr[a]].svc] = a
      BY DEF Indexed, Shape
    <3> QED BY <1>1, <1>8, <3>1
  <2>2. \A n \in 1 .. Len(r.vRandom) : r.mapInfo[r.vRandom[n]].nRandomPos = n
    BY <1>3, <1>5, <1>6, <1>8
  <2>3. ASSUME NEW id \in Ids(r)
        PROVE  /\ id < r.nIdCount
               /\ Net[r.mapInfo[id].svc] \in DOMAIN r.mapAddr
               /\ r.mapAddr[Net[r.mapInfo[id].svc]] = id
               /\ r.mapInfo[id].nRandomPos \in 1 .. Len(r.vRandom)
               /\ r.vRandom[r.mapInfo[id].nRandomPos] = id
    <3>1. id \in Ids(m)
      BY <1>1
    <3>2. id < r.nIdCount /\ Net[r.mapInfo[id].svc] \in DOMAIN r.mapAddr /\ r.mapAddr[Net[r.mapInfo[id].svc]] = id
      BY <1>1, <1>8, <3>1 DEF Indexed
    <3> QED BY <1>4, <1>6, <1>8, <3>1, <3>2
  <2> QED BY <2>1, <2>2, <2>3 DEF Indexed
<1>13. r.vRandom[q] = v[p]
  BY <1>6 DEF At
<1> QED BY <1>1, <1>6, <1>8, <1>10, <1>11, <1>12, <1>13 DEF r

(* An entry in no bucket leaves all indexes.                                 *)
Gone(m, r, id) ==
    /\ Ids(r) = Ids(m) \ {id} /\ r.vvNew = m.vvNew /\ r.vvTried = m.vvTried
    /\ r.nTried = m.nTried /\ r.nNew = m.nNew - 1
    /\ \A j \in Ids(r) :
         /\ r.mapInfo[j].svc = m.mapInfo[j].svc
         /\ r.mapInfo[j].nRefCount = m.mapInfo[j].nRefCount
         /\ r.mapInfo[j].fInTried = m.mapInfo[j].fInTried
         /\ r.mapInfo[j].nLastSuccess = m.mapInfo[j].nLastSuccess

(* Delete does that.                                                         *)
LEMMA DeleteIs ==
    ASSUME NEW m, Shape(m), Indexed(m), NEW id \in Ids(m),
           \A b \in NewBuckets : id \notin m.vvNew[b],
           \A b \in TriedBuckets : \A p \in 1 .. Len(m.vvTried[b]) : m.vvTried[b][p] # id
    PROVE  Shape(Delete(m, id)) /\ Indexed(Delete(m, id)) /\ Gone(m, Delete(m, id), id)
<1> DEFINE n == Len(m.vRandom)
           s == SwapRandom(m, m.mapInfo[id].nRandomPos, n)
           a == Net[m.mapInfo[id].svc]
           r == Delete(m, id)
<1>1. n \in Nat \ {0} /\ m.mapInfo[id].nRandomPos \in 1 .. n /\ m.vRandom[m.mapInfo[id].nRandomPos] = id
  BY DEF Indexed, Shape
<1>2. n \in 1 .. n
  BY <1>1
<1>3. /\ Shape(s) /\ Indexed(s) /\ SameLodging(m, s) /\ s.mapAddr = m.mapAddr /\ s.nIdCount = m.nIdCount
      /\ Len(s.vRandom) = n /\ s.vRandom[n] = id
      /\ \A j \in Ids(m) : s.mapInfo[j].nLastSuccess = m.mapInfo[j].nLastSuccess
  BY <1>1, <1>2, SwapKeeps
<1>4. r = [s EXCEPT !.vRandom = Front(s.vRandom), !.mapAddr = Without(s.mapAddr, a),
                    !.mapInfo = Without(s.mapInfo, id), !.nNew = s.nNew - 1]
  BY <1>3 DEF Delete, Shape, Field, Object
<1> HIDE DEF s, n, r
<1>5. /\ Object(r)
      /\ r.vRandom = SubSeq(s.vRandom, 1, n - 1)
      /\ r.mapAddr = [y \in DOMAIN s.mapAddr \ {a} |-> s.mapAddr[y]]
      /\ r.mapInfo = [y \in Ids(s) \ {id} |-> s.mapInfo[y]]
      /\ r.nNew = s.nNew - 1 /\ r.nTried = s.nTried /\ r.nIdCount = s.nIdCount
      /\ r.vvTried = s.vvTried /\ r.vvNew = s.vvNew
  BY <1>3, <1>4 DEF Shape, Field, Object, Without, Ids, Front
<1>6. Ids(s) = Ids(m) /\ Ids(r) = Ids(m) \ {id}
  BY <1>3, <1>5 DEF Ids, SameLodging
<1>7. \A j \in Ids(r) : r.mapInfo[j] = s.mapInfo[j] /\ j \in Ids(s) /\ j # id
  BY <1>5, <1>6
<1>8. Gone(m, r, id)
  BY <1>3, <1>5, <1>6, <1>7 DEF Gone, SameLodging
<1>9. s.mapInfo[id].nRandomPos = n /\ s.mapInfo[id].svc = m.mapInfo[id].svc
  <2>1. s.mapInfo[s.vRandom[n]].nRandomPos = n
    BY <1>2, <1>3 DEF Indexed
  <2> QED BY <1>3, <2>1 DEF SameLodging
<1>10. /\ r.vRandom \in Seq(Ids(r)) /\ Len(r.vRandom) = n - 1
       /\ \A p \in 1 .. n - 1 : r.vRandom[p] = s.vRandom[p] /\ r.vRandom[p] \in Ids(r)
  <2>1. \A p \in 1 .. n - 1 : s.vRandom[p] \in Ids(m) /\ s.vRandom[p] # id
    <3>1. \A p \in 1 .. n - 1 : p \in 1 .. n /\ p # n
      BY <1>1
    <3>2. \A p \in 1 .. n : s.vRandom[p] \in Ids(s) /\ s.mapInfo[s.vRandom[p]].nRandomPos = p
      BY <1>3 DEF Indexed, Shape
    <3> QED BY <1>6, <1>9, <3>1, <3>2
  <2>2. \A p \in 1 .. n - 1 : s.vRandom[p] \in Ids(r)
    BY <1>6, <2>1
  <2>3. n - 1 \in Int /\ 1 \in Int
    BY <1>1
  <2>4. SubSeq(s.vRandom, 1, n - 1) \in Seq(Ids(r)) /\ Len(SubSeq(s.vRandom, 1, n - 1)) = IF 1 <= n - 1 THEN (n - 1) - 1 + 1 ELSE 0
    BY <2>2, <2>3, SubSeqProperties
  <2>5. \A p \in 1 .. (n - 1) - 1 + 1 : SubSeq(s.vRandom, 1, n - 1)[p] = s.vRandom[1 + p - 1]
    BY <2>2, <2>3, SubSeqProperties
  <2>6. \A p \in 1 .. n - 1 : SubSeq(s.vRandom, 1, n - 1)[p] = s.vRandom[p]
    BY <1>1, <2>5
  <2>7. Len(SubSeq(s.vRandom, 1, n - 1)) = n - 1
    BY <1>1, <2>4
  <2> QED BY <1>5, <2>2, <2>4, <2>6, <2>7
<1>11. \A y \in DOMAIN r.mapAddr : /\ y \in DOMAIN s.mapAddr /\ y # a /\ r.mapAddr[y] = s.mapAddr[y]
                                   /\ r.mapAddr[y] \in Ids(r) /\ Net[s.mapInfo[s.mapAddr[y]].svc] = y
  <2>1. \A y \in DOMAIN s.mapAddr : s.mapAddr[y] \in Ids(s) /\ Net[s.mapInfo[s.mapAddr[y]].svc] = y
    BY <1>3 DEF Indexed, Shape
  <2> QED BY <1>5, <1>6, <1>9, <2>1
<1>12. Shape(r)
  <2>1. Ids(r) \subseteq 0 .. MaxId - 1 /\ r.nIdCount \in 0 .. MaxId /\ r.nTried \in Int /\ r.nNew \in Int
    BY <1>3, <1>5, <1>6 DEF Shape
  <2>2. r.mapInfo \in [Ids(r) -> InfoType]
    BY <1>3, <1>5, <1>6 DEF Shape
  <2>3. r.mapAddr \in [DOMAIN r.mapAddr -> Ids(r)]
    BY <1>5, <1>11
  <2>4. r.vvNew \in [NewBuckets -> SUBSET Ids(r)]
    BY <1>3, <1>5, <1>6 DEF Shape, SameLodging
  <2>5. r.vvTried \in [TriedBuckets -> Seq(Ids(r))]
    <3>1. ASSUME NEW b \in TriedBuckets PROVE m.vvTried[b] \in Seq(Ids(r))
      <4>1. m.vvTried[b] \in Seq(Ids(m))
        BY DEF Shape
      <4>2. \A p \in 1 .. Len(m.vvTried[b]) : m.vvTried[b][p] \in Ids(r)
        BY <1>6, <4>1
      <4> QED BY <4>1, <4>2
    <3>2. r.vvTried = m.vvTried /\ m.vvTried = [b \in TriedBuckets |-> m.vvTried[b]]
      BY <1>3, <1>5 DEF SameLodging, Shape
    <3> QED BY <3>1, <3>2
  <2> QED BY <1>5, <1>10, <2>1, <2>2, <2>3, <2>4, <2>5 DEF Shape
<1>13. Indexed(r)
  <2>1. \A y \in DOMAIN r.mapAddr : Net[r.mapInfo[r.mapAddr[y]].svc] = y
    BY <1>7, <1>11
  <2>2. \A p \in 1 .. Len(r.vRandom) : r.mapInfo[r.vRandom[p]].nRandomPos = p
    <3>1. \A p \in 1 .. n - 1 : p \in 1 .. n
      BY <1>1
    <3>2. \A p \in 1 .. n : s.mapInfo[s.vRandom[p]].nRandomPos = p
      BY <1>3 DEF Indexed
    <3> QED BY <1>7, <1>10, <3>1, <3>2
  <2>3. ASSUME NEW j \in Ids(r)
        PROVE  /\ j < r.nIdCount
               /\ Net[r.mapInfo[j].svc] \in DOMAIN r.mapAddr
               /\ r.mapAddr[Net[r.mapInfo[j].svc]] = j
               /\ r.mapInfo[j].nRandomPos \in 1 .. Len(r.vRandom)
               /\ r.vRandom[r.mapInfo[j].nRandomPos] = j
    <3>1. /\ j < s.nIdCount /\ Net[s.mapInfo[j].svc] \in DOMAIN s.mapAddr /\ s.mapAddr[Net[s.mapInfo[j].svc]] = j
          /\ s.mapInfo[j].nRandomPos \in 1 .. n /\ s.vRandom[s.mapInfo[j].nRandomPos] = j
      BY <1>3, <1>7 DEF Indexed
    <3>2. s.mapAddr[a] = id
      BY <1>3 DEF Indexed
    <3>3. Net[s.mapInfo[j].svc] # a /\ s.mapInfo[j].nRandomPos # n
      BY <1>3, <1>7, <3>1, <3>2
    <3>4. s.mapInfo[j].nRandomPos \in 1 .. n - 1
      BY <1>1, <3>1, <3>3
    <3>5. r.mapInfo[j] = s.mapInfo[j]
      BY <1>7
    <3>6. Net[s.mapInfo[j].svc] \in DOMAIN r.mapAddr /\ r.mapAddr[Net[s.mapInfo[j].svc]] = j /\ j < r.nIdCount
      BY <1>5, <3>1, <3>3
    <3>7. s.mapInfo[j].nRandomPos \in 1 .. Len(r.vRandom) /\ r.vRandom[s.mapInfo[j].nRandomPos] = j
      BY <1>10, <3>1, <3>4
    <3> QED BY <3>5, <3>6, <3>7
  <2> QED BY <2>1, <2>2, <2>3 DEF Indexed
<1> QED BY <1>8, <1>12, <1>13 DEF r

-----------------------------------------------------------------------------
(* Places in the new table.                                                  *)

(* The entries of s are in r as they were in m.                              *)
Alike(m, r, s) ==
    \A j \in s : /\ j \in Ids(m) /\ j \in Ids(r)
                 /\ r.mapInfo[j].svc = m.mapInfo[j].svc
                 /\ r.mapInfo[j].nRefCount = m.mapInfo[j].nRefCount
                 /\ r.mapInfo[j].fInTried = m.mapInfo[j].fInTried
                 /\ r.mapInfo[j].nLastSuccess = m.mapInfo[j].nLastSuccess

(* The tried table of r is that of m when r has kept the tried entries.      *)
LEMMA TriedKept ==
    ASSUME NEW m, NEW r, Shape(m), InTried(m), NEW s, Ids(m) \ s \subseteq Fresh(m), Alike(m, r, s),
           \A j \in Ids(r) \ s : ~r.mapInfo[j].fInTried,
           r.vvTried = m.vvTried, \A b \in NewBuckets : r.vvNew[b] \cap s \subseteq m.vvNew[b]
    PROVE  InTried(r) /\ TriedIds(r) = TriedIds(m)
<1>1. \A j \in Ids(m) : m.mapInfo[j].fInTried => j \in s
  BY DEF Fresh
<1>2. \A j \in Ids(r) : r.mapInfo[j].fInTried => j \in s
  OBVIOUS
<1>3. ASSUME NEW j \in Ids(r), r.mapInfo[j].fInTried
      PROVE  /\ r.mapInfo[j].nLastSuccess # 0 /\ r.mapInfo[j].nRefCount = 0
             /\ \A b \in NewBuckets : j \notin r.vvNew[b]
             /\ \E p \in 1 .. Len(r.vvTried[TriedBucketOf[r.mapInfo[j].svc]]) :
                  r.vvTried[TriedBucketOf[r.mapInfo[j].svc]][p] = j
  <2>1. j \in s /\ j \in Ids(m) /\ m.mapInfo[j].fInTried
    BY <1>2, <1>3 DEF Alike
  <2>2. /\ m.mapInfo[j].nLastSuccess # 0 /\ m.mapInfo[j].nRefCount = 0
        /\ \A b \in NewBuckets : j \notin m.vvNew[b]
        /\ \E p \in 1 .. Len(m.vvTried[TriedBucketOf[m.mapInfo[j].svc]]) :
             m.vvTried[TriedBucketOf[m.mapInfo[j].svc]][p] = j
    BY <2>1 DEF InTried
  <2> QED BY <2>1, <2>2 DEF Alike
<1>4. ASSUME NEW b \in TriedBuckets, NEW p \in 1 .. Len(r.vvTried[b])
      PROVE  /\ r.mapInfo[r.vvTried[b][p]].fInTried
             /\ TriedBucketOf[r.mapInfo[r.vvTried[b][p]].svc] = b
             /\ \A q \in 1 .. Len(r.vvTried[b]) : r.vvTried[b][p] = r.vvTried[b][q] => p = q
  <2> DEFINE j == m.vvTried[b][p]
  <2>1. /\ j \in Ids(m) /\ m.mapInfo[j].fInTried /\ TriedBucketOf[m.mapInfo[j].svc] = b
        /\ \A q \in 1 .. Len(m.vvTried[b]) : j = m.vvTried[b][q] => p = q
    BY DEF InTried, Shape
  <2>2. j \in s
    BY <1>1, <2>1
  <2>3. r.mapInfo[j].fInTried = m.mapInfo[j].fInTried /\ r.mapInfo[j].svc = m.mapInfo[j].svc
    BY <2>2 DEF Alike
  <2>4. r.vvTried[b][p] = j
    OBVIOUS
  <2> HIDE DEF j
  <2> QED BY <2>1, <2>3, <2>4
<1>5. InTried(r)
  BY <1>3, <1>4 DEF InTried
<1>6. TriedIds(r) = TriedIds(m)
  BY <1>1, <1>2 DEF TriedIds, Alike
<1> QED BY <1>5, <1>6

(* One place less.                                                           *)
Less(m, b, id) == [m EXCEPT !.mapInfo[id].nRefCount = @ - 1, !.vvNew[b] = @ \ {id}]

(* The rest stays as it was.                                                 *)
LEMMA LessIs ==
    ASSUME NEW m, Shape(m), Indexed(m), NEW b \in NewBuckets, NEW id \in Ids(m), m.mapInfo[id].nRefCount > 0
    PROVE  LET r == Less(m, b, id)
           IN  /\ Shape(r) /\ Indexed(r) /\ Ids(r) = Ids(m)
               /\ r.vvNew = [m.vvNew EXCEPT ![b] = @ \ {id}]
               /\ r.vvTried = m.vvTried /\ r.nTried = m.nTried /\ r.nNew = m.nNew
               /\ Alike(m, r, Ids(m) \ {id})
               /\ r.mapInfo[id].nRefCount = m.mapInfo[id].nRefCount - 1
               /\ r.mapInfo[id].svc = m.mapInfo[id].svc
               /\ r.mapInfo[id].fInTried = m.mapInfo[id].fInTried
               /\ r.mapInfo[id].nLastSuccess = m.mapInfo[id].nLastSuccess
<1> DEFINE r == Less(m, b, id)
           i == [m.mapInfo[id] EXCEPT !.nRefCount = m.mapInfo[id].nRefCount - 1]
<1>1. m.mapInfo \in [Ids(m) -> InfoType] /\ m.vvNew \in [NewBuckets -> SUBSET Ids(m)]
  BY DEF Shape
<1>2. /\ Object(r)
      /\ r.mapInfo = [m.mapInfo EXCEPT ![id] = i]
      /\ r.vvNew = [m.vvNew EXCEPT ![b] = m.vvNew[b] \ {id}]
      /\ r.mapAddr = m.mapAddr /\ r.vRandom = m.vRandom /\ r.nIdCount = m.nIdCount
      /\ r.nTried = m.nTried /\ r.nNew = m.nNew /\ r.vvTried = m.vvTried
  BY <1>1 DEF Less, Shape, Object, Field
<1>3. /\ i \in InfoType /\ i.nRefCount = m.mapInfo[id].nRefCount - 1 /\ i.svc = m.mapInfo[id].svc
      /\ i.fInTried = m.mapInfo[id].fInTried /\ i.nLastSuccess = m.mapInfo[id].nLastSuccess
      /\ i.nRandomPos = m.mapInfo[id].nRandomPos
  <2>1. m.mapInfo[id] \in InfoType
    BY <1>1
  <2>2. m.mapInfo[id].nRefCount - 1 \in 0 .. NewBucketsPerAddress
    BY <2>1, AddrManAssumption DEF InfoType
  <2> HIDE DEF Indexed
  <2> QED BY <2>1, <2>2 DEF InfoType
<1> HIDE DEF r, i
<1>4. Ids(r) = Ids(m) /\ r.mapInfo[id] = i /\ \A j \in Ids(m) \ {id} : r.mapInfo[j] = m.mapInfo[j]
  BY <1>1, <1>2 DEF Ids
<1>5. Shape(r)
  <2>1. r.mapInfo \in [Ids(r) -> InfoType]
    BY <1>1, <1>2, <1>3, <1>4
  <2>2. r.vvNew \in [NewBuckets -> SUBSET Ids(r)]
    BY <1>1, <1>2, <1>4
  <2> QED BY <1>2, <1>4, <2>1, <2>2 DEF Shape
<1>6. SameIndexes(m, r)
  BY <1>2, <1>3, <1>4 DEF SameIndexes
<1>7. Indexed(r)
  BY <1>6, IndexesKept
<1>8. Alike(m, r, Ids(m) \ {id})
  BY <1>4 DEF Alike
<1> QED BY <1>2, <1>3, <1>4, <1>5, <1>7, <1>8 DEF r

(* Unreference takes entry id out of bucket b, and out of everything if that *)
(* was its last place; x still has d places to come.                         *)
LEMMA UnreferenceKeeps ==
    ASSUME NEW m, NEW x, NEW d, NEW rb, NEW t, Tables(m, x, d, rb, t),
           NEW b \in NewBuckets, NEW id \in m.vvNew[b], id # x
    PROVE  LET r == Unreference(m, b, id)
           IN  /\ Tables(r, x, d, rb, t)
               /\ r.vvNew = [m.vvNew EXCEPT ![b] = @ \ {id}]
               /\ Alike(m, r, Ids(m) \ {id}) /\ ~m.mapInfo[id].fInTried
<1> DEFINE e == Less(m, b, id)
           r == Unreference(m, b, id)
<1>1. Shape(m) /\ Indexed(m) /\ InNew(m, x, d) /\ InTried(m) /\ Totals(m) /\ Sized(m, rb) /\ Past(m, t)
  BY DEF Tables
<1>2. id \in Ids(m) /\ m.vvNew \in [NewBuckets -> SUBSET Ids(m)]
  BY <1>1 DEF Shape
<1>3. ~m.mapInfo[id].fInTried
  BY <1>1, <1>2 DEF InTried
<1>4. m.mapInfo[id].nRefCount = Cardinality(NewIn(m, id)) /\ m.mapInfo[id].nRefCount > 0
  <2>1. m.mapInfo[id].nRefCount = Cardinality(NewIn(m, id)) + 0
    BY <1>1, <1>2, <1>3 DEF InNew
  <2>2. Cardinality(NewIn(m, id)) \in Nat
    BY <1>1, Finite DEF NewIn
  <2> QED BY <1>1, <1>2, <1>3, <2>1, <2>2 DEF InNew
<1>5. /\ Shape(e) /\ Indexed(e) /\ Ids(e) = Ids(m)
      /\ e.vvNew = [m.vvNew EXCEPT ![b] = @ \ {id}]
      /\ e.vvTried = m.vvTried /\ e.nTried = m.nTried /\ e.nNew = m.nNew
      /\ Alike(m, e, Ids(m) \ {id})
      /\ e.mapInfo[id].nRefCount = m.mapInfo[id].nRefCount - 1
      /\ e.mapInfo[id].svc = m.mapInfo[id].svc
      /\ e.mapInfo[id].fInTried = m.mapInfo[id].fInTried
      /\ e.mapInfo[id].nLastSuccess = m.mapInfo[id].nLastSuccess
  BY <1>1, <1>2, <1>4, LessIs
<1>6. r = IF e.mapInfo[id].nRefCount = 0 THEN Delete(e, id) ELSE e
  BY DEF Unreference, Less
<1> HIDE DEF e, r
<1>7. \A c \in NewBuckets : e.vvNew[c] = IF c = b THEN m.vvNew[b] \ {id} ELSE m.vvNew[c]
  BY <1>2, <1>5
<1>8. Cardinality(NewIn(e, id)) = e.mapInfo[id].nRefCount
  <2>1. NewIn(e, id) = NewIn(m, id) \ {b} /\ b \in NewIn(m, id)
    BY <1>7 DEF NewIn
  <2>2. IsFiniteSet(NewIn(m, id))
    BY <1>1, Finite DEF NewIn
  <2> QED BY <1>4, <1>5, <2>1, <2>2, FS_RemoveElement
<1>9. \A j \in Ids(m) \ {id} : NewIn(e, j) = NewIn(m, j)
  BY <1>7 DEF NewIn
<1>10. /\ Ids(r) \in {Ids(m), Ids(m) \ {id}} /\ r.vvNew = e.vvNew /\ r.vvTried = m.vvTried
       /\ r.nTried = m.nTried /\ Shape(r) /\ Indexed(r) /\ Alike(m, r, Ids(m) \ {id})
       /\ Ids(r) = Ids(m) => /\ r.nNew = m.nNew /\ ~r.mapInfo[id].fInTried
                             /\ r.mapInfo[id].nLastSuccess = m.mapInfo[id].nLastSuccess
                             /\ r.mapInfo[id].nRefCount = Cardinality(NewIn(r, id))
                             /\ r.mapInfo[id].nRefCount > 0
       /\ Ids(r) # Ids(m) => r.nNew = m.nNew - 1
  <2>1. CASE e.mapInfo[id].nRefCount # 0
    <3>1. r = e
      BY <1>6, <2>1
    <3>2. e.mapInfo[id].nRefCount > 0
      <4>1. IsFiniteSet(NewIn(e, id))
        BY <1>5, Finite DEF NewIn
      <4>2. e.mapInfo[id].nRefCount \in Nat
        BY <1>8, <4>1, FS_CardinalityType
      <4> QED BY <2>1, <4>2
    <3> QED BY <1>3, <1>5, <1>8, <3>1, <3>2
  <2>2. CASE e.mapInfo[id].nRefCount = 0
    <3>1. NewIn(e, id) = {}
      <4>1. IsFiniteSet(NewIn(e, id))
        BY <1>5, Finite DEF NewIn
      <4> QED BY <1>8, <2>2, <4>1, FS_EmptySet
    <3>2. \A c \in NewBuckets : id \notin e.vvNew[c]
      BY <3>1 DEF NewIn
    <3>3. \A c \in TriedBuckets : \A p \in 1 .. Len(e.vvTried[c]) : e.vvTried[c][p] # id
      BY <1>1, <1>3, <1>5 DEF InTried
    <3>4. r = Delete(e, id) /\ id \in Ids(e)
      BY <1>2, <1>5, <1>6, <2>2
    <3>5. Shape(r) /\ Indexed(r) /\ Gone(e, r, id)
      BY <1>5, <3>2, <3>3, <3>4, DeleteIs
    <3>6. /\ Ids(r) = Ids(m) \ {id} /\ r.vvNew = e.vvNew /\ r.vvTried = m.vvTried
          /\ r.nTried = m.nTried /\ r.nNew = m.nNew - 1
      BY <1>5, <3>5 DEF Gone
    <3>7. Alike(m, r, Ids(m) \ {id})
      BY <1>5, <3>5, <3>6 DEF Gone, Alike
    <3>8. Ids(r) # Ids(m)
      BY <1>2, <3>6
    <3> QED BY <3>5, <3>6, <3>7, <3>8
  <2> QED BY <2>1, <2>2
<1>11. \A j : NewIn(r, j) = NewIn(e, j)
  BY <1>10 DEF NewIn
<1>12. InNew(r, x, d)
  <2> SUFFICES ASSUME NEW j \in Ids(r), ~r.mapInfo[j].fInTried
               PROVE  /\ r.mapInfo[j].nRefCount = Cardinality(NewIn(r, j)) + (IF j = x THEN d ELSE 0)
                      /\ j # x => r.mapInfo[j].nRefCount > 0
    BY DEF InNew
  <2>1. CASE j = id
    <3>1. Ids(r) = Ids(m)
      BY <1>10, <2>1
    <3>2. r.mapInfo[id].nRefCount = Cardinality(NewIn(r, id)) /\ r.mapInfo[id].nRefCount > 0
      BY <1>10, <3>1
    <3>3. Cardinality(NewIn(r, id)) \in Nat
      BY <1>10, Finite DEF NewIn
    <3> QED BY <2>1, <3>2, <3>3
  <2>2. CASE j # id
    <3>1. j \in Ids(m) \ {id}
      BY <1>10, <2>2
    <3>2. ~m.mapInfo[j].fInTried /\ r.mapInfo[j].nRefCount = m.mapInfo[j].nRefCount
      BY <1>10, <3>1 DEF Alike
    <3>3. NewIn(r, j) = NewIn(m, j)
      BY <1>9, <1>11, <3>1
    <3>4. /\ m.mapInfo[j].nRefCount = Cardinality(NewIn(m, j)) + (IF j = x THEN d ELSE 0)
          /\ j # x => m.mapInfo[j].nRefCount > 0
      BY <1>1, <3>1, <3>2 DEF InNew
    <3> QED BY <3>2, <3>3, <3>4
  <2> QED BY <2>1, <2>2
<1>13. InTried(r) /\ TriedIds(r) = TriedIds(m)
  <2> DEFINE s == Ids(m) \ {id}
  <2>1. Ids(m) \ s \subseteq Fresh(m)
    BY <1>2, <1>3 DEF Fresh
  <2>2. \A j \in Ids(r) \ s : ~r.mapInfo[j].fInTried
    <3>1. \A j \in Ids(r) \ s : j = id /\ Ids(r) = Ids(m)
      BY <1>10
    <3> QED BY <1>10, <3>1
  <2>3. \A c \in NewBuckets : r.vvNew[c] \cap s \subseteq m.vvNew[c]
    BY <1>7, <1>10
  <2>4. Alike(m, r, s) /\ r.vvTried = m.vvTried
    BY <1>10
  <2> HIDE DEF s
  <2> QED BY <1>1, <2>1, <2>2, <2>3, <2>4, TriedKept
<1>14. Totals(r)
  <2>1. IsFiniteSet(Fresh(m)) /\ id \in Fresh(m)
    BY <1>1, <1>2, <1>3, Finite DEF Fresh
  <2>2. CASE Ids(r) = Ids(m)
    <3>1. Fresh(r) = Fresh(m)
      BY <1>3, <1>10, <2>2 DEF Fresh, Alike
    <3> QED BY <1>1, <1>10, <1>13, <2>2, <3>1 DEF Totals
  <2>3. CASE Ids(r) # Ids(m)
    <3>1. Fresh(r) = Fresh(m) \ {id}
      BY <1>10, <2>3 DEF Fresh, Alike
    <3>2. Cardinality(Fresh(r)) = Cardinality(Fresh(m)) - 1
      BY <2>1, <3>1, FS_RemoveElement
    <3> QED BY <1>1, <1>10, <1>13, <2>3, <3>2 DEF Totals
  <2> QED BY <2>2, <2>3
<1>15. Sized(r, rb)
  <2>1. ASSUME NEW c \in NewBuckets, Cardinality(m.vvNew[c]) <= NewBucketSize
        PROVE  Cardinality(r.vvNew[c]) <= NewBucketSize
    <3>1. IsFiniteSet(m.vvNew[c]) /\ r.vvNew[c] \in SUBSET m.vvNew[c]
      BY <1>1, <1>2, <1>7, <1>10, Finite
    <3>2. Cardinality(r.vvNew[c]) <= Cardinality(m.vvNew[c]) /\ IsFiniteSet(r.vvNew[c])
      BY <3>1, FS_Subset
    <3>3. Cardinality(r.vvNew[c]) \in Nat /\ Cardinality(m.vvNew[c]) \in Nat
      BY <3>1, <3>2, FS_CardinalityType
    <3> QED BY <2>1, <3>2, <3>3, AddrManAssumption
  <2> QED BY <1>1, <1>10, <2>1 DEF Sized
<1>16. Past(r, t)
  <2>1. ASSUME NEW j \in Ids(r) PROVE r.mapInfo[j].nLastSuccess <= t
    <3>1. j \in Ids(m) /\ r.mapInfo[j].nLastSuccess = m.mapInfo[j].nLastSuccess
      <4>1. CASE j = id
        <5>1. Ids(r) = Ids(m)
          BY <1>10, <4>1
        <5> QED BY <1>2, <1>10, <4>1, <5>1
      <4>2. CASE j # id
        <5>1. j \in Ids(m) \ {id}
          BY <1>10, <4>2
        <5> QED BY <1>10, <5>1 DEF Alike
      <4> QED BY <4>1, <4>2
    <3> QED BY <1>1, <3>1 DEF Past
  <2> QED BY <2>1 DEF Past
<1>17. Tables(r, x, d, rb, t)
  BY <1>10, <1>12, <1>13, <1>14, <1>15, <1>16 DEF Tables
<1> QED BY <1>3, <1>5, <1>10, <1>17 DEF r

(* What was reached is still there, and was reached no earlier.              *)
Keeps(m, r) ==
    \A j \in TriedIds(m) : /\ j \in Ids(r) /\ r.mapInfo[j].svc = m.mapInfo[j].svc
                           /\ r.mapInfo[j].nLastSuccess >= m.mapInfo[j].nLastSuccess

(* Entries that stay as they are, all the tried ones among them, are kept.   *)
LEMMA AlikeKeeps ==
    ASSUME NEW m, NEW r, NEW s, Shape(m), Alike(m, r, s), Ids(m) \ s \subseteq Fresh(m)
    PROVE  Keeps(m, r) /\ TriedIds(m) \subseteq TriedIds(r)
<1>1. \A j \in TriedIds(m) : j \in Ids(m) /\ j \in s /\ m.mapInfo[j].fInTried
  BY DEF TriedIds, Fresh
<1>2. \A j \in TriedIds(m) : m.mapInfo[j].nLastSuccess \in Nat
  BY <1>1, AddrManAssumption DEF Shape, InfoType
<1>3. \A j \in TriedIds(m) : /\ j \in Ids(r) /\ r.mapInfo[j].svc = m.mapInfo[j].svc
                             /\ r.mapInfo[j].nLastSuccess = m.mapInfo[j].nLastSuccess
                             /\ r.mapInfo[j].fInTried
  BY <1>1 DEF Alike
<1>4. \A j \in TriedIds(m) : r.mapInfo[j].nLastSuccess >= m.mapInfo[j].nLastSuccess
  BY <1>2, <1>3
<1>5. TriedIds(m) \subseteq TriedIds(r)
  BY <1>3 DEF TriedIds
<1> QED BY <1>3, <1>4, <1>5 DEF Keeps

(* Place promises the entry one place more ...                               *)
More(m, id) == [m EXCEPT !.mapInfo[id].nRefCount = @ + 1]

(* ... which it has still to come.                                           *)
LEMMA MoreKeeps ==
    ASSUME NEW m, NEW id, NEW rb, NEW t, Tables(m, id, 0, rb, t), id \in Ids(m),
           ~m.mapInfo[id].fInTried, m.mapInfo[id].nRefCount < NewBucketsPerAddress
    PROVE  LET r == More(m, id)
           IN  /\ Tables(r, id, 1, rb, t) /\ r.vvNew = m.vvNew /\ Ids(r) = Ids(m)
               /\ Alike(m, r, Ids(m) \ {id}) /\ ~r.mapInfo[id].fInTried
<1> DEFINE r == More(m, id)
           i == [m.mapInfo[id] EXCEPT !.nRefCount = m.mapInfo[id].nRefCount + 1]
           f == [m.mapInfo EXCEPT ![id] = i]
<1>1. Shape(m) /\ Indexed(m) /\ InNew(m, id, 0) /\ InTried(m) /\ Totals(m) /\ Sized(m, rb) /\ Past(m, t)
  BY DEF Tables
<1>2. m.mapInfo \in [Ids(m) -> InfoType]
  BY <1>1 DEF Shape
<1>3. /\ i \in InfoType /\ i.nRefCount = m.mapInfo[id].nRefCount + 1 /\ i.svc = m.mapInfo[id].svc
      /\ i.fInTried = m.mapInfo[id].fInTried /\ i.nLastSuccess = m.mapInfo[id].nLastSuccess
      /\ i.nRandomPos = m.mapInfo[id].nRandomPos
  <2>1. m.mapInfo[id] \in InfoType
    BY <1>2
  <2>2. m.mapInfo[id].nRefCount + 1 \in 0 .. NewBucketsPerAddress
    BY <2>1, AddrManAssumption DEF InfoType
  <2> QED BY <2>1, <2>2 DEF InfoType
<1> HIDE DEF i
<1>4. f \in [Ids(m) -> InfoType] /\ f[id] = i /\ \A j \in Ids(m) \ {id} : f[j] = m.mapInfo[j]
  BY <1>2, <1>3
<1>5. r = [m EXCEPT !.mapInfo = f]
  BY <1>1 DEF More, i, Shape, Object, Field
<1> HIDE DEF f, r
<1>6. /\ Shape(r) /\ Ids(r) = Ids(m) /\ r.mapInfo = f /\ r.mapAddr = m.mapAddr /\ r.vRandom = m.vRandom
      /\ r.nIdCount = m.nIdCount /\ r.nTried = m.nTried /\ r.nNew = m.nNew
      /\ r.vvTried = m.vvTried /\ r.vvNew = m.vvNew
  BY <1>1, <1>4, <1>5, ShapeKept
<1>7. SameIndexes(m, r)
  BY <1>3, <1>4, <1>6 DEF SameIndexes
<1>8. Indexed(r)
  BY <1>1, <1>7, IndexesKept
<1>9. Alike(m, r, Ids(m) \ {id})
  BY <1>4, <1>6 DEF Alike
<1>10. \A j : NewIn(r, j) = NewIn(m, j)
  BY <1>6 DEF NewIn
<1>11. InNew(r, id, 1)
  <2> SUFFICES ASSUME NEW j \in Ids(r), ~r.mapInfo[j].fInTried
               PROVE  /\ r.mapInfo[j].nRefCount = Cardinality(NewIn(r, j)) + (IF j = id THEN 1 ELSE 0)
                      /\ j # id => r.mapInfo[j].nRefCount > 0
    BY DEF InNew
  <2>1. CASE j = id
    <3>1. m.mapInfo[id].nRefCount = Cardinality(NewIn(m, id)) + 0
      BY <1>1 DEF InNew
    <3>2. Cardinality(NewIn(m, id)) \in Nat
      BY <1>1, Finite DEF NewIn
    <3> QED BY <1>3, <1>4, <1>6, <1>10, <2>1, <3>1, <3>2
  <2>2. CASE j # id
    <3>1. j \in Ids(m) \ {id}
      BY <1>6, <2>2
    <3>2. ~m.mapInfo[j].fInTried /\ r.mapInfo[j].nRefCount = m.mapInfo[j].nRefCount
      BY <1>9, <3>1 DEF Alike
    <3>3. /\ m.mapInfo[j].nRefCount = Cardinality(NewIn(m, j)) + 0
          /\ m.mapInfo[j].nRefCount > 0
      BY <1>1, <2>2, <3>1, <3>2 DEF InNew
    <3> QED BY <1>10, <2>2, <3>2, <3>3
  <2> QED BY <2>1, <2>2
<1>12. ~r.mapInfo[id].fInTried /\ r.mapInfo[id].nLastSuccess = m.mapInfo[id].nLastSuccess
  BY <1>3, <1>4, <1>6
<1>13. InTried(r) /\ TriedIds(r) = TriedIds(m)
  <2> DEFINE s == Ids(m) \ {id}
  <2>1. Ids(m) \ s \subseteq Fresh(m)
    BY DEF Fresh
  <2>2. \A j \in Ids(r) \ s : ~r.mapInfo[j].fInTried
    BY <1>6, <1>12
  <2>3. \A c \in NewBuckets : r.vvNew[c] \cap s \subseteq m.vvNew[c]
    BY <1>6
  <2>4. Alike(m, r, s) /\ r.vvTried = m.vvTried
    BY <1>6, <1>9
  <2> HIDE DEF s
  <2> QED BY <1>1, <2>1, <2>2, <2>3, <2>4, TriedKept
<1>14. Totals(r)
  <2>1. Fresh(r) = Fresh(m)
    BY <1>6, <1>9, <1>12 DEF Fresh, Alike
  <2> QED BY <1>1, <1>6, <1>13, <2>1 DEF Totals
<1>15. Sized(r, rb)
  BY <1>1, <1>6 DEF Sized
<1>16. Past(r, t)
  <2>1. \A j \in Ids(r) : j \in Ids(m) /\ r.mapInfo[j].nLastSuccess = m.mapInfo[j].nLastSuccess
    BY <1>6, <1>9, <1>12 DEF Alike
  <2> QED BY <1>1, <2>1 DEF Past
<1>17. Tables(r, id, 1, rb, t)
  BY <1>6, <1>8, <1>11, <1>13, <1>14, <1>15, <1>16 DEF Tables
<1> QED BY <1>6, <1>9, <1>12, <1>17 DEF r

(* Place then puts the entry into the bucket.                                *)
Put(m, b, id) == [m EXCEPT !.vvNew[b] = @ \cup {id}]

(* Now no place is missing.                                                  *)
LEMMA PutKeeps ==
    ASSUME NEW m, NEW id, NEW rb, NEW t, Tables(m, id, 1, rb, t), id \in Ids(m),
           ~m.mapInfo[id].fInTried, NEW b \in NewBuckets, id \notin m.vvNew[b],
           rb \/ Cardinality(m.vvNew[b]) < NewBucketSize
    PROVE  LET r == Put(m, b, id)
           IN  Tables(r, -1, 0, rb, t) /\ Ids(r) = Ids(m) /\ r.mapInfo = m.mapInfo
<1> DEFINE r == Put(m, b, id)
<1>1. Shape(m) /\ Indexed(m) /\ InNew(m, id, 1) /\ InTried(m) /\ Totals(m) /\ Sized(m, rb) /\ Past(m, t)
  BY DEF Tables
<1>2. m.vvNew \in [NewBuckets -> SUBSET Ids(m)] /\ -1 \notin Ids(m)
  BY <1>1 DEF Shape
<1>3. /\ Object(r) /\ r.mapInfo = m.mapInfo /\ r.vvNew = [m.vvNew EXCEPT ![b] = m.vvNew[b] \cup {id}]
      /\ r.mapAddr = m.mapAddr /\ r.vRandom = m.vRandom /\ r.nIdCount = m.nIdCount
      /\ r.nTried = m.nTried /\ r.nNew = m.nNew /\ r.vvTried = m.vvTried
  BY <1>1 DEF Put, Shape, Object, Field
<1> HIDE DEF r
<1>4. Ids(r) = Ids(m)
  BY <1>3 DEF Ids
<1>5. \A c \in NewBuckets : r.vvNew[c] = IF c = b THEN m.vvNew[b] \cup {id} ELSE m.vvNew[c]
  BY <1>2, <1>3
<1>6. Shape(r)
  <2>1. r.vvNew \in [NewBuckets -> SUBSET Ids(r)]
    BY <1>2, <1>3, <1>4
  <2> QED BY <1>1, <1>3, <1>4, <2>1 DEF Shape
<1>7. Indexed(r)
  BY <1>1, <1>3, <1>4, IndexesKept DEF SameIndexes
<1>8. InNew(r, -1, 0)
  <2> SUFFICES ASSUME NEW j \in Ids(m), ~m.mapInfo[j].fInTried
               PROVE  m.mapInfo[j].nRefCount = Cardinality(NewIn(r, j)) + 0 /\ m.mapInfo[j].nRefCount > 0
    BY <1>2, <1>3, <1>4 DEF InNew
  <2>1. CASE j = id
    <3>1. NewIn(r, id) = NewIn(m, id) \cup {b} /\ b \notin NewIn(m, id)
      BY <1>5 DEF NewIn
    <3>2. IsFiniteSet(NewIn(m, id)) /\ Cardinality(NewIn(m, id)) \in Nat
      BY <1>1, Finite DEF NewIn
    <3>3. Cardinality(NewIn(r, id)) = Cardinality(NewIn(m, id)) + 1
      BY <3>1, <3>2, FS_AddElement
    <3>4. m.mapInfo[id].nRefCount = Cardinality(NewIn(m, id)) + 1
      BY <1>1, <2>1 DEF InNew
    <3> QED BY <2>1, <3>2, <3>3, <3>4
  <2>2. CASE j # id
    <3>1. NewIn(r, j) = NewIn(m, j)
      BY <1>5, <2>2 DEF NewIn
    <3>2. m.mapInfo[j].nRefCount = Cardinality(NewIn(m, j)) + 0 /\ m.mapInfo[j].nRefCount > 0
      BY <1>1, <2>2 DEF InNew
    <3> QED BY <3>1, <3>2
  <2> QED BY <2>1, <2>2
<1>9. InTried(r) /\ TriedIds(r) = TriedIds(m)
  <2> DEFINE s == Ids(m) \ {id}
  <2>1. Ids(m) \ s \subseteq Fresh(m)
    BY DEF Fresh
  <2>2. \A j \in Ids(r) \ s : ~r.mapInfo[j].fInTried
    BY <1>3, <1>4
  <2>3. \A c \in NewBuckets : r.vvNew[c] \cap s \subseteq m.vvNew[c]
    BY <1>5
  <2>4. Alike(m, r, s) /\ r.vvTried = m.vvTried
    BY <1>3, <1>4 DEF Alike
  <2> HIDE DEF s
  <2> QED BY <1>1, <2>1, <2>2, <2>3, <2>4, TriedKept
<1>10. Totals(r)
  <2>1. Fresh(r) = Fresh(m)
    BY <1>3, <1>4 DEF Fresh
  <2> QED BY <1>1, <1>3, <1>9, <2>1 DEF Totals
<1>11. Sized(r, rb)
  <2>1. ASSUME ~rb, NEW c \in NewBuckets PROVE Cardinality(r.vvNew[c]) <= NewBucketSize
    <3>1. CASE c # b
      BY <1>1, <1>5, <2>1, <3>1 DEF Sized
    <3>2. CASE c = b
      <4>1. IsFiniteSet(m.vvNew[b]) /\ Cardinality(m.vvNew[b]) \in Nat
        BY <1>1, <1>2, Finite, FS_CardinalityType
      <4>2. Cardinality(r.vvNew[b]) = Cardinality(m.vvNew[b]) + 1
        BY <1>5, <4>1, FS_AddElement
      <4> QED BY <2>1, <3>2, <4>1, <4>2, AddrManAssumption
    <3> QED BY <3>1, <3>2
  <2>2. \A c \in TriedBuckets : Len(r.vvTried[c]) <= TriedBucketSize
    BY <1>1, <1>3 DEF Sized
  <2> QED BY <2>1, <2>2 DEF Sized
<1>12. Past(r, t)
  BY <1>1, <1>3, <1>4 DEF Past
<1>13. Tables(r, -1, 0, rb, t)
  BY <1>6, <1>7, <1>8, <1>9, <1>10, <1>11, <1>12 DEF Tables
<1> QED BY <1>3, <1>4, <1>13 DEF r

(* Place gives an entry its place, at the cost of another if need be.        *)
LEMMA PlaceKeeps ==
    ASSUME NEW m, NEW id, NEW rb, NEW t, Tables(m, id, 0, rb, t), id \in Ids(m),
           ~m.mapInfo[id].fInTried, m.mapInfo[id].nRefCount < NewBucketsPerAddress,
           NEW b \in NewBuckets, NEW r \in Place(m, id, b)
    PROVE  Tables(r, -1, 0, rb, t) /\ Keeps(m, r)
<1>1. /\ Shape(m) /\ Indexed(m) /\ InNew(m, id, 0) /\ InTried(m) /\ Totals(m) /\ Sized(m, rb) /\ Past(m, t)
      /\ -1 \notin Ids(m) /\ m.vvNew \in [NewBuckets -> SUBSET Ids(m)]
  BY DEF Tables, Shape
<1>2. CASE id \in m.vvNew[b]
  <2>1. r = m
    BY <1>2 DEF Place
  <2>2. InNew(m, -1, 0)
    <3>1. m.mapInfo[id].nRefCount > 0
      <4>1. m.mapInfo[id].nRefCount = Cardinality(NewIn(m, id)) + 0
        BY <1>1 DEF InNew
      <4>2. IsFiniteSet(NewIn(m, id)) /\ Cardinality(NewIn(m, id)) \in Nat /\ NewIn(m, id) # {}
        BY <1>1, <1>2, Finite DEF NewIn
      <4>3. Cardinality(NewIn(m, id)) # 0
        BY <4>2, FS_EmptySet
      <4> QED BY <4>1, <4>2, <4>3
    <3> QED BY <1>1, <3>1 DEF InNew
  <2>3. Tables(m, -1, 0, rb, t)
    BY <1>1, <2>2 DEF Tables
  <2>4. Keeps(m, m)
    <3>1. Alike(m, m, Ids(m)) /\ Ids(m) \ Ids(m) \subseteq Fresh(m)
      BY DEF Alike
    <3> QED BY <1>1, <3>1, AlikeKeeps
  <2> QED BY <2>1, <2>3, <2>4
<1>3. CASE id \notin m.vvNew[b]
  <2> DEFINE e == More(m, id)
  <2>1. /\ Tables(e, id, 1, rb, t) /\ e.vvNew = m.vvNew /\ Ids(e) = Ids(m)
        /\ Alike(m, e, Ids(m) \ {id}) /\ ~e.mapInfo[id].fInTried
    BY MoreKeeps
  <2>2. \E w \in (IF Cardinality(m.vvNew[b]) = NewBucketSize THEN ShrinkNew(e, b) ELSE {e}) :
           r = Put(w, b, id)
    BY <1>3 DEF Place, More, Put
  <2> HIDE DEF e
  <2>3. IsFiniteSet(m.vvNew[b]) /\ Cardinality(m.vvNew[b]) \in Nat
    BY <1>1, Finite, FS_CardinalityType
  <2>4. CASE Cardinality(m.vvNew[b]) # NewBucketSize
    <3>1. r = Put(e, b, id)
      BY <2>2, <2>4
    <3>2. rb \/ Cardinality(e.vvNew[b]) < NewBucketSize
      BY <1>1, <2>1, <2>3, <2>4, AddrManAssumption DEF Sized
    <3>3. Tables(r, -1, 0, rb, t) /\ Ids(r) = Ids(e) /\ r.mapInfo = e.mapInfo
      BY <1>3, <2>1, <3>1, <3>2, PutKeeps
    <3>4. Alike(m, r, Ids(m) \ {id})
      BY <2>1, <3>3 DEF Alike
    <3>5. Ids(m) \ (Ids(m) \ {id}) \subseteq Fresh(m)
      BY DEF Fresh
    <3> QED BY <1>1, <3>3, <3>4, <3>5, AlikeKeeps
  <2>5. CASE Cardinality(m.vvNew[b]) = NewBucketSize
    <3>1. PICK w \in ShrinkNew(e, b) : r = Put(w, b, id)
      BY <2>2, <2>5
    <3> DEFINE bad == {j \in e.vvNew[b] : IsTerrible(e.mapInfo[j])}
    <3>2. PICK k \in (IF bad # {} THEN {Min(bad)} ELSE e.vvNew[b]) : w = Unreference(e, b, k)
      BY <3>1 DEF ShrinkNew
    <3>3. k \in e.vvNew[b]
      <4>1. bad \subseteq Nat
        BY <1>1, <2>1, AddrManAssumption DEF Shape
      <4>2. bad \subseteq e.vvNew[b]
        OBVIOUS
      <4> HIDE DEF bad
      <4>3. CASE bad # {}
        BY <3>2, <4>1, <4>2, <4>3, MinIs
      <4>4. CASE bad = {}
        BY <3>2, <4>4
      <4> QED BY <4>3, <4>4
    <3>4. k # id
      BY <1>3, <2>1, <3>3
    <3>5. /\ Tables(w, id, 1, rb, t)
          /\ w.vvNew = [e.vvNew EXCEPT ![b] = @ \ {k}]
          /\ Alike(e, w, Ids(e) \ {k}) /\ ~e.mapInfo[k].fInTried
      BY <2>1, <3>2, <3>3, <3>4, UnreferenceKeeps
    <3>6. w.vvNew[b] = m.vvNew[b] \ {k} /\ k \in Ids(m) /\ k \in m.vvNew[b]
      BY <1>1, <2>1, <3>3, <3>5
    <3>7. Cardinality(w.vvNew[b]) < NewBucketSize
      <4>1. Cardinality(w.vvNew[b]) = Cardinality(m.vvNew[b]) - 1
        BY <2>3, <3>6, FS_RemoveElement
      <4> QED BY <2>3, <2>5, <4>1
    <3>8. id \in Ids(w) /\ ~w.mapInfo[id].fInTried /\ id \notin w.vvNew[b]
      BY <1>3, <2>1, <3>4, <3>5, <3>6 DEF Alike
    <3>9. Tables(r, -1, 0, rb, t) /\ Ids(r) = Ids(w) /\ r.mapInfo = w.mapInfo
      BY <3>1, <3>5, <3>7, <3>8, PutKeeps
    <3> DEFINE s == Ids(m) \ {id, k}
    <3>10. ~m.mapInfo[k].fInTried
      BY <2>1, <3>4, <3>5, <3>6 DEF Alike
    <3>11. Alike(m, r, s)
      BY <2>1, <3>5, <3>9 DEF Alike
    <3>12. Ids(m) \ s \subseteq Fresh(m)
      BY <3>10 DEF Fresh
    <3> HIDE DEF s
    <3>13. Keeps(m, r)
      BY <1>1, <3>11, <3>12, AlikeKeeps
    <3> QED BY <3>9, <3>13
  <2> QED BY <2>4, <2>5
<1> QED BY <1>2, <1>3

(* Add_ makes an entry for an address it does not know.                      *)
Created(m, s, src, tt) == [Create(m, s, src, tt) EXCEPT !.nNew = @ + 1]

(* It is in all indexes, and waits for its first place.                      *)
LEMMA CreateKeeps ==
    ASSUME NEW m, NEW rb, NEW t \in Nat, Tables(m, -1, 0, rb, t), NEW s \in Service, NEW src \in Source,
           NEW tt \in 0 .. MaxNow, ~Known(m, s), m.nIdCount < MaxId
    PROVE  LET r == Created(m, s, src, tt)
               id == m.nIdCount
           IN  /\ Tables(r, id, 0, rb, t) /\ id \in Ids(r)
               /\ ~r.mapInfo[id].fInTried /\ r.mapInfo[id].nRefCount = 0
               /\ Alike(m, r, Ids(m))
<1> DEFINE r == Created(m, s, src, tt)
           id == m.nIdCount
           n == Len(m.vRandom)
           i == [CAddrInfo(s, src, tt) EXCEPT !.nRandomPos = n + 1]
<1>1. Shape(m) /\ Indexed(m) /\ InNew(m, -1, 0) /\ InTried(m) /\ Totals(m) /\ Sized(m, rb) /\ Past(m, t)
  BY DEF Tables
<1>2. /\ m.mapInfo \in [Ids(m) -> InfoType] /\ m.mapAddr \in [DOMAIN m.mapAddr -> Ids(m)]
      /\ m.vRandom \in Seq(Ids(m)) /\ id \in 0 .. MaxId /\ n \in Nat
      /\ m.vvNew \in [NewBuckets -> SUBSET Ids(m)] /\ Ids(m) \subseteq 0 .. MaxId - 1 /\ -1 \notin Ids(m)
  BY <1>1 DEF Shape
<1>3. id \notin Ids(m) /\ id \in 0 .. MaxId - 1 /\ id + 1 \in 0 .. MaxId
  BY <1>1, <1>2, AddrManAssumption DEF Indexed
<1>4. n + 1 \in 1 .. MaxId
  <2>1. n <= m.nIdCount
    BY <1>1, Listed
  <2> QED BY <1>2, <2>1, AddrManAssumption
<1>5. /\ i \in InfoType /\ i.svc = s /\ i.nRandomPos = n + 1 /\ i.nRefCount = 0 /\ i.fInTried = FALSE
      /\ i.nLastSuccess = 0
  <2> DEFINE c == CAddrInfo(s, src, tt)
  <2>1. 0 \in 0 .. MaxNow /\ 0 \in 0 .. MaxAttempts /\ 0 \in 0 .. NewBucketsPerAddress
    BY AddrManAssumption
  <2>2. c \in [svc : Service, source : Source, nTime : 0 .. MaxNow, nLastSuccess : 0 .. MaxNow,
                fJustTried : BOOLEAN, nAttempts : 0 .. MaxAttempts,
                nRefCount : 0 .. NewBucketsPerAddress, fInTried : BOOLEAN, nRandomPos : Int]
    BY <2>1 DEF CAddrInfo
  <2>3. c.svc = s /\ c.nLastSuccess = 0 /\ c.nRefCount = 0 /\ c.fInTried = FALSE
    BY DEF CAddrInfo
  <2> HIDE DEF c, n
  <2>4. i = [c EXCEPT !.nRandomPos = n + 1]
    BY DEF c
  <2> HIDE DEF i
  <2>5. i \in InfoType
    BY <1>4, <2>2, <2>4 DEF InfoType
  <2>6. i.svc = c.svc /\ i.nRandomPos = n + 1 /\ i.nRefCount = c.nRefCount /\ i.fInTried = c.fInTried
    BY <2>2, <2>4
  <2>7. i.nLastSuccess = c.nLastSuccess
    BY <2>2, <2>4
  <2> QED BY <2>3, <2>5, <2>6, <2>7
<1>6. /\ Object(r)
      /\ r.nIdCount = id + 1 /\ r.mapInfo = With(m.mapInfo, id, i) /\ r.mapAddr = With(m.mapAddr, Net[s], id)
      /\ r.vRandom = Append(m.vRandom, id) /\ r.nNew = m.nNew + 1 /\ r.nTried = m.nTried
      /\ r.vvTried = m.vvTried /\ r.vvNew = m.vvNew
  BY <1>1 DEF Created, Create, Shape, Object, Field
<1> HIDE DEF r, i, n
<1>7. Ids(r) = Ids(m) \cup {id} /\ r.mapInfo[id] = i /\ \A j \in Ids(m) : r.mapInfo[j] = m.mapInfo[j]
  BY <1>2, <1>3, <1>6 DEF Ids, With
<1>8. /\ DOMAIN r.mapAddr = DOMAIN m.mapAddr \cup {Net[s]} /\ r.mapAddr[Net[s]] = id
      /\ r.mapAddr = [a \in DOMAIN r.mapAddr |-> r.mapAddr[a]]
      /\ \A a \in DOMAIN m.mapAddr : a # Net[s] /\ r.mapAddr[a] = m.mapAddr[a] /\ m.mapAddr[a] \in Ids(m)
  BY <1>2, <1>6 DEF Known, With
<1>9. /\ r.vRandom \in Seq(Ids(r)) /\ Len(r.vRandom) = n + 1 /\ r.vRandom[n + 1] = id
      /\ \A p \in 1 .. n : r.vRandom[p] = m.vRandom[p] /\ m.vRandom[p] \in Ids(m)
  <2>1. m.vRandom \in Seq(Ids(r)) /\ id \in Ids(r)
    BY <1>2, <1>7
  <2> QED BY <1>2, <1>6, <2>1, AppendProperties DEF n
<1>10. Shape(r)
  <2>1. r.mapInfo \in [Ids(r) -> InfoType]
    <3>1. r.mapInfo = [j \in Ids(r) |-> r.mapInfo[j]]
      BY <1>6 DEF With, Ids
    <3>2. \A j \in Ids(r) : r.mapInfo[j] \in InfoType
      BY <1>2, <1>5, <1>7
    <3> QED BY <3>1, <3>2
  <2>2. r.mapAddr \in [DOMAIN r.mapAddr -> Ids(r)]
    BY <1>7, <1>8
  <2>3. r.vvNew \in [NewBuckets -> SUBSET Ids(r)]
    BY <1>2, <1>6, <1>7
  <2>4. r.vvTried \in [TriedBuckets -> Seq(Ids(r))]
    <3>1. \A b \in TriedBuckets : m.vvTried[b] \in Seq(Ids(r))
      BY <1>1, <1>7 DEF Shape
    <3>2. m.vvTried = [b \in TriedBuckets |-> m.vvTried[b]]
      BY <1>1 DEF Shape
    <3> QED BY <1>6, <3>1, <3>2
  <2>5. Ids(r) \subseteq 0 .. MaxId - 1 /\ r.nTried \in Int /\ r.nNew \in Int /\ r.nIdCount \in 0 .. MaxId
    <3>1. m.nTried \in Int /\ m.nNew \in Int
      BY <1>1 DEF Shape
    <3> QED BY <1>2, <1>3, <1>6, <1>7, <3>1
  <2> QED BY <1>6, <1>9, <2>1, <2>2, <2>3, <2>4, <2>5 DEF Shape
<1>11. Indexed(r)
  <2>1. \A a \in DOMAIN r.mapAddr : Net[r.mapInfo[r.mapAddr[a]].svc] = a
    <3>1. \A a \in DOMAIN m.mapAddr : Net[m.mapInfo[m.mapAddr[a]].svc] = a
      BY <1>1 DEF Indexed
    <3> QED BY <1>5, <1>7, <1>8, <3>1
  <2>2. \A p \in 1 .. Len(r.vRandom) : r.mapInfo[r.vRandom[p]].nRandomPos = p
    <3>1. \A p \in 1 .. n : m.mapInfo[m.vRandom[p]].nRandomPos = p
      BY <1>1 DEF Indexed, n
    <3>2. \A p \in 1 .. n + 1 : p \in 1 .. n \/ p = n + 1
      BY <1>2 DEF n
    <3> QED BY <1>5, <1>7, <1>9, <3>1, <3>2
  <2>3. ASSUME NEW j \in Ids(r)
        PROVE  /\ j < r.nIdCount
               /\ Net[r.mapInfo[j].svc] \in DOMAIN r.mapAddr
               /\ r.mapAddr[Net[r.mapInfo[j].svc]] = j
               /\ r.mapInfo[j].nRandomPos \in 1 .. Len(r.vRandom)
               /\ r.vRandom[r.mapInfo[j].nRandomPos] = j
    <3>1. CASE j = id
      <4>1. id < id + 1 /\ n + 1 \in 1 .. n + 1
        BY <1>2 DEF n
      <4> QED BY <1>5, <1>6, <1>7, <1>8, <1>9, <3>1, <4>1
    <3>2. CASE j \in Ids(m)
      <4>1. /\ j < id /\ Net[m.mapInfo[j].svc] \in DOMAIN m.mapAddr /\ m.mapAddr[Net[m.mapInfo[j].svc]] = j
            /\ m.mapInfo[j].nRandomPos \in 1 .. n /\ m.vRandom[m.mapInfo[j].nRandomPos] = j
        BY <1>1, <3>2 DEF Indexed, n
      <4>2. r.mapInfo[j] = m.mapInfo[j]
        BY <1>7, <3>2
      <4>3. j < id + 1 /\ \A p \in 1 .. n : p \in 1 .. n + 1
        BY <1>2, <3>2, <4>1 DEF n
      <4> QED BY <1>6, <1>8, <1>9, <4>1, <4>2, <4>3
    <3> QED BY <1>7, <3>1, <3>2
  <2> QED BY <2>1, <2>2, <2>3 DEF Indexed
<1>12. Alike(m, r, Ids(m))
  BY <1>7 DEF Alike
<1>13. \A c \in NewBuckets : id \notin m.vvNew[c]
  BY <1>2, <1>3
<1>14. InNew(r, id, 0)
  <2> SUFFICES ASSUME NEW j \in Ids(r), ~r.mapInfo[j].fInTried
               PROVE  /\ r.mapInfo[j].nRefCount = Cardinality(NewIn(r, j)) + 0
                      /\ j # id => r.mapInfo[j].nRefCount > 0
    BY DEF InNew
  <2>1. CASE j = id
    <3>1. NewIn(r, id) = {}
      BY <1>6, <1>13 DEF NewIn
    <3>2. Cardinality(NewIn(r, id)) = 0
      BY <3>1, FS_EmptySet
    <3> QED BY <1>5, <1>7, <2>1, <3>2
  <2>2. CASE j # id
    <3>1. NewIn(r, j) = NewIn(m, j) /\ j \in Ids(m) /\ r.mapInfo[j] = m.mapInfo[j]
      BY <1>6, <1>7, <2>2 DEF NewIn
    <3>2. m.mapInfo[j].nRefCount = Cardinality(NewIn(m, j)) + 0 /\ m.mapInfo[j].nRefCount > 0
      BY <1>1, <1>2, <3>1 DEF InNew
    <3> QED BY <3>1, <3>2
  <2> QED BY <2>1, <2>2
<1>15. InTried(r) /\ TriedIds(r) = TriedIds(m)
  <2>1. \A j \in Ids(r) \ Ids(m) : ~r.mapInfo[j].fInTried
    BY <1>5, <1>7
  <2>2. \A c \in NewBuckets : r.vvNew[c] \cap Ids(m) \subseteq m.vvNew[c]
    BY <1>6
  <2>3. Ids(m) \ Ids(m) \subseteq Fresh(m) /\ r.vvTried = m.vvTried
    BY <1>6
  <2> QED BY <1>1, <1>12, <2>1, <2>2, <2>3, TriedKept
<1>16. Totals(r)
  <2>1. Fresh(r) = Fresh(m) \cup {id} /\ id \notin Fresh(m)
    BY <1>3, <1>5, <1>7 DEF Fresh
  <2>2. IsFiniteSet(Fresh(m))
    BY <1>1, Finite DEF Fresh
  <2>3. Cardinality(Fresh(r)) = Cardinality(Fresh(m)) + 1
    BY <2>1, <2>2, FS_AddElement
  <2> QED BY <1>1, <1>6, <1>15, <2>3 DEF Totals
<1>17. Sized(r, rb)
  BY <1>1, <1>6 DEF Sized
<1>18. Past(r, t)
  <2>1. 0 <= t
    OBVIOUS
  <2> QED BY <1>1, <1>5, <1>7, <2>1 DEF Past
<1>19. Tables(r, id, 0, rb, t)
  BY <1>10, <1>11, <1>14, <1>15, <1>16, <1>17, <1>18 DEF Tables
<1> QED BY <1>5, <1>7, <1>12, <1>19 DEF r

(* Refreshing an entry changes nothing but its time.                         *)
LEMMA RefreshedIs ==
    ASSUME NEW i \in InfoType, NEW t \in Int, t <= now, NEW penalty \in Nat, now \in 1 .. MaxNow
    PROVE  LET k == Refreshed(i, t, penalty)
           IN  /\ k \in InfoType /\ k.svc = i.svc /\ k.nRefCount = i.nRefCount
               /\ k.fInTried = i.fInTried /\ k.nLastSuccess = i.nLastSuccess
               /\ k.nRandomPos = i.nRandomPos
<1> DEFINE w == Max({0, t - penalty})
<1>1. w \in 0 .. MaxNow
  <2>1. \E x \in {0, t - penalty} : \A y \in {0, t - penalty} : x >= y
    OBVIOUS
  <2>2. w \in {0, t - penalty} /\ \A y \in {0, t - penalty} : w >= y
    BY <2>1 DEF Max
  <2> QED BY <2>2, AddrManAssumption
<1>2. Refreshed(i, t, penalty) = i \/ Refreshed(i, t, penalty) = [i EXCEPT !.nTime = w]
  BY DEF Refreshed
<1> HIDE DEF w
<1> QED BY <1>1, <1>2 DEF InfoType

(* Entries whose statistics alone have changed.                              *)
LEMMA TouchKeeps ==
    ASSUME NEW m, NEW x, NEW d, NEW rb, NEW t, NEW u, Tables(m, x, d, rb, t), NEW f \in [Ids(m) -> InfoType],
           \A id \in Ids(m) : /\ f[id].svc = m.mapInfo[id].svc
                              /\ f[id].nRefCount = m.mapInfo[id].nRefCount
                              /\ f[id].fInTried = m.mapInfo[id].fInTried
                              /\ f[id].nRandomPos = m.mapInfo[id].nRandomPos
                              /\ f[id].nLastSuccess >= m.mapInfo[id].nLastSuccess
                              /\ f[id].nLastSuccess <= u
    PROVE  LET r == [m EXCEPT !.mapInfo = f]
           IN  Tables(r, x, d, rb, u) /\ Ids(r) = Ids(m) /\ r.mapInfo = f /\ r.vvNew = m.vvNew /\ r.vvTried = m.vvTried
               /\ Keeps(m, r) /\ r.mapAddr = m.mapAddr /\ TriedIds(r) = TriedIds(m)
<1> DEFINE r == [m EXCEPT !.mapInfo = f]
<1>1. Shape(m) /\ Indexed(m) /\ InNew(m, x, d) /\ InTried(m) /\ Totals(m) /\ Sized(m, rb)
  BY DEF Tables
<1>2. /\ Shape(r) /\ Ids(r) = Ids(m) /\ r.mapInfo = f /\ r.mapAddr = m.mapAddr /\ r.vRandom = m.vRandom
      /\ r.nIdCount = m.nIdCount /\ r.nTried = m.nTried /\ r.nNew = m.nNew
      /\ r.vvTried = m.vvTried /\ r.vvNew = m.vvNew
  BY <1>1, ShapeKept
<1> HIDE DEF r
<1>3. SameLodging(m, r)
  BY <1>2 DEF SameLodging
<1>4. SameIndexes(m, r)
  BY <1>2 DEF SameIndexes
<1>5. InNew(r, x, d) /\ InTried(r) /\ Totals(r) /\ Sized(r, rb)
  BY <1>1, <1>3, LodgingKept
<1>6. Indexed(r)
  BY <1>1, <1>4, IndexesKept
<1>7. Past(r, u)
  BY <1>2 DEF Past
<1>8. Keeps(m, r) /\ TriedIds(r) = TriedIds(m)
  BY <1>2 DEF Keeps, TriedIds
<1> QED BY <1>2, <1>5, <1>6, <1>7, <1>8 DEF Tables, r

(* The same, for a single entry.                                             *)
LEMMA TouchOneKeeps ==
    ASSUME NEW m, NEW x, NEW d, NEW rb, NEW t, Tables(m, x, d, rb, t), NEW id \in Ids(m), NEW i \in InfoType,
           i.svc = m.mapInfo[id].svc, i.nRefCount = m.mapInfo[id].nRefCount,
           i.fInTried = m.mapInfo[id].fInTried, i.nRandomPos = m.mapInfo[id].nRandomPos,
           i.nLastSuccess >= m.mapInfo[id].nLastSuccess, i.nLastSuccess <= t
    PROVE  LET r == [m EXCEPT !.mapInfo[id] = i]
           IN  /\ Tables(r, x, d, rb, t) /\ Ids(r) = Ids(m) /\ r.mapInfo = [m.mapInfo EXCEPT ![id] = i]
               /\ r.vvNew = m.vvNew /\ r.vvTried = m.vvTried
               /\ Keeps(m, r) /\ r.mapAddr = m.mapAddr /\ r.mapInfo[id] = i /\ TriedIds(r) = TriedIds(m)
<1> DEFINE f == [m.mapInfo EXCEPT ![id] = i]
           r == [m EXCEPT !.mapInfo = f]
<1>1. Shape(m) /\ Past(m, t) /\ m.mapInfo \in [Ids(m) -> InfoType]
  BY DEF Tables, Shape
<1>2. [m EXCEPT !.mapInfo[id] = i] = r
  BY <1>1 DEF Shape, Object, Field
<1>3. f \in [Ids(m) -> InfoType] /\ f[id] = i /\ \A j \in Ids(m) \ {id} : f[j] = m.mapInfo[j]
  BY <1>1
<1> HIDE DEF f
<1>4. \A j \in Ids(m) : m.mapInfo[j].nLastSuccess >= m.mapInfo[j].nLastSuccess /\ m.mapInfo[j].nLastSuccess <= t
  BY <1>1 DEF InfoType, Past
<1>5. \A j \in Ids(m) : /\ f[j].svc = m.mapInfo[j].svc
                        /\ f[j].nRefCount = m.mapInfo[j].nRefCount
                        /\ f[j].fInTried = m.mapInfo[j].fInTried
                        /\ f[j].nRandomPos = m.mapInfo[j].nRandomPos
                        /\ f[j].nLastSuccess >= m.mapInfo[j].nLastSuccess
                        /\ f[j].nLastSuccess <= t
  BY <1>3, <1>4
<1>6. /\ Tables(r, x, d, rb, t) /\ Ids(r) = Ids(m) /\ r.mapInfo = f /\ r.vvNew = m.vvNew /\ r.vvTried = m.vvTried
      /\ Keeps(m, r) /\ r.mapAddr = m.mapAddr /\ TriedIds(r) = TriedIds(m)
  BY <1>3, <1>5, TouchKeeps
<1> QED BY <1>2, <1>3, <1>6 DEF f

(* The object as every operation finds it and leaves it.                     *)
LEMMA TablesPrime == Tables(am', -1, 0, rebuilt', now') /\ now' \in 1 .. MaxNow /\ rebuilt' \in BOOLEAN => IInv'
BY DEF IInv, Tables, Shape, Indexed, InNew, InTried, Totals, Sized, Past, Object, Ids, NewIn, Fresh, TriedIds

(* An entry that waits for nothing may be given one more place.              *)
LEMMA TablesAny ==
    ASSUME NEW m, NEW x, NEW rb, NEW t, Tables(m, -1, 0, rb, t)
    PROVE  Tables(m, x, 0, rb, t)
<1>1. -1 \notin Ids(m) /\ InNew(m, -1, 0)
  BY DEF Tables, Shape
<1>2. InNew(m, x, 0)
  BY <1>1 DEF InNew
<1> QED BY <1>2 DEF Tables

(* Add.                                                                      *)
LEMMA AddKeeps ==
    ASSUME IInv, NEW s \in Service, NEW src \in Source, NEW ago \in Nat, NEW penalty \in Nat,
           Add(s, src, ago, penalty)
    PROVE  Tables(am', -1, 0, rebuilt, now) /\ Keeps(am, am')
<1> DEFINE b == NewBucketOf[Net[s]][src]
           t == now - ago
           id == Find(am, s)
           fresh == [am EXCEPT !.mapInfo[id] = Refreshed(am.mapInfo[id], t, penalty)]
<1>1. /\ Tables(am, -1, 0, rebuilt, now) /\ now \in 1 .. MaxNow /\ now >= ago
      /\ Shape(am) /\ Indexed(am) /\ Past(am, now)
      /\ ~Known(am, s) => am.nIdCount < MaxId
  BY DEF IInv, Tables, Add
<1>2. b \in NewBuckets /\ t \in Int /\ t <= now /\ now \in Nat
  BY <1>1, AddrManAssumption
<1>3. CASE Known(am, s)
  <2>1. id \in Ids(am) /\ am.mapInfo[id] \in InfoType
    BY <1>1, <1>3 DEF Known, Find, Shape
  <2> DEFINE i == Refreshed(am.mapInfo[id], t, penalty)
  <2>2. /\ i \in InfoType /\ i.svc = am.mapInfo[id].svc /\ i.nRefCount = am.mapInfo[id].nRefCount
        /\ i.fInTried = am.mapInfo[id].fInTried /\ i.nLastSuccess = am.mapInfo[id].nLastSuccess
        /\ i.nRandomPos = am.mapInfo[id].nRandomPos
    BY <1>1, <1>2, <2>1, RefreshedIs
  <2>3. am' \in (IF MayMultiply(fresh.mapInfo[id], t) THEN Place(fresh, id, b) ELSE {fresh})
                \cup (IF fresh.mapInfo[id].nRefCount > 0 THEN {fresh} ELSE {})
    <3>1. am' \in Add_(am, s, src, t, penalty)
      BY DEF Add
    <3>2. [am EXCEPT !.mapInfo[id] = Refreshed(@, t, penalty)] = fresh
      BY <1>1, <2>1 DEF Shape, Object, Field
    <3> QED BY <1>3, <3>1, <3>2 DEF Add_
  <2>4. i.nLastSuccess >= am.mapInfo[id].nLastSuccess /\ i.nLastSuccess <= now
    <3>1. am.mapInfo[id].nLastSuccess \in Int /\ am.mapInfo[id].nLastSuccess <= now
      BY <1>1, <2>1 DEF InfoType, Past
    <3> QED BY <2>2, <3>1
  <2>5. fresh = [am EXCEPT !.mapInfo[id] = i]
    OBVIOUS
  <2> HIDE DEF i, fresh, id, t, b
  <2>6. /\ Tables(fresh, -1, 0, rebuilt, now) /\ Ids(fresh) = Ids(am) /\ Keeps(am, fresh)
        /\ fresh.mapInfo[id] = i /\ fresh.mapInfo = [am.mapInfo EXCEPT ![id] = i] /\ TriedIds(fresh) = TriedIds(am)
    BY <1>1, <2>1, <2>2, <2>4, <2>5, TouchOneKeeps
  <2>7. CASE am' = fresh
    BY <2>6, <2>7
  <2>8. CASE MayMultiply(i, t) /\ am' \in Place(fresh, id, b)
    <3>1. ~i.fInTried /\ i.nRefCount < NewBucketsPerAddress
      BY <2>2, <2>8, AddrManAssumption DEF MayMultiply, InfoType
    <3>2. Tables(fresh, id, 0, rebuilt, now)
      BY <2>6, TablesAny
    <3>3. Tables(am', -1, 0, rebuilt, now) /\ Keeps(fresh, am')
      BY <1>2, <2>1, <2>6, <2>8, <3>1, <3>2, PlaceKeeps
    <3>4. Keeps(am, am')
      <4>1. ASSUME NEW j \in TriedIds(am)
            PROVE  /\ j \in Ids(am') /\ am'.mapInfo[j].svc = am.mapInfo[j].svc
                   /\ am'.mapInfo[j].nLastSuccess >= am.mapInfo[j].nLastSuccess
        <5>1. /\ j \in Ids(am') /\ am'.mapInfo[j].svc = fresh.mapInfo[j].svc
              /\ am'.mapInfo[j].nLastSuccess >= fresh.mapInfo[j].nLastSuccess
          BY <2>6, <3>3 DEF Keeps
        <5>2. fresh.mapInfo[j].svc = am.mapInfo[j].svc /\ fresh.mapInfo[j].nLastSuccess = am.mapInfo[j].nLastSuccess
          <6>1. j \in Ids(am) /\ am.mapInfo \in [Ids(am) -> InfoType]
            BY <1>1 DEF TriedIds, Shape
          <6> QED BY <2>2, <2>6, <6>1
        <5> QED BY <5>1, <5>2
      <4> QED BY <4>1 DEF Keeps
    <3> QED BY <3>3, <3>4
  <2> QED BY <2>3, <2>6, <2>7, <2>8
<1>4. CASE ~Known(am, s)
  <2> DEFINE tt == Max({0, t - penalty})
             e == Created(am, s, src, tt)
             k == am.nIdCount
  <2>1. tt \in 0 .. MaxNow
    <3>1. \E x \in {0, t - penalty} : \A y \in {0, t - penalty} : x >= y
      BY <1>2
    <3>2. tt \in {0, t - penalty} /\ \A y \in {0, t - penalty} : tt >= y
      BY <3>1 DEF Max
    <3> QED BY <1>1, <1>2, <3>2, AddrManAssumption
  <2>2. am' \in Place(e, k, b)
    <3>1. am' \in Add_(am, s, src, t, penalty)
      BY DEF Add
    <3> QED BY <1>4, <3>1 DEF Add_, Created
  <2> HIDE DEF tt, b
  <2>3. /\ Tables(e, k, 0, rebuilt, now) /\ k \in Ids(e)
        /\ ~e.mapInfo[k].fInTried /\ e.mapInfo[k].nRefCount = 0 /\ Alike(am, e, Ids(am))
    BY <1>1, <1>2, <1>4, <2>1, CreateKeeps
  <2> HIDE DEF e, k
  <2>4. e.mapInfo[k].nRefCount < NewBucketsPerAddress
    BY <2>3, AddrManAssumption
  <2>5. Tables(am', -1, 0, rebuilt, now) /\ Keeps(e, am')
    BY <1>2, <2>2, <2>3, <2>4, PlaceKeeps
  <2>6. Keeps(am, am')
    <3>1. TriedIds(am) \subseteq TriedIds(e)
      BY <2>3 DEF TriedIds, Alike
    <3>2. \A j \in TriedIds(am) : /\ e.mapInfo[j].svc = am.mapInfo[j].svc
                                  /\ e.mapInfo[j].nLastSuccess = am.mapInfo[j].nLastSuccess
      BY <2>3 DEF TriedIds, Alike
    <3> QED BY <2>5, <3>1, <3>2 DEF Keeps
  <2> QED BY <2>5, <2>6
<1> QED BY <1>3, <1>4

(* What of an entry an operation on its statistics leaves alone.             *)
SamePlaces(i, o) ==
    /\ i \in InfoType /\ i.svc = o.svc /\ i.nRefCount = o.nRefCount
    /\ i.fInTried = o.fInTried /\ i.nRandomPos = o.nRandomPos

(* The clock.                                                                *)
LEMMA CalmIs ==
    ASSUME NEW o \in InfoType, NEW x \in BOOLEAN
    PROVE  LET i == [o EXCEPT !.fJustTried = x] IN SamePlaces(i, o) /\ i.nLastSuccess = o.nLastSuccess
BY DEF InfoType, SamePlaces

(* Attempt.                                                                  *)
LEMMA AttemptedIs ==
    ASSUME NEW o \in InfoType, o.nAttempts < MaxAttempts
    PROVE  SamePlaces(Attempted(o), o) /\ Attempted(o).nLastSuccess = o.nLastSuccess
<1> DEFINE x == TRUE
           i == [o EXCEPT !.fJustTried = x, !.nAttempts = o.nAttempts + 1]
<1>1. x \in BOOLEAN /\ Attempted(o) = i
  BY DEF Attempted
<1> HIDE DEF x
<1>2. o.nAttempts + 1 \in 0 .. MaxAttempts
  BY AddrManAssumption DEF InfoType
<1>3. SamePlaces(i, o) /\ i.nLastSuccess = o.nLastSuccess
  BY <1>1, <1>2 DEF InfoType, SamePlaces
<1> QED BY <1>1, <1>3

(* Good.                                                                     *)
LEMMA ReachedIs ==
    ASSUME NEW o \in InfoType, now \in 1 .. MaxNow
    PROVE  SamePlaces(Reached(o), o) /\ Reached(o).nLastSuccess = now
<1> DEFINE x == TRUE
           i == [o EXCEPT !.nLastSuccess = now, !.fJustTried = x, !.nTime = now, !.nAttempts = 0]
<1>1. x \in BOOLEAN /\ Reached(o) = i
  BY DEF Reached
<1> HIDE DEF x
<1>2. 0 \in 0 .. MaxAttempts /\ now \in 0 .. MaxNow
  BY AddrManAssumption
<1>3. SamePlaces(i, o) /\ i.nLastSuccess = now
  BY <1>1, <1>2 DEF InfoType, SamePlaces
<1> QED BY <1>1, <1>3

(* Attempt, Connected and the passing of time.                               *)
LEMMA AttemptKeeps ==
    ASSUME IInv, NEW s, Attempt(s)
    PROVE  Tables(am', -1, 0, rebuilt, now) /\ Keeps(am, am')
<1> DEFINE id == Find(am, s)
           o == am.mapInfo[id]
           i == Attempted(o)
<1>1. Tables(am, -1, 0, rebuilt, now) /\ Shape(am) /\ Past(am, now)
  BY DEF IInv, Tables
<1>2. id \in Ids(am) /\ o \in InfoType /\ o.nAttempts < MaxAttempts
  BY <1>1 DEF Attempt, Exact, Known, Find, Shape
<1>3. am' = [am EXCEPT !.mapInfo[id] = i]
  BY <1>1, <1>2 DEF Attempt, Shape, Object, Field
<1> HIDE DEF o, id
<1>4. /\ i \in InfoType /\ i.svc = o.svc /\ i.nRefCount = o.nRefCount /\ i.fInTried = o.fInTried
      /\ i.nRandomPos = o.nRandomPos /\ i.nLastSuccess = o.nLastSuccess
  BY <1>2, AttemptedIs DEF SamePlaces
<1>5. i.nLastSuccess >= o.nLastSuccess /\ i.nLastSuccess <= now
  BY <1>1, <1>2, <1>4 DEF InfoType, Past, o
<1> HIDE DEF i
<1> QED BY <1>1, <1>2, <1>3, <1>4, <1>5, TouchOneKeeps DEF o

(* Connected.                                                                *)
LEMMA ConnectedKeeps ==
    ASSUME IInv, NEW s, Connected(s)
    PROVE  Tables(am', -1, 0, rebuilt, now) /\ Keeps(am, am')
<1> DEFINE id == Find(am, s)
           o == am.mapInfo[id]
           i == [o EXCEPT !.nTime = now]
<1>1. Tables(am, -1, 0, rebuilt, now) /\ Shape(am) /\ Past(am, now) /\ now \in 1 .. MaxNow
  BY DEF IInv, Tables
<1>2. id \in Ids(am) /\ o \in InfoType
  BY <1>1 DEF Connected, Exact, Known, Find, Shape
<1>3. am' = [am EXCEPT !.mapInfo[id] = i]
  BY <1>1, <1>2 DEF Connected, Shape, Object, Field
<1> HIDE DEF o, id
<1>4. /\ i \in InfoType /\ i.svc = o.svc /\ i.nRefCount = o.nRefCount /\ i.fInTried = o.fInTried
      /\ i.nRandomPos = o.nRandomPos /\ i.nLastSuccess = o.nLastSuccess
  <2>1. now \in 0 .. MaxNow
    BY <1>1, AddrManAssumption
  <2> QED BY <1>2, <2>1 DEF InfoType
<1>5. i.nLastSuccess >= o.nLastSuccess /\ i.nLastSuccess <= now
  BY <1>1, <1>2, <1>4 DEF InfoType, Past, o
<1> HIDE DEF i
<1> QED BY <1>1, <1>2, <1>3, <1>4, <1>5, TouchOneKeeps DEF o

(* Tick.                                                                     *)
LEMMA TickKeeps ==
    ASSUME IInv, Tick
    PROVE  Tables(am', -1, 0, rebuilt, now') /\ Keeps(am, am')
<1> DEFINE f == [id \in Ids(am) |-> [am.mapInfo[id] EXCEPT !.fJustTried = FALSE]]
<1>1. Tables(am, -1, 0, rebuilt, now) /\ Shape(am) /\ Past(am, now) /\ now \in 1 .. MaxNow /\ now' = now + 1
  BY DEF IInv, Tables, Tick
<1>2. am' = [am EXCEPT !.mapInfo = f]
  BY <1>1 DEF Tick, Shape, Object, Field
<1>3. ASSUME NEW id \in Ids(am)
      PROVE  /\ f[id] \in InfoType /\ f[id].svc = am.mapInfo[id].svc
             /\ f[id].nRefCount = am.mapInfo[id].nRefCount
             /\ f[id].fInTried = am.mapInfo[id].fInTried
             /\ f[id].nRandomPos = am.mapInfo[id].nRandomPos
             /\ f[id].nLastSuccess = am.mapInfo[id].nLastSuccess
             /\ am.mapInfo[id].nLastSuccess \in Int
             /\ am.mapInfo[id].nLastSuccess <= now
  <2>1. am.mapInfo[id] \in InfoType /\ f[id] = [am.mapInfo[id] EXCEPT !.fJustTried = FALSE]
    BY <1>1 DEF Shape
  <2>2. am.mapInfo[id].nLastSuccess <= now
    BY <1>1 DEF Past
  <2> HIDE DEF f
  <2>3. SamePlaces(f[id], am.mapInfo[id]) /\ f[id].nLastSuccess = am.mapInfo[id].nLastSuccess
    BY <2>1, CalmIs
  <2>4. am.mapInfo[id].nLastSuccess \in Int
    BY <2>1 DEF InfoType
  <2> QED BY <2>2, <2>3, <2>4 DEF SamePlaces
<1>4. f \in [Ids(am) -> InfoType]
  BY <1>3
<1> HIDE DEF f
<1>5. \A id \in Ids(am) : /\ f[id].svc = am.mapInfo[id].svc
                          /\ f[id].nRefCount = am.mapInfo[id].nRefCount
                          /\ f[id].fInTried = am.mapInfo[id].fInTried
                          /\ f[id].nRandomPos = am.mapInfo[id].nRandomPos
  BY <1>3
<1>6. \A id \in Ids(am) : f[id].nLastSuccess >= am.mapInfo[id].nLastSuccess /\ f[id].nLastSuccess <= now'
  BY <1>1, <1>3
<1> QED BY <1>1, <1>2, <1>4, <1>5, <1>6, TouchKeeps

-----------------------------------------------------------------------------
(* The tried table.  A bucket in another order.                              *)
Shuffled(S, v) ==
    {w \in [1 .. Len(v) -> S] :
       /\ \A p, q \in 1 .. Len(v) : w[p] = w[q] => p = q
       /\ \A p \in 1 .. Len(v) : \E q \in 1 .. Len(v) : w[q] = v[p]
       /\ \A p \in 1 .. Len(v) : \E q \in 1 .. Len(v) : w[p] = v[q]}
Sels(S, v) == Shuffled(S, v) \X Int \X Int

(* A round of SelectTried swaps two entries and has chosen a position.       *)
LEMMA InspectIs ==
    ASSUME NEW m, NEW S, S \subseteq Nat, NEW v \in Seq(S), NEW sel \in Sels(S, v),
           sel[2] = -1 \/ sel[3] \in 1 .. Len(v), NEW i \in 1 .. Len(v), NEW p \in i .. Len(v)
    PROVE  LET e == Inspect(m, sel, i, p)
           IN  e \in Sels(S, v) /\ e[3] \in 1 .. Len(v)
<1> DEFINE w == sel[1]
           n == Len(v)
           x == [w EXCEPT ![p] = w[i], ![i] = w[p]]
           older == sel[2] = -1 \/ m.mapInfo[w[p]].nLastSuccess < m.mapInfo[sel[2]].nLastSuccess
<1>1. n \in Nat /\ p \in 1 .. n /\ w \in Shuffled(S, v) /\ sel[2] \in Int /\ sel[3] \in Int
  BY DEF Sels
<1>2. w \in [1 .. n -> S] /\ w[p] \in Int
  <2>1. w \in [1 .. n -> S]
    BY <1>1 DEF Shuffled
  <2>2. w[p] \in S
    BY <1>1, <2>1
  <2>3. \A y \in S : y \in Int
    OBVIOUS
  <2> HIDE DEF w, n
  <2>4. w[p] \in Int
    BY <2>2, <2>3
  <2> QED BY <2>1, <2>4
<1>3. Inspect(m, sel, i, p) = <<x, IF older THEN w[p] ELSE sel[2], IF older THEN p ELSE sel[3]>>
  BY DEF Inspect
<1>4. x \in [1 .. n -> S] /\ \A q \in 1 .. n : x[q] = IF q = i THEN w[p] ELSE IF q = p THEN w[i] ELSE w[q]
  BY <1>1, <1>2
<1> HIDE DEF x
<1>5. x \in Shuffled(S, v)
  <2> DEFINE Sw(q) == IF q = i THEN p ELSE IF q = p THEN i ELSE q
  <2>1. \A q \in 1 .. n : x[q] = w[Sw(q)] /\ Sw(q) \in 1 .. n /\ Sw(Sw(q)) = q
    BY <1>1, <1>4
  <2>2. \A k, q \in 1 .. n : Sw(k) = Sw(q) => k = q
    OBVIOUS
  <2> HIDE DEF Sw
  <2>3. /\ \A k, q \in 1 .. n : w[k] = w[q] => k = q
        /\ \A k \in 1 .. n : \E q \in 1 .. n : w[q] = v[k]
        /\ \A k \in 1 .. n : \E q \in 1 .. n : w[k] = v[q]
    BY <1>1 DEF Shuffled
  <2> HIDE DEF n, w
  <2>4. ASSUME NEW k \in 1 .. n, NEW q \in 1 .. n, x[k] = x[q] PROVE k = q
    <3>1. w[Sw(k)] = w[Sw(q)] /\ Sw(k) \in 1 .. n /\ Sw(q) \in 1 .. n
      BY <2>1, <2>4
    <3> QED BY <2>2, <2>3, <3>1
  <2>5. ASSUME NEW k \in 1 .. n PROVE \E q \in 1 .. n : x[q] = v[k]
    <3>1. PICK q \in 1 .. n : w[q] = v[k]
      BY <2>3
    <3>2. Sw(q) \in 1 .. n /\ x[Sw(q)] = v[k]
      BY <2>1, <3>1
    <3> QED BY <3>2
  <2>6. ASSUME NEW k \in 1 .. n PROVE \E q \in 1 .. n : x[k] = v[q]
    <3>1. x[k] = w[Sw(k)] /\ Sw(k) \in 1 .. n
      BY <2>1
    <3>2. \E q \in 1 .. n : w[Sw(k)] = v[q]
      BY <2>3, <3>1
    <3> QED BY <3>1, <3>2
  <2> QED BY <1>4, <2>4, <2>5, <2>6 DEF Shuffled, n
<1>6. CASE older
  <2>1. Inspect(m, sel, i, p) = <<x, w[p], p>>
    BY <1>3, <1>6
  <2> QED BY <1>1, <1>2, <1>5, <2>1 DEF Sels
<1>7. CASE ~older
  <2>1. Inspect(m, sel, i, p) = <<x, sel[2], sel[3]>> /\ sel[3] \in 1 .. n
    BY <1>3, <1>7
  <2> QED BY <1>1, <1>5, <2>1 DEF Sels
<1> QED BY <1>6, <1>7

(* SelectTried leaves the bucket with the same entries, and a position.      *)
LEMMA SelectIs ==
    ASSUME NEW m, NEW kb, NEW S, S \subseteq Nat, m.vvTried[kb] \in Seq(S), Len(m.vvTried[kb]) > 0,
           \A p, q \in 1 .. Len(m.vvTried[kb]) : m.vvTried[kb][p] = m.vvTried[kb][q] => p = q,
           NEW sel \in SelectTried(m, kb)
    PROVE  sel[1] \in Shuffled(S, m.vvTried[kb]) /\ sel[3] \in 1 .. Len(m.vvTried[kb])
<1> DEFINE v == m.vvTried[kb]
           L == Min({InspectOnEvict, Len(v)})
           w == {<<v, -1, -1>>}
           A(sels, n) == {Inspect(m, e, n, p) : e \in sels, p \in n .. Len(v)}
           Eq(g) == g = [n \in 0 .. L |-> IF n = 0 THEN w ELSE A(g[n - 1], n)]
           Z == {e \in Sels(S, v) : e[2] = -1 \/ e[3] \in 1 .. Len(v)}
           W == SUBSET Z
           F == [y \in W \X (1 .. L) |-> A(y[1], y[2])]
           h == CHOOSE g : Eq(g)
<1>1. Len(v) \in Nat \ {0} /\ v \in [1 .. Len(v) -> S]
  OBVIOUS
<1>2. L \in 1 .. Len(v)
  <2>1. {InspectOnEvict, Len(v)} \subseteq Nat /\ {InspectOnEvict, Len(v)} # {}
    BY <1>1, AddrManAssumption
  <2>2. L \in {InspectOnEvict, Len(v)} /\ \A i \in {InspectOnEvict, Len(v)} : L <= i
    BY <2>1, MinIs
  <2> QED BY <1>1, <2>2, AddrManAssumption
<1>3. w \in W
  <2>1. v \in Shuffled(S, v)
    BY <1>1 DEF Shuffled
  <2>2. -1 \in Int
    OBVIOUS
  <2> QED BY <2>1, <2>2 DEF Sels
<1>4. ASSUME NEW sels \in W, NEW n \in 1 .. L, NEW e \in A(sels, n)
      PROVE  e \in Sels(S, v) /\ e[3] \in 1 .. Len(v)
  <2>1. PICK e0 \in sels, p \in n .. Len(v) : e = Inspect(m, e0, n, p)
    BY <1>4
  <2>2. n \in 1 .. Len(v) /\ e0 \in Sels(S, v) /\ (e0[2] = -1 \/ e0[3] \in 1 .. Len(v))
    BY <1>2, <2>1
  <2> HIDE DEF v, L
  <2>3. v \in Seq(S)
    BY DEF v
  <2> QED BY <2>1, <2>2, <2>3, InspectIs
<1>5. SelectTried(m, kb) = h[L]
  BY DEF SelectTried
<1> HIDE DEF v, L, w, A, Z
<1>6. \A sels \in W : \A n \in 1 .. L : A(sels, n) \in W
  BY <1>4 DEF Z
<1> HIDE DEF W
<1>7. \A sels \in W : \A n \in 1 .. L : F[<<sels, n>>] = A(sels, n) /\ F[<<sels, n>>] \in W
  BY <1>6
<1> HIDE DEF F, Eq, h
<1>8. Loop(W, F, L)
  BY <1>1, <1>2, <1>7 DEF Loop
<1>9. PICK g : Goes(g, W, F, L, w)
  BY <1>3, <1>8, LoopRuns
<1>10. ASSUME NEW n \in 0 .. L PROVE g[n] = IF n = 0 THEN w ELSE A(g[n - 1], n)
  <2>1. n # 0 => n \in 1 .. L /\ n - 1 \in 0 .. L
    BY <1>1, <1>2
  <2> QED BY <1>7, <1>9, <2>1 DEF Goes
<1>11. Eq(g)
  BY <1>9, <1>10 DEF Eq, Goes
<1>12. Eq(h)
  BY <1>11 DEF h
<1>13. h = [n \in 0 .. L |-> h[n]] /\ h[0] = w /\ \A n \in 1 .. L : h[n] = A(h[n - 1], n)
  BY <1>1, <1>2, <1>12 DEF Eq
<1>14. Goes(h, W, F, L, w)
  BY <1>3, <1>7, <1>8, <1>13, LoopIs
<1>15. L \in 1 .. L /\ L - 1 \in 0 .. L
  BY <1>1, <1>2
<1>16. h[L] = A(h[L - 1], L) /\ h[L - 1] \in W
  BY <1>13, <1>14, <1>15 DEF Goes
<1>17. sel \in A(h[L - 1], L)
  BY <1>5, <1>16
<1>18. sel \in Sels(S, v) /\ sel[3] \in 1 .. Len(v)
  BY <1>4, <1>15, <1>16, <1>17
<1> QED BY <1>18 DEF v, Sels

(* The fields that MakeTried sets.                                           *)
LEMMA PromotedIs ==
    ASSUME NEW o \in InfoType, NEW c, o.nRefCount = c
    PROVE  LET i == Promoted(o, c)
           IN  /\ i \in InfoType /\ i.svc = o.svc /\ i.nRandomPos = o.nRandomPos /\ i.nLastSuccess = o.nLastSuccess
               /\ i.fInTried /\ i.nRefCount = 0
<1> DEFINE x == TRUE
           i == [o EXCEPT !.nRefCount = o.nRefCount - c, !.fInTried = x]
<1>1. x \in BOOLEAN /\ x /\ Promoted(o, c) = i
  BY DEF Promoted
<1> HIDE DEF x
<1>2. o.nRefCount - c = 0 /\ 0 \in 0 .. NewBucketsPerAddress
  BY AddrManAssumption DEF InfoType
<1>3. /\ i \in InfoType /\ i.svc = o.svc /\ i.nRandomPos = o.nRandomPos /\ i.nLastSuccess = o.nLastSuccess
      /\ i.nRefCount = 0
  BY <1>1, <1>2 DEF InfoType
<1>4. i.fInTried = x
  BY <1>1 DEF InfoType
<1> HIDE DEF i
<1> QED BY <1>1, <1>3, <1>4

(* The fields of an entry that goes back to the new table.                   *)
LEMMA DemotedIs ==
    ASSUME NEW o \in InfoType
    PROVE  LET i == Demoted(o)
           IN  /\ i \in InfoType /\ i.svc = o.svc /\ i.nRandomPos = o.nRandomPos /\ i.nLastSuccess = o.nLastSuccess
               /\ ~i.fInTried /\ i.nRefCount = 1
<1> DEFINE x == FALSE
           i == [o EXCEPT !.nRefCount = 1, !.fInTried = x]
<1>1. x \in BOOLEAN /\ ~x /\ Demoted(o) = i
  BY DEF Demoted
<1> HIDE DEF x
<1>2. 1 \in 0 .. NewBucketsPerAddress
  BY AddrManAssumption
<1>3. /\ i \in InfoType /\ i.svc = o.svc /\ i.nRandomPos = o.nRandomPos /\ i.nLastSuccess = o.nLastSuccess
      /\ i.nRefCount = 1
  BY <1>1, <1>2 DEF InfoType
<1>4. i.fInTried = x
  BY <1>1 DEF InfoType
<1> HIDE DEF i
<1> QED BY <1>1, <1>3, <1>4

(* An entry leaves the new table.                                            *)
LEMMA OutIs ==
    ASSUME NEW m, NEW rb, NEW t, Tables(m, -1, 0, rb, t), NEW id \in Ids(m), ~m.mapInfo[id].fInTried
    PROVE  LET r == OutOfNew(m, id)
           IN  /\ Shape(r) /\ Indexed(r) /\ Ids(r) = Ids(m) /\ Alike(m, r, Ids(m) \ {id})
               /\ r.mapInfo[id].fInTried /\ r.mapInfo[id].nRefCount = 0
               /\ r.mapInfo[id].svc = m.mapInfo[id].svc
               /\ r.mapInfo[id].nLastSuccess = m.mapInfo[id].nLastSuccess
               /\ \A b \in NewBuckets : r.vvNew[b] = m.vvNew[b] \ {id}
               /\ r.vvTried = m.vvTried /\ r.nTried = m.nTried /\ r.nNew = m.nNew - 1
               /\ \A j \in Ids(m) \ {id} : r.mapInfo[j] = m.mapInfo[j]
<1> DEFINE r == OutOfNew(m, id)
           o == m.mapInfo[id]
           i == Promoted(o, Cardinality(NewIn(m, id)))
<1>1. Shape(m) /\ Indexed(m) /\ InNew(m, -1, 0) /\ -1 \notin Ids(m) /\ o \in InfoType
  BY DEF Tables, Shape
<1>2. o.nRefCount = Cardinality(NewIn(m, id))
  <2>1. o.nRefCount = Cardinality(NewIn(m, id)) + 0
    BY <1>1 DEF InNew
  <2>2. Cardinality(NewIn(m, id)) \in Nat
    BY <1>1, Finite DEF NewIn
  <2> QED BY <2>1, <2>2
<1>3. /\ i \in InfoType /\ i.svc = o.svc /\ i.nRandomPos = o.nRandomPos /\ i.nLastSuccess = o.nLastSuccess
      /\ i.fInTried /\ i.nRefCount = 0
  BY <1>1, <1>2, PromotedIs
<1>4. /\ Object(r) /\ r.mapInfo = [m.mapInfo EXCEPT ![id] = i]
      /\ r.vvNew = [b \in NewBuckets |-> m.vvNew[b] \ {id}]
      /\ r.mapAddr = m.mapAddr /\ r.vRandom = m.vRandom /\ r.nIdCount = m.nIdCount
      /\ r.nTried = m.nTried /\ r.nNew = m.nNew - 1 /\ r.vvTried = m.vvTried
  BY <1>1 DEF OutOfNew, NewIn, Shape, Object, Field
<1> HIDE DEF r, i
<1>5. m.mapInfo \in [Ids(m) -> InfoType] /\ m.vvNew \in [NewBuckets -> SUBSET Ids(m)] /\ m.nNew \in Int
  BY <1>1 DEF Shape
<1>6. Ids(r) = Ids(m) /\ r.mapInfo[id] = i /\ \A j \in Ids(m) \ {id} : r.mapInfo[j] = m.mapInfo[j]
  BY <1>4, <1>5 DEF Ids
<1>7. Shape(r)
  <2>1. r.mapInfo \in [Ids(r) -> InfoType]
    BY <1>3, <1>4, <1>5, <1>6
  <2>2. r.vvNew \in [NewBuckets -> SUBSET Ids(r)] /\ r.nNew \in Int
    BY <1>4, <1>5, <1>6
  <2> QED BY <1>1, <1>4, <1>6, <2>1, <2>2 DEF Shape
<1>8. SameIndexes(m, r)
  BY <1>3, <1>4, <1>6 DEF SameIndexes
<1>9. Indexed(r)
  BY <1>1, <1>8, IndexesKept
<1>10. Alike(m, r, Ids(m) \ {id})
  BY <1>6 DEF Alike
<1>11. \A b \in NewBuckets : r.vvNew[b] = m.vvNew[b] \ {id}
  BY <1>4
<1> QED BY <1>3, <1>4, <1>6, <1>7, <1>9, <1>10, <1>11 DEF r

(* In a tried bucket, id is new and the entries of gone have left.           *)
Moves(m, r, id, gone) ==
    LET kb == TriedBucketOf[m.mapInfo[id].svc] IN
    /\ Ids(r) = Ids(m) /\ Alike(m, r, Ids(m) \ ({id} \cup gone))
    /\ r.mapInfo[id].fInTried /\ r.mapInfo[id].nLastSuccess # 0 /\ r.mapInfo[id].nRefCount = 0
    /\ r.mapInfo[id].svc = m.mapInfo[id].svc
    /\ \A j \in gone : /\ j \in Ids(m) /\ m.mapInfo[j].fInTried /\ ~r.mapInfo[j].fInTried
                       /\ TriedBucketOf[m.mapInfo[j].svc] = kb
    /\ \A b \in NewBuckets : r.vvNew[b] \subseteq (m.vvNew[b] \ {id}) \cup gone
    /\ \A b \in TriedBuckets \ {kb} : r.vvTried[b] = m.vvTried[b]
    /\ \A p, q \in 1 .. Len(r.vvTried[kb]) : r.vvTried[kb][p] = r.vvTried[kb][q] => p = q
    /\ \E p \in 1 .. Len(r.vvTried[kb]) : r.vvTried[kb][p] = id
    /\ \A p \in 1 .. Len(r.vvTried[kb]) :
         \/ r.vvTried[kb][p] = id
         \/ /\ r.vvTried[kb][p] \notin gone
            /\ \E q \in 1 .. Len(m.vvTried[kb]) : r.vvTried[kb][p] = m.vvTried[kb][q]
    /\ \A q \in 1 .. Len(m.vvTried[kb]) :
         m.vvTried[kb][q] \in gone \/ \E p \in 1 .. Len(r.vvTried[kb]) : r.vvTried[kb][p] = m.vvTried[kb][q]

(* That leaves the tried table in order.                                     *)
LEMMA MovesKeep ==
    ASSUME NEW m, NEW r, NEW id \in Fresh(m), NEW gone, Shape(m), InTried(m), Moves(m, r, id, gone)
    PROVE  /\ InTried(r)
           /\ TriedIds(r) = (TriedIds(m) \ gone) \cup {id}
           /\ Fresh(r) = (Fresh(m) \ {id}) \cup gone
<1> DEFINE kb == TriedBucketOf[m.mapInfo[id].svc]
<1>1. id \in Ids(m) /\ ~m.mapInfo[id].fInTried /\ id \notin gone
  BY DEF Fresh, Moves
<1>2. kb \in TriedBuckets
  BY <1>1, AddrManAssumption DEF Shape, InfoType
<1>3. ASSUME NEW j \in Ids(m), j # id, j \notin gone
      PROVE  /\ j \in Ids(r) /\ r.mapInfo[j].svc = m.mapInfo[j].svc
             /\ r.mapInfo[j].nRefCount = m.mapInfo[j].nRefCount
             /\ r.mapInfo[j].fInTried = m.mapInfo[j].fInTried
             /\ r.mapInfo[j].nLastSuccess = m.mapInfo[j].nLastSuccess
  <2>1. j \in Ids(m) \ ({id} \cup gone)
    BY <1>3
  <2> QED BY <2>1 DEF Moves, Alike
<1>4. TriedIds(r) = (TriedIds(m) \ gone) \cup {id}
  <2>1. Ids(r) = Ids(m) /\ r.mapInfo[id].fInTried /\ \A j \in gone : j \in Ids(m) /\ ~r.mapInfo[j].fInTried
    BY DEF Moves
  <2> QED BY <1>1, <1>3, <2>1 DEF TriedIds
<1>5. Fresh(r) = (Fresh(m) \ {id}) \cup gone
  <2>1. Ids(r) = Ids(m) /\ r.mapInfo[id].fInTried /\ \A j \in gone : j \in Ids(m) /\ ~r.mapInfo[j].fInTried
    BY DEF Moves
  <2> QED BY <1>1, <1>3, <2>1 DEF Fresh
<1>6. ASSUME NEW j \in Ids(r), r.mapInfo[j].fInTried
      PROVE  /\ r.mapInfo[j].nLastSuccess # 0 /\ r.mapInfo[j].nRefCount = 0
             /\ \A b \in NewBuckets : j \notin r.vvNew[b]
             /\ \E p \in 1 .. Len(r.vvTried[TriedBucketOf[r.mapInfo[j].svc]]) :
                  r.vvTried[TriedBucketOf[r.mapInfo[j].svc]][p] = j
  <2>1. CASE j = id
    <3>1. /\ r.mapInfo[id].nLastSuccess # 0 /\ r.mapInfo[id].nRefCount = 0 /\ r.mapInfo[id].svc = m.mapInfo[id].svc
          /\ \E p \in 1 .. Len(r.vvTried[kb]) : r.vvTried[kb][p] = id
      BY DEF Moves
    <3>2. \A b \in NewBuckets : id \notin r.vvNew[b]
      BY <1>1 DEF Moves
    <3> QED BY <2>1, <3>1, <3>2
  <2>2. CASE j # id
    <3>1. j \in Ids(m) /\ j \notin gone
      BY <1>6 DEF Moves
    <3>2. /\ r.mapInfo[j].svc = m.mapInfo[j].svc /\ r.mapInfo[j].nRefCount = m.mapInfo[j].nRefCount
          /\ m.mapInfo[j].fInTried /\ r.mapInfo[j].nLastSuccess = m.mapInfo[j].nLastSuccess
      BY <1>3, <1>6, <2>2, <3>1
    <3> DEFINE b == TriedBucketOf[m.mapInfo[j].svc]
    <3>3. /\ m.mapInfo[j].nLastSuccess # 0 /\ m.mapInfo[j].nRefCount = 0
          /\ \A c \in NewBuckets : j \notin m.vvNew[c]
          /\ \E p \in 1 .. Len(m.vvTried[b]) : m.vvTried[b][p] = j
      BY <3>1, <3>2 DEF InTried
    <3>4. b \in TriedBuckets
      BY <3>1, AddrManAssumption DEF Shape, InfoType
    <3>5. \A c \in NewBuckets : j \notin r.vvNew[c]
      BY <3>1, <3>3 DEF Moves
    <3>6. \E p \in 1 .. Len(r.vvTried[b]) : r.vvTried[b][p] = j
      <4>1. CASE b # kb
        <5>1. r.vvTried[b] = m.vvTried[b]
          BY <3>4, <4>1 DEF Moves
        <5> QED BY <3>3, <5>1
      <4>2. CASE b = kb
        <5>1. PICK q \in 1 .. Len(m.vvTried[kb]) : m.vvTried[kb][q] = j
          BY <3>3, <4>2
        <5>2. \E p \in 1 .. Len(r.vvTried[kb]) : r.vvTried[kb][p] = m.vvTried[kb][q]
          BY <3>1, <5>1 DEF Moves
        <5> QED BY <4>2, <5>1, <5>2
      <4> QED BY <4>1, <4>2
    <3> QED BY <3>2, <3>3, <3>5, <3>6
  <2> QED BY <2>1, <2>2
<1>7. ASSUME NEW b \in TriedBuckets, NEW p \in 1 .. Len(r.vvTried[b])
      PROVE  /\ r.mapInfo[r.vvTried[b][p]].fInTried
             /\ TriedBucketOf[r.mapInfo[r.vvTried[b][p]].svc] = b
             /\ \A q \in 1 .. Len(r.vvTried[b]) : r.vvTried[b][p] = r.vvTried[b][q] => p = q
  <2>1. \A q \in 1 .. Len(m.vvTried[b]) :
          /\ m.vvTried[b][q] \in Ids(m) /\ m.mapInfo[m.vvTried[b][q]].fInTried
          /\ TriedBucketOf[m.mapInfo[m.vvTried[b][q]].svc] = b
          /\ \A k \in 1 .. Len(m.vvTried[b]) : m.vvTried[b][q] = m.vvTried[b][k] => q = k
    BY DEF InTried, Shape
  <2>2. CASE b # kb
    <3>1. r.vvTried[b] = m.vvTried[b] /\ p \in 1 .. Len(m.vvTried[b])
      BY <2>2 DEF Moves
    <3> DEFINE j == m.vvTried[b][p]
    <3>2. /\ j \in Ids(m) /\ m.mapInfo[j].fInTried /\ TriedBucketOf[m.mapInfo[j].svc] = b
          /\ \A k \in 1 .. Len(m.vvTried[b]) : j = m.vvTried[b][k] => p = k
      BY <2>1, <3>1
    <3>3. j # id
      BY <1>1, <3>2
    <3>4. j \notin gone
      <4>1. \A g \in gone : TriedBucketOf[m.mapInfo[g].svc] = kb
        BY DEF Moves
      <4> QED BY <2>2, <3>2, <4>1
    <3>5. r.mapInfo[j].svc = m.mapInfo[j].svc /\ r.mapInfo[j].fInTried = m.mapInfo[j].fInTried
      BY <1>3, <3>2, <3>3, <3>4
    <3> QED BY <3>1, <3>2, <3>5
  <2>3. CASE b = kb
    <3>1. \A k, q \in 1 .. Len(r.vvTried[b]) : r.vvTried[b][k] = r.vvTried[b][q] => k = q
      BY <2>3 DEF Moves
    <3> DEFINE j == r.vvTried[b][p]
    <3>2. CASE j = id
      BY <2>3, <3>1, <3>2 DEF Moves
    <3>3. CASE j # id
      <4>1. j \notin gone /\ \E q \in 1 .. Len(m.vvTried[b]) : j = m.vvTried[b][q]
        <5>1. \A k \in 1 .. Len(r.vvTried[kb]) :
                \/ r.vvTried[kb][k] = id
                \/ /\ r.vvTried[kb][k] \notin gone
                   /\ \E q \in 1 .. Len(m.vvTried[kb]) : r.vvTried[kb][k] = m.vvTried[kb][q]
          BY DEF Moves
        <5> QED BY <2>3, <3>3, <5>1
      <4>2. j \in Ids(m) /\ m.mapInfo[j].fInTried /\ TriedBucketOf[m.mapInfo[j].svc] = b
        BY <2>1, <4>1
      <4>3. r.mapInfo[j].svc = m.mapInfo[j].svc /\ r.mapInfo[j].fInTried = m.mapInfo[j].fInTried
        BY <1>3, <3>3, <4>1, <4>2
      <4> QED BY <3>1, <4>2, <4>3
    <3> QED BY <3>2, <3>3
  <2> QED BY <2>2, <2>3
<1> QED BY <1>4, <1>5, <1>6, <1>7 DEF InTried

(* With the counts of the entries that have left, all tables are in order.   *)
LEMMA MovedTables ==
    ASSUME NEW m, NEW r, NEW rb, NEW t, NEW id \in Fresh(m), NEW gone, Tables(m, -1, 0, rb, t),
           Moves(m, r, id, gone), Shape(r), Indexed(r), Totals(r), Sized(r, rb),
           \A j \in Ids(m) : /\ r.mapInfo[j].svc = m.mapInfo[j].svc
                             /\ r.mapInfo[j].nLastSuccess = m.mapInfo[j].nLastSuccess,
           \A b \in NewBuckets : r.vvNew[b] \ gone = m.vvNew[b] \ {id},
           \A j \in gone : r.mapInfo[j].nRefCount = Cardinality(NewIn(r, j)) /\ r.mapInfo[j].nRefCount > 0
    PROVE  Tables(r, -1, 0, rb, t) /\ Keeps(m, r)
<1>1. Shape(m) /\ InNew(m, -1, 0) /\ InTried(m) /\ Past(m, t) /\ Ids(r) = Ids(m) /\ -1 \notin Ids(m)
  <2>1. Ids(r) = Ids(m)
    BY DEF Moves
  <2>2. Shape(m) /\ InNew(m, -1, 0) /\ InTried(m) /\ Past(m, t)
    BY DEF Tables
  <2>3. -1 \notin Ids(m)
    BY <2>2 DEF Shape
  <2> QED BY <2>1, <2>2, <2>3
<1>2. InTried(r) /\ Fresh(r) = (Fresh(m) \ {id}) \cup gone
  BY <1>1, MovesKeep
<1>3. InNew(r, -1, 0)
  <2> SUFFICES ASSUME NEW j \in Ids(r), ~r.mapInfo[j].fInTried
               PROVE  /\ r.mapInfo[j].nRefCount = Cardinality(NewIn(r, j)) + 0
                      /\ r.mapInfo[j].nRefCount > 0
    BY <1>1 DEF InNew
  <2>1. Cardinality(NewIn(r, j)) \in Nat
    BY Finite DEF NewIn
  <2>2. CASE j \in gone
    BY <2>1, <2>2
  <2>3. CASE j \notin gone
    <3>1. j \in Fresh(m) /\ j # id
      BY <1>2, <2>3 DEF Fresh
    <3>2. NewIn(r, j) = NewIn(m, j)
      BY <2>3, <3>1 DEF NewIn
    <3>3. j \in Ids(m) \ ({id} \cup gone)
      BY <1>1, <2>3, <3>1
    <3>4. r.mapInfo[j].nRefCount = m.mapInfo[j].nRefCount
      BY <3>3 DEF Moves, Alike
    <3>5. m.mapInfo[j].nRefCount = Cardinality(NewIn(m, j)) + 0 /\ m.mapInfo[j].nRefCount > 0
      BY <1>1, <3>1 DEF InNew, Fresh
    <3> QED BY <3>2, <3>4, <3>5
  <2> QED BY <2>2, <2>3
<1>4. Past(r, t)
  BY <1>1 DEF Past
<1>5. Keeps(m, r)
  <2>1. \A j \in Ids(m) : m.mapInfo[j].nLastSuccess \in Int
    BY <1>1 DEF Shape, InfoType
  <2>2. \A j \in Ids(m) : r.mapInfo[j].nLastSuccess >= m.mapInfo[j].nLastSuccess
    BY <2>1
  <2> QED BY <1>1, <2>2 DEF Keeps, TriedIds
<1> QED BY <1>2, <1>3, <1>4, <1>5 DEF Tables

(* MakeTried when there is room in the tried bucket.                         *)
LEMMA RoomKeeps ==
    ASSUME NEW m, NEW rb, NEW t, Tables(m, -1, 0, rb, t), NEW id \in Fresh(m), m.mapInfo[id].nLastSuccess # 0,
           Len(m.vvTried[TriedBucketOf[m.mapInfo[id].svc]]) < TriedBucketSize
    PROVE  LET kb == TriedBucketOf[m.mapInfo[id].svc]
               r == [OutOfNew(m, id) EXCEPT !.vvTried[kb] = Append(@, id), !.nTried = @ + 1]
           IN  Tables(r, -1, 0, rb, t) /\ Keeps(m, r)
<1> DEFINE kb == TriedBucketOf[m.mapInfo[id].svc]
           v == m.vvTried[kb]
           gone == {}
           out == OutOfNew(m, id)
           r == [out EXCEPT !.vvTried[kb] = Append(@, id), !.nTried = @ + 1]
<1>1. /\ Shape(m) /\ Indexed(m) /\ InTried(m) /\ Totals(m) /\ Sized(m, rb)
      /\ id \in Ids(m) /\ ~m.mapInfo[id].fInTried
  BY DEF Tables, Fresh
<1>2. /\ Shape(out) /\ Indexed(out) /\ Ids(out) = Ids(m) /\ Alike(m, out, Ids(m) \ {id})
      /\ out.mapInfo[id].fInTried /\ out.mapInfo[id].nRefCount = 0
      /\ out.mapInfo[id].svc = m.mapInfo[id].svc
      /\ out.mapInfo[id].nLastSuccess = m.mapInfo[id].nLastSuccess
      /\ \A b \in NewBuckets : out.vvNew[b] = m.vvNew[b] \ {id}
      /\ out.vvTried = m.vvTried /\ out.nTried = m.nTried /\ out.nNew = m.nNew - 1
      /\ \A j \in Ids(m) \ {id} : out.mapInfo[j] = m.mapInfo[j]
  BY <1>1, OutIs
<1> HIDE DEF out
<1>3. kb \in TriedBuckets
  BY <1>1, AddrManAssumption DEF Shape, InfoType
<1>4. v \in Seq(Ids(m)) /\ Len(v) \in Nat /\ m.vvTried \in [TriedBuckets -> Seq(Ids(m))]
  BY <1>1, <1>3 DEF Shape
<1>5. /\ Object(r) /\ r.mapInfo = out.mapInfo /\ r.vvNew = out.vvNew
      /\ r.mapAddr = out.mapAddr /\ r.vRandom = out.vRandom /\ r.nIdCount = out.nIdCount
      /\ r.nTried = m.nTried + 1 /\ r.nNew = out.nNew /\ r.vvTried = [m.vvTried EXCEPT ![kb] = Append(v, id)]
  BY <1>2, <1>3, <1>4 DEF Shape, Object, Field
<1> HIDE DEF r
<1> DEFINE w == Append(v, id)
<1>6. /\ w \in Seq(Ids(m)) /\ Len(w) = Len(v) + 1 /\ w[Len(v) + 1] = id
      /\ \A p \in 1 .. Len(v) : w[p] = v[p]
  BY <1>1, <1>4, AppendProperties
<1> HIDE DEF w
<1>7. r.vvTried[kb] = w /\ \A b \in TriedBuckets \ {kb} : r.vvTried[b] = m.vvTried[b]
  BY <1>3, <1>4, <1>5 DEF w
<1>8. Ids(r) = Ids(m)
  BY <1>2, <1>5 DEF Ids
<1>9. Shape(r)
  <2>1. r.vvTried \in [TriedBuckets -> Seq(Ids(m))]
    BY <1>3, <1>4, <1>5, <1>6 DEF w
  <2>2. r.nTried \in Int
    BY <1>1, <1>5 DEF Shape
  <2> QED BY <1>2, <1>5, <1>8, <2>1, <2>2 DEF Shape
<1>10. Indexed(r)
  <2>1. SameIndexes(out, r)
    BY <1>2, <1>5, <1>8 DEF SameIndexes
  <2> QED BY <1>2, <2>1, IndexesKept
<1>11. \A p \in 1 .. Len(v) : v[p] \in Ids(m) /\ m.mapInfo[v[p]].fInTried /\ v[p] # id
  <2>1. \A p \in 1 .. Len(v) : v[p] \in Ids(m)
    BY <1>4
  <2>2. \A p \in 1 .. Len(v) : m.mapInfo[v[p]].fInTried
    BY <1>1, <1>3 DEF InTried
  <2> QED BY <1>1, <2>1, <2>2
<1>12. \A p \in 1 .. Len(w) : (p \in 1 .. Len(v) /\ w[p] = v[p]) \/ (p = Len(v) + 1 /\ w[p] = id)
  <2>1. \A n \in Nat : \A p \in 1 .. n + 1 : p \in 1 .. n \/ p = n + 1
    OBVIOUS
  <2> HIDE DEF v
  <2> QED BY <1>4, <1>6, <2>1
<1>13. Moves(m, r, id, gone)
  <2>1. Alike(m, r, Ids(m) \ ({id} \cup gone))
    BY <1>2, <1>5, <1>8 DEF Alike
  <2>2. \A b \in NewBuckets : r.vvNew[b] \subseteq (m.vvNew[b] \ {id}) \cup gone
    BY <1>2, <1>5
  <2>3. \A p, q \in 1 .. Len(v) : v[p] = v[q] => p = q
    BY <1>1, <1>3 DEF InTried
  <2>4. \A p, q \in 1 .. Len(w) : w[p] = w[q] => p = q
    BY <1>11, <1>12, <2>3
  <2>5. Len(v) + 1 \in 1 .. Len(w) /\ \A q \in 1 .. Len(v) : q \in 1 .. Len(w)
    BY <1>4, <1>6
  <2>6. \E p \in 1 .. Len(w) : w[p] = id
    BY <1>6, <2>5
  <2>7. \A p \in 1 .. Len(w) : w[p] = id \/ (w[p] \notin gone /\ \E q \in 1 .. Len(v) : w[p] = v[q])
    BY <1>12
  <2>8. \A q \in 1 .. Len(v) : v[q] \in gone \/ \E p \in 1 .. Len(w) : w[p] = v[q]
    BY <1>6, <2>5
  <2>9. r.mapInfo[id].fInTried /\ r.mapInfo[id].nLastSuccess # 0 /\ r.mapInfo[id].nRefCount = 0
    BY <1>2, <1>5
  <2>10. r.mapInfo[id].svc = m.mapInfo[id].svc
    BY <1>2, <1>5
  <2>11. \A j \in gone : FALSE
    OBVIOUS
  <2> HIDE DEF gone
  <2> QED BY <1>7, <1>8, <2>1, <2>2, <2>4, <2>6, <2>7, <2>8, <2>9, <2>10, <2>11 DEF Moves
<1> HIDE DEF gone
<1>14. TriedIds(r) = TriedIds(m) \cup {id} /\ Fresh(r) = Fresh(m) \ {id} /\ id \notin TriedIds(m)
  <2>1. InTried(r) /\ TriedIds(r) = (TriedIds(m) \ gone) \cup {id} /\ Fresh(r) = (Fresh(m) \ {id}) \cup gone
    BY <1>1, <1>13, MovesKeep
  <2> QED BY <1>1, <2>1 DEF TriedIds, gone
<1>15. Totals(r)
  <2>1. IsFiniteSet(TriedIds(m)) /\ IsFiniteSet(Fresh(m))
    BY <1>1, Finite DEF TriedIds, Fresh
  <2>2. Cardinality(TriedIds(r)) = Cardinality(TriedIds(m)) + 1
    BY <1>14, <2>1, FS_AddElement
  <2>3. Cardinality(Fresh(r)) = Cardinality(Fresh(m)) - 1
    BY <1>14, <2>1, FS_RemoveElement
  <2> QED BY <1>1, <1>2, <1>5, <2>2, <2>3 DEF Totals
<1>16. Sized(r, rb)
  <2>1. \A b \in TriedBuckets : Len(r.vvTried[b]) <= TriedBucketSize
    <3>1. Len(w) <= TriedBucketSize
      BY <1>4, <1>6, AddrManAssumption
    <3> QED BY <1>1, <1>7, <3>1 DEF Sized
  <2>2. \A b \in NewBuckets : Cardinality(r.vvNew[b]) <= Cardinality(m.vvNew[b])
    <3>1. \A b \in NewBuckets : m.vvNew[b] \in SUBSET Ids(m) /\ r.vvNew[b] \subseteq m.vvNew[b]
      BY <1>1, <1>2, <1>5 DEF Shape
    <3> QED BY <1>1, <3>1, Finite, FS_Subset
  <2>3. \A b \in NewBuckets : Cardinality(r.vvNew[b]) \in Int /\ Cardinality(m.vvNew[b]) \in Int
    <3>1. \A b \in NewBuckets : m.vvNew[b] \in SUBSET Ids(m) /\ r.vvNew[b] \in SUBSET Ids(r)
      BY <1>1, <1>9 DEF Shape
    <3> QED BY <1>1, <1>9, <3>1, Finite
  <2>4. rb \/ \A b \in NewBuckets : Cardinality(r.vvNew[b]) <= NewBucketSize
    BY <1>1, <2>2, <2>3, AddrManAssumption DEF Sized
  <2> QED BY <2>1, <2>4 DEF Sized
<1>17. \A j \in Ids(m) : /\ r.mapInfo[j].svc = m.mapInfo[j].svc
                         /\ r.mapInfo[j].nLastSuccess = m.mapInfo[j].nLastSuccess
  BY <1>2, <1>5
<1>18. \A b \in NewBuckets : r.vvNew[b] \ gone = m.vvNew[b] \ {id}
  BY <1>2, <1>5 DEF gone
<1>19. \A j \in gone : r.mapInfo[j].nRefCount = Cardinality(NewIn(r, j)) /\ r.mapInfo[j].nRefCount > 0
  BY DEF gone
<1>20. Tables(r, -1, 0, rb, t) /\ Keeps(m, r)
  BY <1>9, <1>10, <1>13, <1>15, <1>16, <1>17, <1>18, <1>19, MovedTables
<1> QED BY <1>20 DEF r, out

(* The bucket when the entry has taken the place of another one.             *)
LEMMA ReplacedIs ==
    ASSUME NEW S, NEW v \in Seq(S), NEW x \in Shuffled(S, v), NEW p \in 1 .. Len(v), NEW id \in S,
           \A q \in 1 .. Len(v) : v[q] # id
    PROVE  LET w == [x EXCEPT ![p] = id]
           IN  /\ w \in Seq(S) /\ Len(w) = Len(v) /\ w[p] = id /\ \E q \in 1 .. Len(v) : x[p] = v[q]
               /\ \A k, q \in 1 .. Len(v) : w[k] = w[q] => k = q
               /\ \A k \in 1 .. Len(v) : w[k] = id \/ (w[k] # x[p] /\ \E q \in 1 .. Len(v) : w[k] = v[q])
               /\ \A q \in 1 .. Len(v) : v[q] = x[p] \/ \E k \in 1 .. Len(v) : w[k] = v[q]
<1> DEFINE n == Len(v)
           w == [x EXCEPT ![p] = id]
<1>1. n \in Nat /\ x \in [1 .. n -> S]
  <2>1. n \in Nat
    OBVIOUS
  <2>2. x \in [1 .. n -> S]
    BY DEF Shuffled
  <2> QED BY <2>1, <2>2
<1>2. /\ \A k, q \in 1 .. n : x[k] = x[q] => k = q
      /\ \A k \in 1 .. n : \E q \in 1 .. n : x[q] = v[k]
      /\ \A k \in 1 .. n : \E q \in 1 .. n : x[k] = v[q]
  BY DEF Shuffled
<1>3. w \in [1 .. n -> S] /\ w[p] = id /\ \A k \in 1 .. n : k # p => w[k] = x[k]
  BY <1>1
<1> HIDE DEF n, w
<1>4. w \in Seq(S) /\ Len(w) = n
  BY <1>1, <1>3
<1>5. p \in 1 .. n /\ \A q \in 1 .. n : v[q] # id
  BY DEF n
<1>6. ASSUME NEW k \in 1 .. n PROVE x[k] # id
  <2>1. PICK q \in 1 .. n : x[k] = v[q]
    BY <1>2
  <2> QED BY <1>5, <2>1
<1>7. ASSUME NEW k \in 1 .. n, NEW q \in 1 .. n, w[k] = w[q] PROVE k = q
  <2>1. k = p \/ (w[k] = x[k] /\ x[k] # id)
    BY <1>3, <1>6
  <2>2. q = p \/ (w[q] = x[q] /\ x[q] # id)
    BY <1>3, <1>6
  <2>3. x[k] = x[q] => k = q
    BY <1>2
  <2> QED BY <1>3, <1>7, <2>1, <2>2, <2>3
<1>8. ASSUME NEW k \in 1 .. n PROVE w[k] = id \/ (w[k] # x[p] /\ \E q \in 1 .. n : w[k] = v[q])
  <2>1. CASE k = p
    BY <1>3, <2>1
  <2>2. CASE k # p
    <3>1. w[k] = x[k] /\ x[k] # x[p]
      BY <1>2, <1>3, <1>5, <2>2
    <3> QED BY <1>2, <3>1
  <2> QED BY <2>1, <2>2
<1>9. ASSUME NEW q \in 1 .. n PROVE v[q] = x[p] \/ \E k \in 1 .. n : w[k] = v[q]
  <2>1. PICK k \in 1 .. n : x[k] = v[q]
    BY <1>2
  <2> QED BY <1>3, <2>1
<1>10. \E q \in 1 .. n : x[p] = v[q]
  BY <1>2, <1>5
<1> QED BY <1>3, <1>4, <1>7, <1>8, <1>9, <1>10 DEF n, w

(* MakeTried when another entry has to leave the tried bucket.               *)
LEMMA ReplaceKeeps ==
    ASSUME NEW m, NEW rb, NEW t, Tables(m, -1, 0, rb, t), NEW id \in Fresh(m), m.mapInfo[id].nLastSuccess # 0,
           ~(Len(m.vvTried[TriedBucketOf[m.mapInfo[id].svc]]) < TriedBucketSize),
           NEW nOrigin \in NewIn(m, id),
           NEW sel \in SelectTried(OutOfNew(m, id), TriedBucketOf[m.mapInfo[id].svc]),
           NEW to, LET own == NewBucket(m.mapInfo[Evicted(sel)])
                   IN  IF Cardinality(OutOfNew(m, id).vvNew[own]) < NewBucketSize THEN to = own ELSE to = nOrigin
    PROVE  LET kb == TriedBucketOf[m.mapInfo[id].svc]
               r == Replace(OutOfNew(m, id), id, kb, sel, to)
           IN  Tables(r, -1, 0, rb, t) /\ Keeps(m, r)
<1> DEFINE kb == TriedBucketOf[m.mapInfo[id].svc]
           v == m.vvTried[kb]
           out == OutOfNew(m, id)
           x == sel[1]
           p == sel[3]
           ev == x[p]
           own == NewBucket(m.mapInfo[ev])
           w == [x EXCEPT ![p] = id]
           i == Demoted(m.mapInfo[ev])
           r == Replace(out, id, kb, sel, to)
           gone == {ev}
<1>1. /\ Shape(m) /\ Indexed(m) /\ InTried(m) /\ Totals(m) /\ Sized(m, rb)
      /\ id \in Ids(m) /\ ~m.mapInfo[id].fInTried
  BY DEF Tables, Fresh
<1>2. /\ Shape(out) /\ Indexed(out) /\ Ids(out) = Ids(m) /\ Alike(m, out, Ids(m) \ {id})
      /\ out.mapInfo[id].fInTried /\ out.mapInfo[id].nRefCount = 0
      /\ out.mapInfo[id].svc = m.mapInfo[id].svc
      /\ out.mapInfo[id].nLastSuccess = m.mapInfo[id].nLastSuccess
      /\ \A b \in NewBuckets : out.vvNew[b] = m.vvNew[b] \ {id}
      /\ out.vvTried = m.vvTried /\ out.nTried = m.nTried /\ out.nNew = m.nNew - 1
      /\ \A j \in Ids(m) \ {id} : out.mapInfo[j] = m.mapInfo[j]
  BY <1>1, OutIs
<1>3. kb \in TriedBuckets
  BY <1>1, AddrManAssumption DEF Shape, InfoType
<1>4. v \in Seq(Ids(m)) /\ Len(v) \in Nat \ {0} /\ m.vvTried \in [TriedBuckets -> Seq(Ids(m))]
  <2>1. v \in Seq(Ids(m)) /\ m.vvTried \in [TriedBuckets -> Seq(Ids(m))]
    BY <1>1, <1>3 DEF Shape
  <2>2. Len(v) \in Nat /\ ~(Len(v) < TriedBucketSize)
    BY <2>1
  <2> QED BY <2>1, <2>2, AddrManAssumption
<1>5. \A q \in 1 .. Len(v) : v[q] \in Ids(m) /\ m.mapInfo[v[q]].fInTried /\ v[q] # id
                             /\ TriedBucketOf[m.mapInfo[v[q]].svc] = kb
  <2>1. \A q \in 1 .. Len(v) : v[q] \in Ids(m)
    BY <1>4
  <2>2. \A q \in 1 .. Len(v) : m.mapInfo[v[q]].fInTried /\ TriedBucketOf[m.mapInfo[v[q]].svc] = kb
    <3>1. \A b \in TriedBuckets : \A q \in 1 .. Len(m.vvTried[b]) :
            m.mapInfo[m.vvTried[b][q]].fInTried /\ TriedBucketOf[m.mapInfo[m.vvTried[b][q]].svc] = b
      BY <1>1 DEF InTried
    <3> HIDE DEF kb
    <3> QED BY <1>3, <3>1
  <2> QED BY <1>1, <2>1, <2>2
<1>6. x \in Shuffled(Ids(m), v) /\ p \in 1 .. Len(v)
  <2>1. out.vvTried[kb] = v /\ sel \in SelectTried(out, kb)
    BY <1>2
  <2>2. \A k, q \in 1 .. Len(v) : v[k] = v[q] => k = q
    BY <1>1, <1>3 DEF InTried
  <2>3. Ids(m) \subseteq Nat
    BY <1>1, AddrManAssumption DEF Shape
  <2>4. Len(v) > 0
    BY <1>4
  <2> HIDE DEF out, kb, v
  <2>5. sel[1] \in Shuffled(Ids(m), v) /\ sel[3] \in 1 .. Len(v)
    BY <1>4, <2>1, <2>2, <2>3, <2>4, SelectIs
  <2> QED BY <2>5
<1>7. Evicted(sel) = ev /\ r = Replace(out, id, kb, sel, to)
  BY DEF Evicted
<1>8. r = [out EXCEPT !.mapInfo[ev] = Demoted(@), !.vvNew[to] = @ \cup {ev}, !.nNew = @ + 1, !.vvTried[kb] = w]
  BY DEF Replace, Evicted
<1>9. IF Cardinality(out.vvNew[own]) < NewBucketSize THEN to = own ELSE to = nOrigin
  BY <1>7
<1> HIDE DEF r, out, x, p, w, v, kb
<1>10. /\ w \in Seq(Ids(m)) /\ Len(w) = Len(v) /\ w[p] = id /\ \E q \in 1 .. Len(v) : ev = v[q]
       /\ \A k, q \in 1 .. Len(v) : w[k] = w[q] => k = q
       /\ \A k \in 1 .. Len(v) : w[k] = id \/ (w[k] # ev /\ \E q \in 1 .. Len(v) : w[k] = v[q])
       /\ \A q \in 1 .. Len(v) : v[q] = ev \/ \E k \in 1 .. Len(v) : w[k] = v[q]
  BY <1>1, <1>4, <1>5, <1>6, ReplacedIs DEF w
<1> HIDE DEF ev
<1>11. ev \in Ids(m) /\ m.mapInfo[ev].fInTried /\ ev # id /\ TriedBucketOf[m.mapInfo[ev].svc] = kb
  BY <1>5, <1>10
<1>12. own \in NewBuckets /\ nOrigin \in NewBuckets /\ id \in m.vvNew[nOrigin]
  <2>1. m.mapInfo[ev] \in InfoType
    BY <1>1, <1>11 DEF Shape
  <2>2. m.mapInfo[ev].svc \in Service /\ m.mapInfo[ev].source \in Source
    BY <2>1 DEF InfoType
  <2> QED BY <2>2, AddrManAssumption DEF NewBucket, NewIn
<1> HIDE DEF own
<1>13. to \in NewBuckets
  BY <1>9, <1>12
<1>14. out.mapInfo[ev] = m.mapInfo[ev]
  BY <1>2, <1>11
<1>15. /\ Object(r) /\ r.mapInfo = [out.mapInfo EXCEPT ![ev] = i]
       /\ r.vvNew = [out.vvNew EXCEPT ![to] = out.vvNew[to] \cup {ev}]
       /\ r.mapAddr = out.mapAddr /\ r.vRandom = out.vRandom /\ r.nIdCount = out.nIdCount
       /\ r.nTried = m.nTried /\ r.nNew = out.nNew + 1 /\ r.vvTried = [m.vvTried EXCEPT ![kb] = w]
  BY <1>2, <1>8, <1>14 DEF Shape, Object, Field
<1>16. /\ i \in InfoType /\ i.svc = m.mapInfo[ev].svc /\ i.nRandomPos = m.mapInfo[ev].nRandomPos
       /\ i.nLastSuccess = m.mapInfo[ev].nLastSuccess /\ ~i.fInTried /\ i.nRefCount = 1
  <2>1. m.mapInfo[ev] \in InfoType
    BY <1>1, <1>11 DEF Shape
  <2> QED BY <2>1, DemotedIs
<1> HIDE DEF i
<1>17. /\ out.mapInfo \in [Ids(m) -> InfoType] /\ out.vvNew \in [NewBuckets -> SUBSET Ids(m)] /\ m.nNew \in Int
  BY <1>1, <1>2 DEF Shape
<1>18. Ids(r) = Ids(m) /\ r.mapInfo[ev] = i /\ \A j \in Ids(m) \ {ev} : r.mapInfo[j] = out.mapInfo[j]
  BY <1>11, <1>15, <1>17 DEF Ids
<1>19. r.vvTried[kb] = w /\ \A b \in TriedBuckets \ {kb} : r.vvTried[b] = m.vvTried[b]
  BY <1>3, <1>4, <1>15
<1>20. r.vvNew[to] = out.vvNew[to] \cup {ev} /\ \A b \in NewBuckets \ {to} : r.vvNew[b] = out.vvNew[b]
  BY <1>13, <1>15, <1>17
<1>21. \A b \in NewBuckets : ev \notin m.vvNew[b]
  BY <1>1, <1>11 DEF InTried
<1>22. Shape(r)
  <2>1. r.vvTried \in [TriedBuckets -> Seq(Ids(m))]
    BY <1>3, <1>4, <1>10, <1>15
  <2>2. r.nNew \in Int /\ r.nTried \in Int
    BY <1>1, <1>2, <1>15 DEF Shape
  <2>3. r.mapInfo \in [Ids(m) -> InfoType]
    BY <1>11, <1>15, <1>16, <1>17
  <2>4. r.vvNew \in [NewBuckets -> SUBSET Ids(m)]
    BY <1>11, <1>13, <1>15, <1>17
  <2> QED BY <1>2, <1>15, <1>18, <2>1, <2>2, <2>3, <2>4 DEF Shape
<1>23. Indexed(r)
  <2>1. SameIndexes(out, r)
    BY <1>2, <1>14, <1>15, <1>16, <1>18 DEF SameIndexes
  <2> QED BY <1>2, <2>1, IndexesKept
<1> HIDE DEF gone
<1>24. Moves(m, r, id, gone)
  <2>1. Alike(m, r, Ids(m) \ ({id} \cup gone))
    BY <1>2, <1>18 DEF Alike, gone
  <2>2. \A b \in NewBuckets : r.vvNew[b] \subseteq (m.vvNew[b] \ {id}) \cup gone
    BY <1>2, <1>13, <1>20 DEF gone
  <2>3. \A j \in gone : /\ j \in Ids(m) /\ m.mapInfo[j].fInTried /\ ~r.mapInfo[j].fInTried
                        /\ TriedBucketOf[m.mapInfo[j].svc] = kb
    BY <1>11, <1>16, <1>18 DEF gone
  <2>4. \A k, q \in 1 .. Len(w) : w[k] = w[q] => k = q
    BY <1>10
  <2>5. \E k \in 1 .. Len(w) : w[k] = id
    BY <1>6, <1>10
  <2>6. \A k \in 1 .. Len(w) : w[k] = id \/ (w[k] \notin gone /\ \E q \in 1 .. Len(v) : w[k] = v[q])
    BY <1>10 DEF gone
  <2>7. \A q \in 1 .. Len(v) : v[q] \in gone \/ \E k \in 1 .. Len(w) : w[k] = v[q]
    BY <1>10 DEF gone
  <2>8. /\ r.mapInfo[id].fInTried /\ r.mapInfo[id].nLastSuccess # 0 /\ r.mapInfo[id].nRefCount = 0
        /\ r.mapInfo[id].svc = m.mapInfo[id].svc
    BY <1>1, <1>2, <1>11, <1>18
  <2> DEFINE z == r.vvTried[kb]
             y == m.vvTried[kb]
  <2>9. z = w /\ y = v
    BY <1>19 DEF v
  <2> HIDE DEF z, y
  <2>10. /\ \A k, q \in 1 .. Len(z) : z[k] = z[q] => k = q
         /\ \E k \in 1 .. Len(z) : z[k] = id
         /\ \A k \in 1 .. Len(z) : \/ z[k] = id
                                   \/ /\ z[k] \notin gone
                                      /\ \E q \in 1 .. Len(y) : z[k] = y[q]
         /\ \A q \in 1 .. Len(y) : y[q] \in gone \/ \E k \in 1 .. Len(z) : z[k] = y[q]
    BY <2>4, <2>5, <2>6, <2>7, <2>9, Zenon
  <2> QED BY <1>18, <1>19, <2>1, <2>2, <2>3, <2>8, <2>10 DEF Moves, kb, z, y
<1>25. Sized(r, rb)
  <2>1. \A b \in TriedBuckets : Len(r.vvTried[b]) <= TriedBucketSize
    <3>1. \A b \in TriedBuckets : Len(m.vvTried[b]) <= TriedBucketSize
      BY <1>1 DEF Sized
    <3>2. Len(w) <= TriedBucketSize
      BY <1>3, <1>10, <3>1 DEF v
    <3> QED BY <1>19, <3>1, <3>2
  <2>2. \A b \in NewBuckets : /\ IsFiniteSet(m.vvNew[b]) /\ Cardinality(m.vvNew[b]) \in Int
                              /\ IsFiniteSet(out.vvNew[b]) /\ Cardinality(out.vvNew[b]) \in Int
    <3>1. \A b \in NewBuckets : m.vvNew[b] \in SUBSET Ids(m) /\ out.vvNew[b] \in SUBSET Ids(m)
      BY <1>1, <1>17 DEF Shape
    <3> QED BY <1>1, <3>1, Finite
  <2>3. \A b \in NewBuckets : Cardinality(out.vvNew[b]) <= Cardinality(m.vvNew[b])
    BY <1>2, <2>2, FS_Subset
  <2>4. ASSUME ~rb, NEW b \in NewBuckets PROVE Cardinality(r.vvNew[b]) <= NewBucketSize
    <3>1. Cardinality(m.vvNew[b]) <= NewBucketSize
      BY <1>1, <2>4 DEF Sized
    <3>2. CASE b # to
      <4>1. Cardinality(r.vvNew[b]) <= Cardinality(m.vvNew[b])
        BY <1>20, <2>3, <3>2
      <4> QED BY <1>20, <2>2, <3>1, <3>2, <4>1, AddrManAssumption
    <3>3. CASE b = to
      <4>1. Cardinality(r.vvNew[to]) = Cardinality(out.vvNew[to]) + 1
        <5>1. ev \notin out.vvNew[to]
          BY <1>2, <1>13, <1>21
        <5> QED BY <1>13, <1>20, <2>2, <5>1, FS_AddElement
      <4>2. Cardinality(out.vvNew[to]) < NewBucketSize
        <5>1. CASE to = own /\ Cardinality(out.vvNew[own]) < NewBucketSize
          BY <5>1
        <5>2. CASE to = nOrigin
          <6>1. Cardinality(out.vvNew[to]) = Cardinality(m.vvNew[to]) - 1
            BY <1>2, <1>12, <2>2, <5>2, FS_RemoveElement
          <6> QED BY <1>13, <2>2, <3>1, <3>3, <6>1, AddrManAssumption
        <5> QED BY <1>9, <5>1, <5>2
      <4> QED BY <1>13, <2>2, <3>3, <4>1, <4>2, AddrManAssumption
    <3> QED BY <3>2, <3>3
  <2> QED BY <2>1, <2>4 DEF Sized
<1>26. \A j \in gone : r.mapInfo[j].nRefCount = Cardinality(NewIn(r, j)) /\ r.mapInfo[j].nRefCount > 0
  <2>1. NewIn(r, ev) = {to}
    BY <1>2, <1>13, <1>20, <1>21 DEF NewIn
  <2>2. Cardinality(NewIn(r, ev)) = 1
    BY <2>1, FS_Singleton
  <2> QED BY <1>16, <1>18, <2>2 DEF gone
<1>27. \A b \in NewBuckets : r.vvNew[b] \ gone = m.vvNew[b] \ {id}
  BY <1>2, <1>13, <1>20, <1>21 DEF gone
<1>28. \A j \in Ids(m) : /\ r.mapInfo[j].svc = m.mapInfo[j].svc
                         /\ r.mapInfo[j].nLastSuccess = m.mapInfo[j].nLastSuccess
  BY <1>2, <1>16, <1>18
<1>29. InTried(r) /\ TriedIds(r) = (TriedIds(m) \ gone) \cup {id} /\ Fresh(r) = (Fresh(m) \ {id}) \cup gone
  BY <1>1, <1>24, MovesKeep
<1>30. Totals(r)
  <2>1. IsFiniteSet(TriedIds(m)) /\ IsFiniteSet(Fresh(m))
    BY <1>1, Finite DEF TriedIds, Fresh
  <2>2. ev \in TriedIds(m) /\ id \notin TriedIds(m) /\ ev \notin Fresh(m)
    BY <1>1, <1>11 DEF TriedIds, Fresh
  <2>3. /\ Cardinality(TriedIds(m) \ {ev}) = Cardinality(TriedIds(m)) - 1 /\ IsFiniteSet(TriedIds(m) \ {ev})
        /\ Cardinality(Fresh(m) \ {id}) = Cardinality(Fresh(m)) - 1 /\ IsFiniteSet(Fresh(m) \ {id})
    BY <2>1, <2>2, FS_RemoveElement
  <2>4. Cardinality((TriedIds(m) \ {ev}) \cup {id}) = Cardinality(TriedIds(m) \ {ev}) + 1
    <3>1. id \notin TriedIds(m) \ {ev}
      BY <2>2
    <3> QED BY <2>3, <3>1, FS_AddElement
  <2>5. Cardinality((Fresh(m) \ {id}) \cup {ev}) = Cardinality(Fresh(m) \ {id}) + 1
    <3>1. ev \notin Fresh(m) \ {id}
      BY <2>2
    <3> QED BY <2>3, <3>1, FS_AddElement
  <2>6. Cardinality(TriedIds(m)) \in Nat /\ Cardinality(Fresh(m)) \in Nat
    BY <2>1, FS_CardinalityType
  <2>7. Cardinality(TriedIds(r)) = Cardinality(TriedIds(m)) /\ Cardinality(Fresh(r)) = Cardinality(Fresh(m))
    BY <1>29, <2>3, <2>4, <2>5, <2>6 DEF gone
  <2>8. m.nNew - 1 + 1 = m.nNew
    BY <1>17
  <2> QED BY <1>1, <1>2, <1>15, <2>7, <2>8 DEF Totals
<1>31. Tables(r, -1, 0, rb, t) /\ Keeps(m, r)
  BY <1>22, <1>23, <1>24, <1>25, <1>26, <1>27, <1>28, <1>30, MovedTables
<1> QED BY <1>31 DEF r, out, kb

(* MakeTried moves an entry to the tried table.                              *)
LEMMA MakeTriedKeeps ==
    ASSUME NEW m, NEW rb, NEW t, Tables(m, -1, 0, rb, t), NEW id \in Fresh(m), m.mapInfo[id].nLastSuccess # 0,
           NEW nOrigin \in NewIn(m, id), NEW r \in MakeTried(m, id, nOrigin)
    PROVE  Tables(r, -1, 0, rb, t) /\ Keeps(m, r)
<1> DEFINE kb == TriedBucketOf[m.mapInfo[id].svc]
           out == OutOfNew(m, id)
           own(sel) == NewBucket(m.mapInfo[Evicted(sel)])
           to(sel) == IF Cardinality(out.vvNew[own(sel)]) < NewBucketSize THEN own(sel) ELSE nOrigin
<1>1. CASE Len(m.vvTried[kb]) < TriedBucketSize
  <2>1. r = [out EXCEPT !.vvTried[kb] = Append(@, id), !.nTried = @ + 1]
    BY <1>1 DEF MakeTried
  <2> QED BY <1>1, <2>1, RoomKeeps
<1>2. CASE ~(Len(m.vvTried[kb]) < TriedBucketSize)
  <2>1. PICK sel \in SelectTried(out, kb) : r = Replace(out, id, kb, sel, to(sel))
    BY <1>2 DEF MakeTried
  <2>2. IF Cardinality(out.vvNew[own(sel)]) < NewBucketSize THEN to(sel) = own(sel) ELSE to(sel) = nOrigin
    OBVIOUS
  <2> HIDE DEF to
  <2> QED BY <1>2, <2>1, <2>2, ReplaceKeeps
<1> QED BY <1>1, <1>2

(* What is kept in two steps is kept.                                        *)
LEMMA KeepsAgain ==
    ASSUME NEW m, NEW s, NEW r, Shape(m), Shape(s), Shape(r), Keeps(m, s), Keeps(s, r), TriedIds(m) = TriedIds(s)
    PROVE  Keeps(m, r)
<1> SUFFICES ASSUME NEW j \in TriedIds(m)
             PROVE  /\ j \in Ids(r) /\ r.mapInfo[j].svc = m.mapInfo[j].svc
                    /\ r.mapInfo[j].nLastSuccess >= m.mapInfo[j].nLastSuccess
  BY DEF Keeps
<1>1. /\ j \in Ids(s) /\ s.mapInfo[j].svc = m.mapInfo[j].svc
      /\ s.mapInfo[j].nLastSuccess >= m.mapInfo[j].nLastSuccess
  BY DEF Keeps
<1>2. /\ j \in Ids(r) /\ r.mapInfo[j].svc = s.mapInfo[j].svc
      /\ r.mapInfo[j].nLastSuccess >= s.mapInfo[j].nLastSuccess
  BY DEF Keeps
<1>3. j \in Ids(m)
  BY DEF TriedIds
<1>4. r.mapInfo[j].nLastSuccess \in Int /\ s.mapInfo[j].nLastSuccess \in Int /\ m.mapInfo[j].nLastSuccess \in Int
  BY <1>1, <1>2, <1>3 DEF Shape, InfoType
<1> QED BY <1>1, <1>2, <1>4

(* Good.                                                                     *)
LEMMA GoodKeeps ==
    ASSUME IInv, NEW s, Good(s)
    PROVE  Tables(am', -1, 0, rebuilt, now) /\ Keeps(am, am')
<1> DEFINE id == Find(am, s)
           o == am.mapInfo[id]
           i == Reached(o)
           seen == [am EXCEPT !.mapInfo[id] = i]
<1>1. Tables(am, -1, 0, rebuilt, now) /\ Shape(am) /\ Past(am, now) /\ now \in 1 .. MaxNow
  BY DEF IInv, Tables
<1>2. id \in Ids(am) /\ o \in InfoType
  BY <1>1 DEF Good, Exact, Known, Find, Shape
<1>3. IF o.fInTried \/ NewIn(am, id) = {} THEN am' = seen
      ELSE \E nUBucket \in NewIn(am, id) : am' \in MakeTried(seen, id, nUBucket)
  <2>1. [am EXCEPT !.mapInfo[id] = Reached(@)] = seen
    BY <1>1, <1>2 DEF Shape, Object, Field
  <2> QED BY <2>1 DEF Good, NewIn
<1> HIDE DEF o, id
<1>4. /\ i \in InfoType /\ i.svc = o.svc /\ i.nRefCount = o.nRefCount /\ i.fInTried = o.fInTried
      /\ i.nRandomPos = o.nRandomPos /\ i.nLastSuccess = now
  BY <1>1, <1>2, ReachedIs DEF SamePlaces
<1>5. i.nLastSuccess >= o.nLastSuccess /\ i.nLastSuccess <= now /\ i.nLastSuccess # 0
  BY <1>1, <1>2, <1>4, AddrManAssumption DEF InfoType, Past, o
<1> HIDE DEF i
<1>6. /\ Tables(seen, -1, 0, rebuilt, now) /\ Ids(seen) = Ids(am) /\ seen.vvNew = am.vvNew
      /\ Keeps(am, seen) /\ seen.mapInfo[id] = i /\ TriedIds(seen) = TriedIds(am)
  BY <1>1, <1>2, <1>4, <1>5, TouchOneKeeps DEF o
<1> HIDE DEF seen
<1>7. CASE o.fInTried \/ NewIn(am, id) = {}
  BY <1>3, <1>6, <1>7
<1>8. CASE ~(o.fInTried \/ NewIn(am, id) = {})
  <2>1. PICK nUBucket \in NewIn(am, id) : am' \in MakeTried(seen, id, nUBucket)
    BY <1>3, <1>8
  <2>2. NewIn(seen, id) = NewIn(am, id)
    BY <1>6 DEF NewIn
  <2>3. id \in Fresh(seen) /\ seen.mapInfo[id].nLastSuccess # 0
    BY <1>2, <1>4, <1>5, <1>6, <1>8 DEF Fresh
  <2>4. Tables(am', -1, 0, rebuilt, now) /\ Keeps(seen, am')
    BY <1>6, <2>1, <2>2, <2>3, MakeTriedKeeps
  <2>5. Shape(seen) /\ Shape(am')
    BY <1>6, <2>4 DEF Tables
  <2>6. Keeps(am, am')
    BY <1>1, <1>6, <2>4, <2>5, KeepsAgain
  <2> QED BY <2>4, <2>6
<1> QED BY <1>7, <1>8

-----------------------------------------------------------------------------
(* The objects GetAddr's swaps lead to.                                      *)
Reordered(m, f, u) == [m EXCEPT !.mapInfo = f, !.vRandom = u]
Reorderings(m) == {Reordered(m, f, u) : f \in [Ids(m) -> InfoType], u \in Seq(Ids(m))}
Swapped(m) ==
    {r \in Reorderings(m) :
       /\ Shape(r) /\ Indexed(r) /\ SameLodging(m, r) /\ Len(r.vRandom) = Len(m.vRandom)
       /\ r.mapAddr = m.mapAddr /\ r.nIdCount = m.nIdCount
       /\ \A id \in Ids(m) : r.mapInfo[id].nLastSuccess = m.mapInfo[id].nLastSuccess}

(* What belongs to them.                                                     *)
LEMMA SwappedIs ==
    ASSUME NEW m, NEW r, Shape(m), Shape(r), Indexed(r), SameLodging(m, r), Len(r.vRandom) = Len(m.vRandom),
           r.mapAddr = m.mapAddr, r.nIdCount = m.nIdCount,
           \A id \in Ids(m) : r.mapInfo[id].nLastSuccess = m.mapInfo[id].nLastSuccess
    PROVE  r \in Swapped(m)
<1> DEFINE f == r.mapInfo
           u == r.vRandom
<1>1. f \in [Ids(m) -> InfoType] /\ u \in Seq(Ids(m))
  BY DEF Shape, SameLodging
<1>2. r = Reordered(m, f, u)
  BY DEF Shape, Object, Field, SameLodging, Reordered
<1> HIDE DEF f, u
<1>3. r \in Reorderings(m)
  BY <1>1, <1>2 DEF Reorderings
<1> QED BY <1>3 DEF Swapped

(* A swap leads from one to another.                                         *)
LEMMA SwappedAgain ==
    ASSUME NEW m, Shape(m), NEW s \in Swapped(m), NEW p \in 1 .. Len(m.vRandom), NEW q \in 1 .. Len(m.vRandom)
    PROVE  SwapRandom(s, p, q) \in Swapped(m)
<1> DEFINE r == SwapRandom(s, p, q)
<1>1. /\ Shape(s) /\ Indexed(s) /\ SameLodging(m, s) /\ Len(s.vRandom) = Len(m.vRandom)
      /\ s.mapAddr = m.mapAddr /\ s.nIdCount = m.nIdCount
      /\ \A id \in Ids(m) : s.mapInfo[id].nLastSuccess = m.mapInfo[id].nLastSuccess
  BY DEF Swapped
<1>2. p \in 1 .. Len(s.vRandom) /\ q \in 1 .. Len(s.vRandom)
  BY <1>1
<1>3. /\ Shape(r) /\ Indexed(r) /\ SameLodging(s, r)
      /\ r.mapAddr = s.mapAddr /\ r.nIdCount = s.nIdCount /\ Len(r.vRandom) = Len(s.vRandom)
      /\ \A id \in Ids(s) : r.mapInfo[id].nLastSuccess = s.mapInfo[id].nLastSuccess
  BY <1>1, <1>2, SwapKeeps
<1> HIDE DEF r
<1>4. Ids(s) = Ids(m)
  BY <1>1 DEF SameLodging
<1>5. \A id \in Ids(m) : r.mapInfo[id].nLastSuccess = m.mapInfo[id].nLastSuccess
  BY <1>1, <1>3, <1>4
<1>6. SameLodging(m, r)
  <2>1. \A id \in Ids(m) : m.mapInfo[id].nLastSuccess \in Int
    BY DEF Shape, InfoType
  <2>2. \A id \in Ids(m) : r.mapInfo[id].nLastSuccess >= m.mapInfo[id].nLastSuccess
    BY <1>5, <2>1
  <2> QED BY <1>1, <1>3, <2>2 DEF SameLodging
<1>7. r \in Swapped(m)
  BY <1>1, <1>3, <1>5, <1>6, SwappedIs
<1> QED BY <1>7 DEF r

(* They are in order.                                                        *)
LEMMA SwappedKeeps ==
    ASSUME NEW m, NEW rb, NEW t, Tables(m, -1, 0, rb, t), NEW r \in Swapped(m)
    PROVE  Tables(r, -1, 0, rb, t) /\ Keeps(m, r)
<1>1. Shape(m) /\ InNew(m, -1, 0) /\ InTried(m) /\ Totals(m) /\ Sized(m, rb) /\ Past(m, t)
  BY DEF Tables
<1>2. /\ Shape(r) /\ Indexed(r) /\ SameLodging(m, r)
      /\ \A id \in Ids(m) : r.mapInfo[id].nLastSuccess = m.mapInfo[id].nLastSuccess
  BY DEF Swapped
<1>3. InNew(r, -1, 0) /\ InTried(r) /\ Totals(r) /\ Sized(r, rb)
  BY <1>1, <1>2, LodgingKept
<1>4. Past(r, t)
  BY <1>1, <1>2 DEF Past, SameLodging
<1>5. Keeps(m, r)
  BY <1>2 DEF Keeps, TriedIds, SameLodging
<1> QED BY <1>2, <1>3, <1>4, <1>5 DEF Tables

(* GetAddr.                                                                  *)
LEMMA GetAddrKeeps ==
    ASSUME IInv, GetAddr
    PROVE  Tables(am', -1, 0, rebuilt, now) /\ Keeps(am, am')
<1> DEFINE size == Len(am.vRandom)
           share == (GetAddrMaxPct * size) \div 100
           L == IF share > GetAddrMax THEN GetAddrMax ELSE share
<1>1. Tables(am, -1, 0, rebuilt, now) /\ Shape(am) /\ Indexed(am)
  BY DEF IInv, Tables
<1>2. size \in Nat /\ L \in Nat
  <2>1. size \in Nat
    BY <1>1 DEF Shape
  <2> HIDE DEF size
  <2>2. GetAddrMaxPct \in Nat /\ GetAddrMax \in Nat /\ L > 0
    BY AddrManAssumption DEF GetAddr, size
  <2>3. GetAddrMaxPct * size \in Int
    BY <2>1, <2>2
  <2>4. \A a \in Int : a \div 100 \in Int
    OBVIOUS
  <2>6. share \in Int
    BY <2>3, <2>4
  <2> HIDE DEF share
  <2>5. L \in Int
    BY <2>2, <2>6
  <2> HIDE DEF L
  <2> QED BY <2>1, <2>2, <2>5
<1>3. PICK pos \in [1 .. L -> 1 .. size] :
        /\ \A n \in 1 .. L : pos[n] >= n
        /\ am' = (CHOOSE g : g = [n \in 0 .. L |-> IF n = 0 THEN am ELSE SwapRandom(g[n - 1], n, pos[n])])[L]
  BY DEF GetAddr
<1> DEFINE A(v, n) == SwapRandom(v, n, pos[n])
           Eq(g) == g = [n \in 0 .. L |-> IF n = 0 THEN am ELSE A(g[n - 1], n)]
           W == Swapped(am)
           F == [y \in W \X (1 .. L) |-> A(y[1], y[2])]
           h == CHOOSE g : Eq(g)
<1>4. am' = h[L]
  BY <1>3
<1>5. am \in W
  <2>1. \A id \in Ids(am) : am.mapInfo[id].nLastSuccess \in Int
    BY <1>1 DEF Shape, InfoType
  <2>2. SameLodging(am, am)
    BY <2>1 DEF SameLodging
  <2> QED BY <1>1, <2>2, SwappedIs
<1> HIDE DEF size, share, L
<1>6. ASSUME NEW v \in W, NEW n \in 1 .. L PROVE A(v, n) \in W
  <2>1. n \in 1 .. size /\ pos[n] \in 1 .. size
    <3>1. pos[n] \in 1 .. size /\ pos[n] >= n
      BY <1>3
    <3> QED BY <1>2, <3>1
  <2> QED BY <1>1, <2>1, SwappedAgain DEF size
<1> HIDE DEF W, A
<1>7. \A v \in W : \A n \in 1 .. L : F[<<v, n>>] = A(v, n) /\ F[<<v, n>>] \in W
  BY <1>6
<1> HIDE DEF F, Eq, h
<1>8. Loop(W, F, L)
  BY <1>2, <1>7 DEF Loop
<1>9. PICK g : Goes(g, W, F, L, am)
  BY <1>5, <1>8, LoopRuns
<1>10. ASSUME NEW n \in 0 .. L PROVE g[n] = IF n = 0 THEN am ELSE A(g[n - 1], n)
  <2>1. n # 0 => n \in 1 .. L /\ n - 1 \in 0 .. L
    BY <1>2
  <2> QED BY <1>7, <1>9, <2>1 DEF Goes
<1>11. Eq(g)
  BY <1>9, <1>10 DEF Eq, Goes
<1>12. Eq(h)
  BY <1>11 DEF h
<1>13. h = [n \in 0 .. L |-> h[n]] /\ h[0] = am /\ \A n \in 1 .. L : h[n] = A(h[n - 1], n)
  BY <1>2, <1>12 DEF Eq
<1>14. Goes(h, W, F, L, am)
  BY <1>5, <1>7, <1>8, <1>13, LoopIs
<1>15. am' \in W
  <2>1. L \in 0 .. L
    BY <1>2
  <2> QED BY <1>4, <1>14, <2>1 DEF Goes
<1> QED BY <1>1, <1>15, SwappedKeeps DEF W

-----------------------------------------------------------------------------
(* peers.dat.  The rank of a number in a finite set of them grows with the   *)
(* number and takes each value below the size of the set.                    *)
LEMMA RankIs ==
    ASSUME NEW S, S \subseteq Int, IsFiniteSet(S)
    PROVE  /\ Cardinality(S) \in Nat
           /\ \A x \in S : Rank(S, x) \in 0 .. Cardinality(S) - 1
           /\ \A x, y \in S : x < y => Rank(S, x) < Rank(S, y)
           /\ \A x, y \in S : Rank(S, x) = Rank(S, y) => x = y
           /\ \A k \in 0 .. Cardinality(S) - 1 : \E x \in S : Rank(S, x) = k
<1> DEFINE n == Cardinality(S)
           Low(x) == {y \in S : y < x}
           f == [x \in S |-> Rank(S, x)]
<1>1. n \in Nat
  BY FS_CardinalityType
<1>2. \A x : IsFiniteSet(Low(x)) /\ Rank(S, x) = Cardinality(Low(x)) /\ Rank(S, x) \in Nat
  <2>1. \A x : IsFiniteSet(Low(x))
    BY FS_Subset
  <2>2. \A x : Cardinality(Low(x)) \in Nat
    BY <2>1, FS_CardinalityType
  <2> QED BY <2>1, <2>2 DEF Rank
<1>3. ASSUME NEW x \in S PROVE Rank(S, x) \in 0 .. n - 1
  <2>1. Low(x) \in SUBSET (S \ {x})
    OBVIOUS
  <2>2. IsFiniteSet(S \ {x}) /\ Cardinality(S \ {x}) = n - 1
    BY FS_RemoveElement
  <2> HIDE DEF Low, n
  <2>3. Cardinality(Low(x)) <= n - 1
    BY <2>1, <2>2, FS_Subset
  <2> QED BY <1>1, <1>2, <2>3
<1>4. ASSUME NEW x \in S, NEW y \in S, x < y PROVE Rank(S, x) < Rank(S, y)
  <2>1. x \notin Low(x) /\ Low(x) \cup {x} \in SUBSET Low(y)
    <3>1. \A z \in Int, w \in Int, u \in Int : ~(z < z) /\ (z < w /\ w < u => z < u)
      OBVIOUS
    <3>2. ~(x < x) /\ \A z \in S : z < x => z < y
      BY <1>4, <3>1
    <3> QED BY <1>4, <3>2
  <2> HIDE DEF Low
  <2>2. IsFiniteSet(Low(x)) /\ IsFiniteSet(Low(y))
    BY <1>2
  <2>3. Cardinality(Low(x) \cup {x}) = Cardinality(Low(x)) + 1
    BY <2>1, <2>2, FS_AddElement
  <2>4. Cardinality(Low(x) \cup {x}) <= Cardinality(Low(y))
    BY <2>1, <2>2, FS_Subset
  <2> QED BY <1>2, <2>3, <2>4
<1>5. ASSUME NEW x \in S, NEW y \in S, Rank(S, x) = Rank(S, y) PROVE x = y
  <2>1. x \in Int /\ y \in Int /\ Rank(S, x) \in Nat
    BY <1>2
  <2>2. ~(Rank(S, x) < Rank(S, y)) /\ ~(Rank(S, y) < Rank(S, x))
    BY <1>5, <2>1
  <2>3. ~(x < y) /\ ~(y < x)
    BY <1>4, <2>2
  <2> QED BY <2>1, <2>3
<1>6. f \in Injection(S, 0 .. n - 1)
  BY <1>3, <1>5 DEF Injection, IsInjective
<1>7. IsFiniteSet(0 .. n - 1) /\ Cardinality(0 .. n - 1) = Cardinality(S)
  BY <1>1, BelowIs
<1> HIDE DEF n, f
<1>8. f \in Surjection(S, 0 .. n - 1)
  BY <1>6, <1>7, FS_Injection
<1>9. \A k \in 0 .. n - 1 : \E x \in S : f[x] = k
  BY <1>8 DEF Surjection
<1> QED BY <1>1, <1>3, <1>4, <1>5, <1>9 DEF f, n

(* Sorted lists each number at its rank.                                     *)
LEMMA SortedIs ==
    ASSUME NEW S, S \subseteq Int, IsFiniteSet(S)
    PROVE  /\ DOMAIN Sorted(S) = 1 .. Cardinality(S) /\ Sorted(S) \in Seq(S) /\ Len(Sorted(S)) = Cardinality(S)
           /\ \A n \in 1 .. Cardinality(S) : Sorted(S)[n] \in S /\ Rank(S, Sorted(S)[n]) = n - 1
           /\ \A x \in S : Rank(S, x) + 1 \in 1 .. Cardinality(S) /\ Sorted(S)[Rank(S, x) + 1] = x
           /\ \A n, k \in 1 .. Cardinality(S) : Sorted(S)[n] = Sorted(S)[k] => n = k
<1> DEFINE c == Cardinality(S)
           v == Sorted(S)
<1>1. /\ c \in Nat
      /\ \A x \in S : Rank(S, x) \in 0 .. c - 1
      /\ \A x, y \in S : Rank(S, x) = Rank(S, y) => x = y
      /\ \A k \in 0 .. c - 1 : \E x \in S : Rank(S, x) = k
  BY RankIs
<1>2. v = [n \in 1 .. c |-> CHOOSE x \in S : Rank(S, x) = n - 1]
  BY DEF Sorted
<1> HIDE DEF v, c
<1>3. ASSUME NEW n \in 1 .. c PROVE v[n] \in S /\ Rank(S, v[n]) = n - 1
  <2>1. n - 1 \in 0 .. c - 1
    BY <1>1
  <2>2. \E x \in S : Rank(S, x) = n - 1
    BY <1>1, <2>1
  <2>3. v[n] = CHOOSE x \in S : Rank(S, x) = n - 1
    BY <1>2
  <2> HIDE <1>2
  <2> QED BY <2>2, <2>3
<1>4. DOMAIN v = 1 .. c /\ v \in Seq(S) /\ Len(v) = c
  <2>1. DOMAIN v = 1 .. c /\ v = [n \in 1 .. c |-> v[n]]
    BY <1>2
  <2>2. v \in [1 .. c -> S]
    BY <1>3, <2>1
  <2> QED BY <1>1, <2>1, <2>2
<1>5. ASSUME NEW x \in S PROVE Rank(S, x) + 1 \in 1 .. c /\ v[Rank(S, x) + 1] = x
  <2>1. Rank(S, x) + 1 \in 1 .. c /\ (Rank(S, x) + 1) - 1 = Rank(S, x)
    BY <1>1
  <2>2. v[Rank(S, x) + 1] \in S /\ Rank(S, v[Rank(S, x) + 1]) = Rank(S, x)
    BY <1>3, <2>1
  <2> QED BY <1>1, <2>1, <2>2
<1>6. ASSUME NEW n \in 1 .. c, NEW k \in 1 .. c, v[n] = v[k] PROVE n = k
  <2>1. n - 1 = k - 1
    BY <1>3, <1>6
  <2> QED BY <1>1, <2>1
<1> QED BY <1>3, <1>4, <1>5, <1>6 DEF v, c

(* The numbers from 1 on are in order.                                       *)
LEMMA SortedInterval ==
    ASSUME NEW c \in Nat
    PROVE  DOMAIN Sorted(1 .. c) = 1 .. c /\ Len(Sorted(1 .. c)) = c /\ \A n \in 1 .. c : Sorted(1 .. c)[n] = n
<1>1. 1 .. c \subseteq Int /\ IsFiniteSet(1 .. c) /\ Cardinality(1 .. c) = c
  BY FS_Interval
<1>2. ASSUME NEW n \in 1 .. c PROVE Rank(1 .. c, n) = n - 1
  <2>1. {y \in 1 .. c : y < n} = 1 .. n - 1
    OBVIOUS
  <2>2. Cardinality(1 .. n - 1) = n - 1
    BY FS_Interval
  <2> QED BY <2>1, <2>2 DEF Rank
<1>3. /\ DOMAIN Sorted(1 .. c) = 1 .. Cardinality(1 .. c) /\ Len(Sorted(1 .. c)) = Cardinality(1 .. c)
      /\ \A x \in 1 .. c : Sorted(1 .. c)[Rank(1 .. c, x) + 1] = x
  BY <1>1, SortedIs
<1>4. \A n \in 1 .. c : (n - 1) + 1 = n
  OBVIOUS
<1> QED BY <1>1, <1>2, <1>3, <1>4

(* No more entries can be told apart in a tried bucket than it holds.        *)
LEMMA TriedCount ==
    ASSUME NEW m, Shape(m), InTried(m), NEW b \in TriedBuckets, NEW X, NEW h \in [X -> TriedIds(m)],
           \A x, y \in X : h[x] = h[y] => x = y,
           \A x \in X : TriedBucketOf[m.mapInfo[h[x]].svc] = b
    PROVE  IsFiniteSet(X) /\ Cardinality(X) <= Len(m.vvTried[b])
<1> DEFINE v == m.vvTried[b]
           c == Len(v)
           g == [x \in X |-> CHOOSE p \in 1 .. c : v[p] = h[x]]
<1>1. c \in Nat
  BY DEF Shape
<1>2. ASSUME NEW x \in X PROVE g[x] \in 1 .. c /\ v[g[x]] = h[x]
  <2>1. h[x] \in Ids(m) /\ m.mapInfo[h[x]].fInTried
    BY DEF TriedIds
  <2>2. \E p \in 1 .. c : v[p] = h[x]
    BY <2>1 DEF InTried
  <2> HIDE DEF v, c
  <2> QED BY <2>2
<1> HIDE DEF g, c
<1>3. g = [x \in X |-> g[x]]
  BY DEF g
<1>4. g \in [X -> 1 .. c]
  BY <1>2, <1>3
<1>5. \A x, y \in X : g[x] = g[y] => x = y
  BY <1>2
<1>6. g \in Injection(X, 1 .. c)
  BY <1>4, <1>5 DEF Injection, IsInjective
<1>7. IsFiniteSet(1 .. c) /\ Cardinality(1 .. c) = c
  BY <1>1, FS_Interval
<1> QED BY <1>6, <1>7, FS_Injection DEF c

(* What the file keeps of an entry, and the entry that is read back.         *)
DiskType == [svc : Service, source : Source, nTime : 0 .. MaxNow, nLastSuccess : 0 .. MaxNow,
             fJustTried : BOOLEAN, nAttempts : 0 .. MaxAttempts,
             nRefCount : 0 .. NewBucketsPerAddress, fInTried : BOOLEAN, nRandomPos : 0 .. MaxId]
ReadBack(e, c, x, p) == [e EXCEPT !.nRefCount = c, !.fInTried = x, !.nRandomPos = p]

(* The file keeps the service, its source and its statistics.                *)
LEMMA OnDiskIs ==
    ASSUME NEW o \in InfoType
    PROVE  /\ OnDisk(o) \in DiskType /\ OnDisk(o).svc = o.svc /\ OnDisk(o).source = o.source
           /\ OnDisk(o).nLastSuccess = o.nLastSuccess
<1> DEFINE x == FALSE
           i == [o EXCEPT !.fJustTried = x, !.nRefCount = 0, !.fInTried = x, !.nRandomPos = 0]
<1>1. x \in BOOLEAN /\ OnDisk(o) = i
  BY DEF OnDisk
<1> HIDE DEF x
<1>2. 0 \in 0 .. NewBucketsPerAddress /\ 0 \in 0 .. MaxId /\ 1 .. MaxId \subseteq 0 .. MaxId
  BY AddrManAssumption
<1>3. i \in DiskType
  BY <1>1, <1>2 DEF InfoType, DiskType
<1>4. i.svc = o.svc /\ i.source = o.source /\ i.nLastSuccess = o.nLastSuccess
  BY DEF InfoType
<1> QED BY <1>1, <1>3, <1>4

(* Reading an entry back sets the rest anew.                                 *)
LEMMA ReadBackIs ==
    ASSUME NEW e \in DiskType, NEW c \in 0 .. NewBucketsPerAddress, NEW x \in BOOLEAN, NEW p \in 1 .. MaxId
    PROVE  LET i == ReadBack(e, c, x, p)
           IN  /\ i \in InfoType /\ i.svc = e.svc /\ i.source = e.source /\ i.nLastSuccess = e.nLastSuccess
               /\ i.nRefCount = c /\ i.fInTried = x /\ i.nRandomPos = p
<1> DEFINE i == ReadBack(e, c, x, p)
<1>1. i \in InfoType
  BY DEF ReadBack, InfoType, DiskType
<1>2. i.svc = e.svc /\ i.source = e.source /\ i.nLastSuccess = e.nLastSuccess /\ i.nRefCount = c /\ i.nRandomPos = p
  BY DEF ReadBack, DiskType
<1>3. i.fInTried = x
  BY DEF ReadBack, DiskType
<1> QED BY <1>1, <1>2, <1>3

(* An entry that was read back would be written as it was.                   *)
LEMMA WrittenAgain ==
    ASSUME NEW o \in InfoType, NEW c \in 0 .. NewBucketsPerAddress, NEW x \in BOOLEAN, NEW p \in 1 .. MaxId
    PROVE  OnDisk(ReadBack(OnDisk(o), c, x, p)) = OnDisk(o)
<1> DEFINE y == FALSE
           e == [o EXCEPT !.fJustTried = y, !.nRefCount = 0, !.fInTried = y, !.nRandomPos = 0]
           i == [e EXCEPT !.nRefCount = c, !.fInTried = x, !.nRandomPos = p]
           z == [i EXCEPT !.fJustTried = y, !.nRefCount = 0, !.fInTried = y, !.nRandomPos = 0]
<1>1. OnDisk(o) = e /\ OnDisk(ReadBack(OnDisk(o), c, x, p)) = z
  BY DEF OnDisk, ReadBack
<1> HIDE DEF y
<1>2. z = e
  BY DEF InfoType
<1> QED BY <1>1, <1>2

-----------------------------------------------------------------------------
(* The new entries are those with a place.                                   *)
LEMMA NewAreFresh ==
    ASSUME NEW m, Shape(m), InNew(m, -1, 0), InTried(m)
    PROVE  NewIds(m) = Fresh(m) /\ NewIds(m) \cap TriedIds(m) = {} /\ Ids(m) = NewIds(m) \cup TriedIds(m)
<1>1. -1 \notin Ids(m) /\ \A id \in Ids(m) : m.mapInfo[id] \in InfoType
  BY DEF Shape
<1>2. \A id \in Ids(m) : m.mapInfo[id].fInTried \in BOOLEAN /\ m.mapInfo[id].nRefCount \in Int
  BY <1>1, AddrManAssumption DEF InfoType
<1>3. \A id \in Ids(m) : m.mapInfo[id].fInTried => m.mapInfo[id].nRefCount = 0
  BY DEF InTried
<1>4. \A id \in Ids(m) : ~m.mapInfo[id].fInTried => m.mapInfo[id].nRefCount > 0
  BY <1>1 DEF InNew
<1>5. NewIds(m) = Fresh(m)
  BY <1>2, <1>3, <1>4 DEF NewIds, Fresh
<1> QED BY <1>5 DEF Fresh, TriedIds

(* Entry number id of the tables that are read back was entry Old(m, id).    *)
NewCount(m) == Cardinality(NewIds(m))
Count(m) == Cardinality(NewIds(m)) + Cardinality(TriedIds(m))
All(m) == 0 .. Count(m) - 1
Old(m, id) ==
    IF id < NewCount(m) THEN Sorted(NewIds(m))[id + 1] ELSE Sorted(TriedIds(m))[id - NewCount(m) + 1]

(* That numbers all entries, the new ones first.                             *)
LEMMA OldIs ==
    ASSUME NEW m, Shape(m), InNew(m, -1, 0), InTried(m)
    PROVE  /\ NewCount(m) \in Nat /\ Count(m) \in Nat /\ NewCount(m) <= Count(m) /\ Count(m) <= MaxId
           /\ \A id \in All(m) : /\ Old(m, id) \in Ids(m)
                                 /\ id < NewCount(m) => Old(m, id) \in NewIds(m)
                                 /\ ~(id < NewCount(m)) => Old(m, id) \in TriedIds(m)
           /\ \A id, k \in All(m) : Old(m, id) = Old(m, k) => id = k
           /\ \A j \in NewIds(m) : /\ Rank(NewIds(m), j) \in All(m) /\ Rank(NewIds(m), j) < NewCount(m)
                                   /\ Old(m, Rank(NewIds(m), j)) = j
           /\ \A id \in All(m) : id < NewCount(m) => Rank(NewIds(m), Old(m, id)) = id
           /\ \A j \in Ids(m) : \E id \in All(m) : Old(m, id) = j
<1> DEFINE N == NewIds(m)
           T == TriedIds(m)
           n == NewCount(m)
           k == Cardinality(T)
<1>1. N \cap T = {} /\ Ids(m) = N \cup T
  BY NewAreFresh
<1>2. IsFiniteSet(N) /\ IsFiniteSet(T) /\ N \subseteq Int /\ T \subseteq Int
  <2>1. N \in SUBSET Ids(m) /\ T \in SUBSET Ids(m) /\ Ids(m) \subseteq Int
    BY <1>1 DEF Shape
  <2> QED BY <2>1, Finite
<1> HIDE DEF N, T
<1>3. n = Cardinality(N) /\ Count(m) = n + k /\ n \in Nat /\ k \in Nat
  BY <1>2, FS_CardinalityType DEF N, T, NewCount, Count
<1> HIDE DEF n, k
<1>4. /\ \A q \in 1 .. n : Sorted(N)[q] \in N /\ Rank(N, Sorted(N)[q]) = q - 1
      /\ \A x \in N : Rank(N, x) + 1 \in 1 .. n /\ Sorted(N)[Rank(N, x) + 1] = x
      /\ \A q, p \in 1 .. n : Sorted(N)[q] = Sorted(N)[p] => q = p
      /\ \A x \in N : Rank(N, x) \in 0 .. n - 1
  BY <1>2, <1>3, SortedIs, RankIs
<1>5. /\ \A q \in 1 .. k : Sorted(T)[q] \in T
      /\ \A x \in T : Rank(T, x) + 1 \in 1 .. k /\ Sorted(T)[Rank(T, x) + 1] = x
      /\ \A q, p \in 1 .. k : Sorted(T)[q] = Sorted(T)[p] => q = p
      /\ \A x \in T : Rank(T, x) \in 0 .. k - 1
  BY <1>2, SortedIs, RankIs DEF k
<1>6. All(m) = 0 .. n + k - 1
  BY <1>3 DEF All
<1>7. \A id : Old(m, id) = IF id < n THEN Sorted(N)[id + 1] ELSE Sorted(T)[id - n + 1]
  BY DEF Old, n, N, T
<1>8. \A id \in All(m) : (id < n => id + 1 \in 1 .. n) /\ (~(id < n) => id - n + 1 \in 1 .. k)
  BY <1>3, <1>6
<1>9. ASSUME NEW id \in All(m), id < n PROVE Old(m, id) \in N /\ Old(m, id) = Sorted(N)[id + 1] /\ Rank(N, Old(m, id)) = id
  <2>1. Old(m, id) = Sorted(N)[id + 1] /\ id + 1 \in 1 .. n /\ (id + 1) - 1 = id
    BY <1>6, <1>7, <1>8, <1>9
  <2> QED BY <1>4, <2>1
<1>10. ASSUME NEW id \in All(m), ~(id < n) PROVE Old(m, id) \in T /\ Old(m, id) = Sorted(T)[id - n + 1]
  BY <1>5, <1>7, <1>8, <1>10
<1>11. ASSUME NEW id \in All(m), NEW q \in All(m), Old(m, id) = Old(m, q) PROVE id = q
  <2>1. CASE id < n /\ q < n
    BY <1>9, <1>11, <2>1
  <2>2. CASE ~(id < n) /\ ~(q < n)
    <3>1. id - n + 1 = q - n + 1
      BY <1>5, <1>8, <1>10, <1>11, <2>2
    <3>2. id \in Int /\ q \in Int
      BY <1>6
    <3> QED BY <1>3, <3>1, <3>2
  <2>3. CASE (id < n) # (q < n)
    BY <1>1, <1>9, <1>10, <1>11, <2>3
  <2> QED BY <2>1, <2>2, <2>3
<1>12. ASSUME NEW j \in N PROVE Rank(N, j) \in All(m) /\ Rank(N, j) < n /\ Old(m, Rank(N, j)) = j
  <2>1. Rank(N, j) \in 0 .. n - 1 /\ Sorted(N)[Rank(N, j) + 1] = j
    BY <1>4
  <2>2. Rank(N, j) \in All(m) /\ Rank(N, j) < n
    BY <1>3, <1>6, <2>1
  <2> QED BY <1>7, <2>1, <2>2
<1>13. ASSUME NEW j \in T PROVE \E id \in All(m) : Old(m, id) = j
  <2> DEFINE id == n + Rank(T, j)
  <2>1. Rank(T, j) \in 0 .. k - 1 /\ Sorted(T)[Rank(T, j) + 1] = j
    BY <1>5
  <2>2. id \in All(m) /\ ~(id < n) /\ id - n + 1 = Rank(T, j) + 1
    BY <1>3, <1>6, <2>1
  <2> QED BY <1>7, <2>1, <2>2
<1>14. n + k <= MaxId
  <2> DEFINE f == [id \in All(m) |-> Old(m, id)]
  <2>1. f \in Injection(All(m), Ids(m))
    BY <1>1, <1>9, <1>10, <1>11 DEF Injection, IsInjective
  <2>2. IsFiniteSet(Ids(m)) /\ Cardinality(Ids(m)) <= MaxId /\ Cardinality(Ids(m)) \in Int
    BY Finite, AddrManAssumption
  <2>3. Cardinality(All(m)) = n + k
    BY <1>3, <1>6, BelowIs
  <2> HIDE DEF f
  <2>4. Cardinality(All(m)) <= Cardinality(Ids(m))
    BY <2>1, <2>2, FS_Injection
  <2> QED BY <1>3, <2>2, <2>3, <2>4, AddrManAssumption
<1>15. n <= n + k
  BY <1>3
<1> QED BY <1>1, <1>3, <1>9, <1>10, <1>11, <1>12, <1>13, <1>14, <1>15 DEF n, N, T

(* The file.                                                                 *)
LEMMA SerializeIs ==
    ASSUME NEW m, Shape(m), InNew(m, -1, 0), InTried(m)
    PROVE  LET f == Serialize(m)
           IN  /\ Len(f.new) = NewCount(m) /\ DOMAIN f.tried = 1 .. Cardinality(TriedIds(m))
               /\ \A n \in 1 .. NewCount(m) : f.new[n] = OnDisk(m.mapInfo[Sorted(NewIds(m))[n]])
               /\ \A n \in 1 .. Cardinality(TriedIds(m)) : f.tried[n] = OnDisk(m.mapInfo[Sorted(TriedIds(m))[n]])
               /\ \A b \in NewBuckets : f.buckets[b] = {Rank(NewIds(m), id) : id \in m.vvNew[b]}
<1> DEFINE N == NewIds(m)
           T == TriedIds(m)
           f == Serialize(m)
<1>1. IsFiniteSet(N) /\ IsFiniteSet(T) /\ N \subseteq Int /\ T \subseteq Int
  <2>1. N \in SUBSET Ids(m) /\ T \in SUBSET Ids(m) /\ Ids(m) \subseteq Int
    BY DEF Shape, NewIds, TriedIds
  <2> QED BY <2>1, Finite
<1>2. /\ f.new = [n \in DOMAIN Sorted(N) |-> OnDisk(m.mapInfo[Sorted(N)[n]])]
      /\ f.tried = [n \in DOMAIN Sorted(T) |-> OnDisk(m.mapInfo[Sorted(T)[n]])]
      /\ f.buckets = [b \in NewBuckets |-> {Rank(N, id) : id \in m.vvNew[b]}]
  BY DEF Serialize
<1> HIDE DEF f, N, T
<1>3. /\ DOMAIN Sorted(N) = 1 .. Cardinality(N) /\ Cardinality(N) \in Nat
      /\ DOMAIN Sorted(T) = 1 .. Cardinality(T)
  BY <1>1, SortedIs, FS_CardinalityType
<1>4. Len(f.new) = Cardinality(N)
  <2>1. f.new = [n \in 1 .. Cardinality(N) |-> OnDisk(m.mapInfo[Sorted(N)[n]])]
    BY <1>2, <1>3
  <2> QED BY <1>3, <2>1
<1> QED BY <1>2, <1>3, <1>4 DEF f, N, T, NewCount

(* Unserialize reads every tried entry back: none finds its bucket full.     *)
Before(f, n) == {k \in 1 .. n - 1 : TriedBucketOf[f.tried[k].svc] = TriedBucketOf[f.tried[n].svc]}
KeptOf(f) == {n \in DOMAIN f.tried : Cardinality(Before(f, n)) < TriedBucketSize}

(* The places of the kept ones in the file.                                  *)
LEMMA KeptIs ==
    ASSUME NEW m, NEW rb, Shape(m), InNew(m, -1, 0), InTried(m), Sized(m, rb)
    PROVE  KeptOf(Serialize(m)) = 1 .. Cardinality(TriedIds(m))
<1> DEFINE T == TriedIds(m)
           f == Serialize(m)
           c == Cardinality(T)
<1>1. /\ DOMAIN f.tried = 1 .. c
      /\ \A n \in 1 .. c : f.tried[n] = OnDisk(m.mapInfo[Sorted(T)[n]])
  BY SerializeIs
<1>2. IsFiniteSet(T) /\ T \subseteq Int /\ T \subseteq Ids(m)
  <2>1. T \in SUBSET Ids(m) /\ Ids(m) \subseteq Int
    BY DEF Shape, TriedIds
  <2> QED BY <2>1, Finite
<1> HIDE DEF f, T
<1>3. c \in Nat
  BY <1>2, FS_CardinalityType
<1>4. /\ \A q \in 1 .. c : Sorted(T)[q] \in T
      /\ \A q, p \in 1 .. c : Sorted(T)[q] = Sorted(T)[p] => q = p
  BY <1>2, SortedIs
<1> HIDE DEF c
<1>5. \A n \in 1 .. c : f.tried[n].svc = m.mapInfo[Sorted(T)[n]].svc /\ m.mapInfo[Sorted(T)[n]] \in InfoType
  <2>1. \A n \in 1 .. c : m.mapInfo[Sorted(T)[n]] \in InfoType
    BY <1>2, <1>4 DEF Shape
  <2> QED BY <1>1, <2>1, OnDiskIs
<1>6. ASSUME NEW n \in 1 .. c PROVE Cardinality(Before(f, n)) < TriedBucketSize
  <2> DEFINE X == Before(f, n) \cup {n}
             b == TriedBucketOf[m.mapInfo[Sorted(T)[n]].svc]
             h == [q \in X |-> Sorted(T)[q]]
  <2>1. \A q \in X : q \in 1 .. c /\ TriedBucketOf[m.mapInfo[Sorted(T)[q]].svc] = b
    <3>1. \A q \in 1 .. n - 1 : q \in 1 .. c
      BY <1>3
    <3> QED BY <1>5, <3>1 DEF Before
  <2>2. n \notin Before(f, n)
    BY <1>3 DEF Before
  <2>3. b \in TriedBuckets
    BY <1>5, AddrManAssumption DEF InfoType
  <2> HIDE DEF X, b
  <2>4. h \in [X -> TriedIds(m)] /\ \A q \in X : h[q] = Sorted(T)[q]
    BY <1>4, <2>1 DEF T
  <2> HIDE DEF h
  <2>5. \A q, p \in X : h[q] = h[p] => q = p
    BY <1>4, <2>1, <2>4
  <2>6. \A q \in X : TriedBucketOf[m.mapInfo[h[q]].svc] = b
    BY <2>1, <2>4
  <2>7. IsFiniteSet(X) /\ Cardinality(X) <= Len(m.vvTried[b])
    BY <2>3, <2>4, <2>5, <2>6, TriedCount
  <2>8. Len(m.vvTried[b]) <= TriedBucketSize /\ Len(m.vvTried[b]) \in Int
    BY <2>3 DEF Sized, Shape
  <2>9. IsFiniteSet(Before(f, n))
    BY <2>7, FS_Subset DEF X
  <2>10. Cardinality(X) = Cardinality(Before(f, n)) + 1 /\ Cardinality(Before(f, n)) \in Nat
    BY <2>2, <2>9, FS_AddElement, FS_CardinalityType DEF X
  <2> QED BY <2>7, <2>8, <2>10, AddrManAssumption
<1>7. KeptOf(f) = 1 .. c
  BY <1>1, <1>6 DEF KeptOf, c
<1> QED BY <1>7 DEF f, T, c

(* The tables that are read back, as Unserialize makes them.                 *)
EntryOf(f, id) == IF id < Len(f.new) THEN f.new[id + 1] ELSE f.tried[Sorted(KeptOf(f))[id - Len(f.new) + 1]]
AllOf(f) == 0 .. Len(f.new) + Len(Sorted(KeptOf(f))) - 1
NewOf(f, same) ==
    [b \in NewBuckets |->
       IF same
       THEN {id \in f.buckets[b] :
               Cardinality({c \in 0 .. b - 1 : id \in f.buckets[c]}) < NewBucketsPerAddress}
       ELSE {id \in 0 .. Len(f.new) - 1 : NewBucket(EntryOf(f, id)) = b}]

(* Field by field.                                                           *)
LEMMA UnserializeIs ==
    ASSUME NEW f, NEW same
    PROVE  LET r == Unserialize(f, same)
               n == Len(f.new)
               k == Len(Sorted(KeptOf(f)))
           IN  /\ Object(r)
               /\ r.mapInfo = [id \in AllOf(f) |->
                    ReadBack(EntryOf(f, id), Cardinality({b \in NewBuckets : id \in NewOf(f, same)[b]}), id >= n, id + 1)]
               /\ r.mapAddr = [a \in {Net[EntryOf(f, id).svc] : id \in AllOf(f)} |->
                    CHOOSE id \in AllOf(f) : Net[EntryOf(f, id).svc] = a]
               /\ r.vRandom = [q \in 1 .. n + k |-> q - 1]
               /\ r.nIdCount = n + k /\ r.nTried = k /\ r.nNew = n
               /\ r.vvTried = [b \in TriedBuckets |->
                    Sorted({id \in AllOf(f) : id >= n /\ TriedBucketOf[EntryOf(f, id).svc] = b})]
               /\ r.vvNew = NewOf(f, same)
<1>1. Object(Unserialize(f, same))
  BY DEF Unserialize, Object, Field
<1> QED BY <1>1, Zenon DEF Unserialize, NewOf, AllOf, EntryOf, KeptOf, Before, ReadBack

(* The entries that are read back are those of the tables.                   *)
LEMMA EntriesAre ==
    ASSUME NEW m, NEW rb, Shape(m), InNew(m, -1, 0), InTried(m), Sized(m, rb)
    PROVE  LET f == Serialize(m)
           IN  /\ Len(f.new) = NewCount(m) /\ Len(Sorted(KeptOf(f))) = Cardinality(TriedIds(m)) /\ AllOf(f) = All(m)
               /\ \A id \in All(m) : /\ EntryOf(f, id) = OnDisk(m.mapInfo[Old(m, id)])
                                     /\ EntryOf(f, id) \in DiskType
                                     /\ EntryOf(f, id).svc = m.mapInfo[Old(m, id)].svc
                                     /\ EntryOf(f, id).source = m.mapInfo[Old(m, id)].source
                                     /\ EntryOf(f, id).nLastSuccess = m.mapInfo[Old(m, id)].nLastSuccess
<1> DEFINE f == Serialize(m)
           n == NewCount(m)
           c == Cardinality(TriedIds(m))
<1>1. /\ Len(f.new) = n
      /\ \A q \in 1 .. n : f.new[q] = OnDisk(m.mapInfo[Sorted(NewIds(m))[q]])
      /\ \A q \in 1 .. c : f.tried[q] = OnDisk(m.mapInfo[Sorted(TriedIds(m))[q]])
  BY SerializeIs
<1>2. KeptOf(f) = 1 .. c
  BY KeptIs
<1>3. n \in Nat /\ Count(m) = n + c /\ \A id \in All(m) : Old(m, id) \in Ids(m)
  BY OldIs DEF Count, NewCount
<1>4. c \in Nat
  BY Finite DEF TriedIds
<1> HIDE DEF f, n, c
<1>5. Len(Sorted(KeptOf(f))) = c /\ \A q \in 1 .. c : Sorted(KeptOf(f))[q] = q
  BY <1>2, <1>4, SortedInterval
<1>6. AllOf(f) = All(m) /\ All(m) = 0 .. n + c - 1
  BY <1>1, <1>3, <1>5 DEF AllOf, All
<1>7. ASSUME NEW id \in All(m) PROVE EntryOf(f, id) = OnDisk(m.mapInfo[Old(m, id)])
  <2>1. CASE id < n
    <3>1. id + 1 \in 1 .. n
      BY <1>3, <1>6, <2>1
    <3>2. EntryOf(f, id) = f.new[id + 1] /\ Old(m, id) = Sorted(NewIds(m))[id + 1]
      BY <1>1, <2>1 DEF EntryOf, Old, n
    <3> QED BY <1>1, <3>1, <3>2
  <2>2. CASE ~(id < n)
    <3> DEFINE q == id - n + 1
    <3>1. q \in 1 .. c
      BY <1>3, <1>4, <1>6, <2>2
    <3>2. EntryOf(f, id) = f.tried[Sorted(KeptOf(f))[q]] /\ Old(m, id) = Sorted(TriedIds(m))[q]
      BY <1>1, <2>2 DEF EntryOf, Old, n
    <3> HIDE DEF q
    <3> QED BY <1>1, <1>5, <3>1, <3>2
  <2> QED BY <2>1, <2>2
<1>8. ASSUME NEW id \in All(m)
      PROVE  /\ EntryOf(f, id) \in DiskType
             /\ EntryOf(f, id).svc = m.mapInfo[Old(m, id)].svc
             /\ EntryOf(f, id).source = m.mapInfo[Old(m, id)].source
             /\ EntryOf(f, id).nLastSuccess = m.mapInfo[Old(m, id)].nLastSuccess
  <2>1. m.mapInfo[Old(m, id)] \in InfoType
    BY <1>3 DEF Shape
  <2> QED BY <1>7, <2>1, OnDiskIs
<1> QED BY <1>1, <1>5, <1>6, <1>7, <1>8 DEF f, n, c

(* The new buckets that are read back: those of the file, or the one that    *)
(* each entry's source gives it.                                             *)
NewPlaces(m, same, b) ==
    {id \in 0 .. NewCount(m) - 1 : IF same THEN Old(m, id) \in m.vvNew[b] ELSE NewBucket(m.mapInfo[Old(m, id)]) = b}

(* No place is lost for want of room in an entry's count.                    *)
LEMMA BucketsAre ==
    ASSUME NEW m, NEW rb, Shape(m), InNew(m, -1, 0), InTried(m), Sized(m, rb), NEW same \in BOOLEAN
    PROVE  \A b \in NewBuckets : NewOf(Serialize(m), same)[b] = NewPlaces(m, same, b)
<1> DEFINE f == Serialize(m)
           N == NewIds(m)
           n == NewCount(m)
<1> SUFFICES ASSUME NEW b \in NewBuckets PROVE NewOf(f, same)[b] = NewPlaces(m, same, b)
  OBVIOUS
<1>1. /\ n \in Nat /\ Count(m) \in Nat /\ n <= Count(m) /\ All(m) = 0 .. Count(m) - 1
      /\ \A id \in All(m) : Old(m, id) \in Ids(m) /\ (id < n => Old(m, id) \in N /\ Rank(N, Old(m, id)) = id)
      /\ \A j \in N : Rank(N, j) \in All(m) /\ Rank(N, j) < n /\ Old(m, Rank(N, j)) = j
  BY OldIs DEF All
<1>2. \A id \in 0 .. n - 1 : id \in All(m) /\ id < n
  BY <1>1
<1>3. \A c \in NewBuckets : f.buckets[c] = {Rank(N, j) : j \in m.vvNew[c]}
  BY SerializeIs
<1>4. Len(f.new) = n /\ \A id \in All(m) : /\ EntryOf(f, id).svc = m.mapInfo[Old(m, id)].svc
                                           /\ EntryOf(f, id).source = m.mapInfo[Old(m, id)].source
  BY EntriesAre
<1>5. \A c \in NewBuckets : m.vvNew[c] \subseteq N
  <2>1. \A c \in NewBuckets : m.vvNew[c] \subseteq Ids(m)
    BY DEF Shape
  <2>2. \A c \in NewBuckets : \A j \in m.vvNew[c] : ~m.mapInfo[j].fInTried
    BY <2>1 DEF InTried
  <2>3. N = Fresh(m)
    BY NewAreFresh
  <2> QED BY <2>1, <2>2, <2>3 DEF Fresh
<1> HIDE DEF f, N, n
<1>6. ASSUME NEW c \in NewBuckets, NEW id PROVE id \in f.buckets[c] <=> id \in 0 .. n - 1 /\ Old(m, id) \in m.vvNew[c]
  <2>1. ASSUME id \in f.buckets[c] PROVE id \in 0 .. n - 1 /\ Old(m, id) \in m.vvNew[c]
    <3>1. PICK j \in m.vvNew[c] : id = Rank(N, j)
      BY <1>3, <2>1
    <3>2. id \in All(m) /\ id < n /\ Old(m, id) = j
      BY <1>1, <1>5, <3>1
    <3>3. id \in 0 .. n - 1
      BY <1>1, <3>2
    <3> QED BY <3>1, <3>2, <3>3
  <2>2. ASSUME id \in 0 .. n - 1, Old(m, id) \in m.vvNew[c] PROVE id \in f.buckets[c]
    <3>1. Rank(N, Old(m, id)) = id
      BY <1>1, <1>2, <2>2
    <3> QED BY <1>3, <2>2, <3>1
  <2> QED BY <2>1, <2>2
<1>7. CASE same
  <2> DEFINE Low(id) == {c \in 0 .. b - 1 : id \in f.buckets[c]}
  <2>1. NewOf(f, same)[b] = {id \in f.buckets[b] : Cardinality(Low(id)) < NewBucketsPerAddress}
    BY <1>7 DEF NewOf
  <2>2. ASSUME NEW id \in f.buckets[b] PROVE Cardinality(Low(id)) < NewBucketsPerAddress
    <3> DEFINE j == Old(m, id)
    <3>1. id \in 0 .. n - 1 /\ j \in m.vvNew[b]
      BY <1>6
    <3>2. j \in Ids(m) /\ j \in N
      BY <1>1, <1>2, <3>1
    <3>3. Low(id) \cup {b} \in SUBSET NewIn(m, j) /\ b \notin Low(id)
      <4>1. \A c \in 0 .. b - 1 : c \in NewBuckets /\ c # b
        BY AddrManAssumption DEF NewBuckets
      <4>2. \A c \in Low(id) : c \in NewBuckets /\ c # b /\ j \in m.vvNew[c]
        BY <1>6, <4>1
      <4> HIDE DEF Low, j
      <4> QED BY <3>1, <4>2 DEF NewIn
    <3> HIDE DEF Low, j
    <3>4. IsFiniteSet(NewIn(m, j)) /\ Cardinality(NewIn(m, j)) \in Nat
      BY Finite DEF NewIn
    <3>5. Cardinality(NewIn(m, j)) <= NewBucketsPerAddress
      <4>1. ~m.mapInfo[j].fInTried /\ m.mapInfo[j] \in InfoType /\ j # -1
        BY <3>2, NewAreFresh DEF Fresh, N, Shape
      <4>2. m.mapInfo[j].nRefCount = Cardinality(NewIn(m, j)) + 0
        BY <3>2, <4>1 DEF InNew
      <4>3. m.mapInfo[j].nRefCount \in 0 .. NewBucketsPerAddress
        BY <4>1 DEF InfoType
      <4> QED BY <3>4, <4>2, <4>3, AddrManAssumption
    <3>6. IsFiniteSet(Low(id)) /\ Cardinality(Low(id) \cup {b}) <= Cardinality(NewIn(m, j))
      <4>1. Low(id) \in SUBSET NewIn(m, j)
        BY <3>3
      <4> QED BY <3>3, <3>4, <4>1, FS_Subset
    <3>7. Cardinality(Low(id) \cup {b}) = Cardinality(Low(id)) + 1 /\ Cardinality(Low(id)) \in Nat
      BY <3>3, <3>6, FS_AddElement, FS_CardinalityType
    <3> QED BY <3>4, <3>5, <3>6, <3>7, AddrManAssumption
  <2>3. NewOf(f, same)[b] = f.buckets[b]
    BY <2>1, <2>2
  <2>4. NewPlaces(m, same, b) = {id \in 0 .. n - 1 : Old(m, id) \in m.vvNew[b]}
    BY <1>7 DEF NewPlaces, n
  <2> QED BY <1>6, <2>3, <2>4
<1>8. CASE ~same
  <2>1. NewOf(f, same)[b] = {id \in 0 .. n - 1 : NewBucket(EntryOf(f, id)) = b}
    BY <1>4, <1>8 DEF NewOf
  <2>2. NewPlaces(m, same, b) = {id \in 0 .. n - 1 : NewBucket(m.mapInfo[Old(m, id)]) = b}
    BY <1>8 DEF NewPlaces, n
  <2>3. \A id \in 0 .. n - 1 : NewBucket(EntryOf(f, id)) = NewBucket(m.mapInfo[Old(m, id)])
    BY <1>2, <1>4 DEF NewBucket
  <2> QED BY <2>1, <2>2, <2>3
<1> QED BY <1>7, <1>8

(* The tables that are read back, in terms of those that were written.       *)
TriedPlaces(m, b) == {id \in All(m) : id >= NewCount(m) /\ TriedBucketOf[m.mapInfo[Old(m, id)].svc] = b}
Reloaded(m, r, same) ==
    /\ Object(r) /\ r.mapInfo = [id \in All(m) |-> r.mapInfo[id]]
    /\ \A id \in All(m) :
         r.mapInfo[id] = ReadBack(OnDisk(m.mapInfo[Old(m, id)]), Cardinality(NewIn(r, id)), id >= NewCount(m), id + 1)
    /\ r.mapAddr = [a \in DOMAIN r.mapAddr |-> r.mapAddr[a]]
    /\ \A id \in All(m) : Net[m.mapInfo[Old(m, id)].svc] \in DOMAIN r.mapAddr
    /\ \A a \in DOMAIN r.mapAddr : r.mapAddr[a] \in All(m) /\ Net[m.mapInfo[Old(m, r.mapAddr[a])].svc] = a
    /\ r.vRandom = [q \in 1 .. Count(m) |-> q - 1]
    /\ r.nIdCount = Count(m) /\ r.nTried = Cardinality(TriedIds(m)) /\ r.nNew = NewCount(m)
    /\ r.vvTried = [b \in TriedBuckets |-> r.vvTried[b]]
    /\ \A b \in TriedBuckets : r.vvTried[b] = Sorted(TriedPlaces(m, b))
    /\ r.vvNew = [b \in NewBuckets |-> r.vvNew[b]]
    /\ \A b \in NewBuckets : r.vvNew[b] = NewPlaces(m, same, b)

(* Writing the file and reading it.                                          *)
LEMMA ReloadedIs ==
    ASSUME NEW m, NEW rb, Shape(m), InNew(m, -1, 0), InTried(m), Sized(m, rb), NEW same \in BOOLEAN
    PROVE  Reloaded(m, Unserialize(Serialize(m), same), same)
<1> DEFINE f == Serialize(m)
           r == Unserialize(f, same)
           n == NewCount(m)
           k == Cardinality(TriedIds(m))
           E(id) == EntryOf(f, id)
<1>1. /\ Len(f.new) = n /\ Len(Sorted(KeptOf(f))) = k /\ AllOf(f) = All(m)
      /\ \A id \in All(m) : E(id) = OnDisk(m.mapInfo[Old(m, id)]) /\ E(id).svc = m.mapInfo[Old(m, id)].svc
  BY EntriesAre
<1>2. \A b \in NewBuckets : NewOf(f, same)[b] = NewPlaces(m, same, b)
  BY BucketsAre
<1>3. Count(m) = n + k
  BY DEF Count, NewCount
<1> HIDE DEF f, n, k
<1> HIDE DEF E
<1>4. /\ Object(r)
      /\ r.mapInfo = [id \in AllOf(f) |->
           ReadBack(EntryOf(f, id), Cardinality({b \in NewBuckets : id \in NewOf(f, same)[b]}), id >= Len(f.new), id + 1)]
      /\ r.mapAddr = [a \in {Net[EntryOf(f, id).svc] : id \in AllOf(f)} |->
           CHOOSE id \in AllOf(f) : Net[EntryOf(f, id).svc] = a]
      /\ r.vRandom = [q \in 1 .. Len(f.new) + Len(Sorted(KeptOf(f))) |-> q - 1]
      /\ r.nIdCount = Len(f.new) + Len(Sorted(KeptOf(f))) /\ r.nTried = Len(Sorted(KeptOf(f))) /\ r.nNew = Len(f.new)
      /\ r.vvTried = [b \in TriedBuckets |->
           Sorted({id \in AllOf(f) : id >= Len(f.new) /\ TriedBucketOf[EntryOf(f, id).svc] = b})]
      /\ r.vvNew = NewOf(f, same)
  BY UnserializeIs
<1> HIDE DEF r
<1>5. /\ DOMAIN r.mapInfo = All(m) /\ r.mapInfo = [id \in All(m) |-> r.mapInfo[id]]
      /\ \A id \in All(m) : r.mapInfo[id] =
           ReadBack(E(id), Cardinality({b \in NewBuckets : id \in NewOf(f, same)[b]}), id >= n, id + 1)
      /\ DOMAIN r.mapAddr = {Net[E(id).svc] : id \in All(m)}
      /\ r.mapAddr = [a \in DOMAIN r.mapAddr |-> r.mapAddr[a]]
      /\ \A a \in DOMAIN r.mapAddr : (\E id \in All(m) : Net[E(id).svc] = a) =>
           r.mapAddr[a] \in All(m) /\ Net[E(r.mapAddr[a]).svc] = a
      /\ r.vRandom = [q \in 1 .. n + k |-> q - 1]
      /\ r.nIdCount = n + k /\ r.nTried = k /\ r.nNew = n
      /\ r.vvTried = [b \in TriedBuckets |-> r.vvTried[b]]
      /\ \A b \in TriedBuckets : r.vvTried[b] = Sorted({id \in All(m) : id >= n /\ TriedBucketOf[E(id).svc] = b})
  <2> DEFINE A == AllOf(f)
             l == Len(f.new)
             u == Len(Sorted(KeptOf(f)))
  <2>1. /\ DOMAIN r.mapInfo = A /\ r.mapInfo = [id \in A |-> r.mapInfo[id]]
        /\ \A id \in A : r.mapInfo[id] =
             ReadBack(E(id), Cardinality({b \in NewBuckets : id \in NewOf(f, same)[b]}), id >= l, id + 1)
    BY <1>4, Zenon DEF E
  <2>2. /\ DOMAIN r.mapAddr = {Net[E(id).svc] : id \in A}
        /\ r.mapAddr = [a \in DOMAIN r.mapAddr |-> r.mapAddr[a]]
        /\ \A a \in DOMAIN r.mapAddr : r.mapAddr[a] = CHOOSE id \in A : Net[E(id).svc] = a
    BY <1>4, Zenon DEF E
  <2>3. \A a \in DOMAIN r.mapAddr : (\E id \in A : Net[E(id).svc] = a) =>
             r.mapAddr[a] \in A /\ Net[E(r.mapAddr[a]).svc] = a
    BY <2>2, Zenon
  <2>4. /\ r.vRandom = [q \in 1 .. l + u |-> q - 1]
        /\ r.nIdCount = l + u /\ r.nTried = u /\ r.nNew = l
    BY <1>4, Zenon
  <2>5. /\ r.vvTried = [b \in TriedBuckets |-> r.vvTried[b]]
        /\ \A b \in TriedBuckets : r.vvTried[b] = Sorted({id \in A : id >= l /\ TriedBucketOf[E(id).svc] = b})
    BY <1>4, Zenon DEF E
  <2>6. A = All(m) /\ l = n /\ u = k
    BY <1>1
  <2> HIDE DEF A, l, u
  <2>7. /\ DOMAIN r.mapInfo = All(m) /\ r.mapInfo = [id \in All(m) |-> r.mapInfo[id]]
        /\ \A id \in All(m) : r.mapInfo[id] =
             ReadBack(E(id), Cardinality({b \in NewBuckets : id \in NewOf(f, same)[b]}), id >= n, id + 1)
    BY <2>1, <2>6
  <2>8. /\ DOMAIN r.mapAddr = {Net[E(id).svc] : id \in All(m)}
        /\ \A a \in DOMAIN r.mapAddr : (\E id \in All(m) : Net[E(id).svc] = a) =>
             r.mapAddr[a] \in All(m) /\ Net[E(r.mapAddr[a]).svc] = a
    BY <2>2, <2>3, <2>6
  <2>9. /\ r.vRandom = [q \in 1 .. n + k |-> q - 1]
        /\ r.nIdCount = n + k /\ r.nTried = k /\ r.nNew = n
    BY <2>4, <2>6
  <2>10. \A b \in TriedBuckets : r.vvTried[b] = Sorted({id \in All(m) : id >= n /\ TriedBucketOf[E(id).svc] = b})
    BY <2>5, <2>6
  <2> QED BY <2>2, <2>5, <2>7, <2>8, <2>9, <2>10
<1>6. r.vvNew = [b \in NewBuckets |-> r.vvNew[b]] /\ \A b \in NewBuckets : r.vvNew[b] = NewPlaces(m, same, b)
  <2>1. NewOf(f, same) = [b \in NewBuckets |-> NewOf(f, same)[b]]
    BY DEF NewOf
  <2> QED BY <1>2, <1>4, <2>1
<1>7. ASSUME NEW id \in All(m)
      PROVE  r.mapInfo[id] = ReadBack(OnDisk(m.mapInfo[Old(m, id)]), Cardinality(NewIn(r, id)), id >= n, id + 1)
  <2>1. NewIn(r, id) = {b \in NewBuckets : id \in NewOf(f, same)[b]}
    BY <1>4 DEF NewIn
  <2>2. r.mapInfo[id] = ReadBack(E(id), Cardinality({b \in NewBuckets : id \in NewOf(f, same)[b]}), id >= n, id + 1)
    BY <1>5
  <2> QED BY <1>1, <2>1, <2>2
<1>8. r.mapInfo = [id \in All(m) |-> r.mapInfo[id]]
  BY <1>5
<1>9. \A a \in DOMAIN r.mapAddr : r.mapAddr[a] \in All(m) /\ Net[m.mapInfo[Old(m, r.mapAddr[a])].svc] = a
  <2> SUFFICES ASSUME NEW a \in DOMAIN r.mapAddr
               PROVE  r.mapAddr[a] \in All(m) /\ Net[m.mapInfo[Old(m, r.mapAddr[a])].svc] = a
    OBVIOUS
  <2>1. \E id \in All(m) : Net[E(id).svc] = a
    BY <1>5
  <2>2. r.mapAddr[a] \in All(m) /\ Net[E(r.mapAddr[a]).svc] = a
    BY <1>5, <2>1
  <2> QED BY <1>1, <2>2
<1>10. \A id \in All(m) : Net[m.mapInfo[Old(m, id)].svc] \in DOMAIN r.mapAddr
  BY <1>1, <1>5
<1>11. r.mapAddr = [a \in DOMAIN r.mapAddr |-> r.mapAddr[a]]
  BY <1>5
<1>12. ASSUME NEW b \in TriedBuckets PROVE r.vvTried[b] = Sorted(TriedPlaces(m, b))
  <2>1. r.vvTried[b] = Sorted({id \in All(m) : id >= n /\ TriedBucketOf[E(id).svc] = b})
    BY <1>5
  <2>2. {id \in All(m) : id >= n /\ TriedBucketOf[E(id).svc] = b} = TriedPlaces(m, b)
    BY <1>1 DEF TriedPlaces, n
  <2> QED BY <2>1, <2>2
<1>13. r.vvTried = [b \in TriedBuckets |-> r.vvTried[b]]
  BY <1>5
<1>14. Reloaded(m, r, same)
  BY <1>3, <1>4, <1>5, <1>6, <1>7, <1>8, <1>9, <1>10, <1>11, <1>12, <1>13 DEF Reloaded, n, k
<1> QED BY <1>14 DEF r, f

(* A tried bucket that was read back.                                        *)
LEMMA TriedPlacesAre ==
    ASSUME NEW m, NEW rb, Shape(m), InNew(m, -1, 0), InTried(m), Sized(m, rb), NEW b \in TriedBuckets
    PROVE  /\ TriedPlaces(m, b) \subseteq Int /\ IsFiniteSet(TriedPlaces(m, b))
           /\ Cardinality(TriedPlaces(m, b)) <= TriedBucketSize
<1> DEFINE X == TriedPlaces(m, b)
           h == [id \in X |-> Old(m, id)]
<1>1. /\ Count(m) \in Nat /\ NewCount(m) \in Nat /\ All(m) = 0 .. Count(m) - 1
      /\ \A id \in All(m) : ~(id < NewCount(m)) => Old(m, id) \in TriedIds(m)
      /\ \A id, k \in All(m) : Old(m, id) = Old(m, k) => id = k
  BY OldIs DEF All
<1>2. \A id \in X : /\ id \in All(m) /\ ~(id < NewCount(m)) /\ id \in Int
                    /\ TriedBucketOf[m.mapInfo[Old(m, id)].svc] = b
  BY <1>1 DEF TriedPlaces
<1> HIDE DEF X
<1>3. h \in [X -> TriedIds(m)] /\ \A id \in X : h[id] = Old(m, id)
  BY <1>1, <1>2
<1> HIDE DEF h
<1>4. \A x, y \in X : h[x] = h[y] => x = y
  BY <1>1, <1>2, <1>3
<1>5. \A x \in X : TriedBucketOf[m.mapInfo[h[x]].svc] = b
  BY <1>2, <1>3
<1>6. IsFiniteSet(X) /\ Cardinality(X) <= Len(m.vvTried[b])
  BY <1>3, <1>4, <1>5, TriedCount
<1>7. Len(m.vvTried[b]) <= TriedBucketSize /\ Len(m.vvTried[b]) \in Int /\ Cardinality(X) \in Nat
  BY <1>6, FS_CardinalityType DEF Sized, Shape
<1>8. Cardinality(X) <= TriedBucketSize
  BY <1>6, <1>7, AddrManAssumption
<1> QED BY <1>2, <1>6, <1>8 DEF X

(* The counts of the entries that were read back.                            *)
LEMMA ReloadCounts ==
    ASSUME NEW m, NEW r, NEW same \in BOOLEAN, Shape(m), InNew(m, -1, 0), InTried(m), Reloaded(m, r, same),
           NEW id \in All(m)
    PROVE  /\ Cardinality(NewIn(r, id)) \in 0 .. NewBucketsPerAddress
           /\ id < NewCount(m) => Cardinality(NewIn(r, id)) > 0
           /\ ~(id < NewCount(m)) => NewIn(r, id) = {} /\ Cardinality(NewIn(r, id)) = 0
           /\ same => NewIn(r, id) = NewIn(m, Old(m, id))
<1> DEFINE j == Old(m, id)
           n == NewCount(m)
<1>1. /\ n \in Nat /\ Count(m) \in Nat /\ All(m) = 0 .. Count(m) - 1 /\ j \in Ids(m)
      /\ id < n => j \in NewIds(m)
      /\ ~(id < n) => j \in TriedIds(m)
  BY OldIs DEF All
<1>2. \A b \in NewBuckets : id \in r.vvNew[b] <=>
        /\ id \in 0 .. n - 1
        /\ IF same THEN j \in m.vvNew[b] ELSE NewBucket(m.mapInfo[j]) = b
  BY DEF Reloaded, NewPlaces
<1>3. id \in 0 .. n - 1 <=> id < n
  BY <1>1
<1> HIDE DEF j, n
<1>4. CASE ~(id < n)
  <2>1. NewIn(r, id) = {}
    BY <1>2, <1>3, <1>4 DEF NewIn
  <2>2. Cardinality(NewIn(r, id)) = 0
    BY <2>1, FS_EmptySet
  <2>3. NewIn(m, j) = {}
    BY <1>1, <1>4 DEF NewIn, InTried, TriedIds
  <2>4. 0 \in 0 .. NewBucketsPerAddress
    BY AddrManAssumption
  <2> QED BY <1>4, <2>1, <2>2, <2>3, <2>4 DEF j, n
<1>5. CASE id < n /\ same
  <2>1. NewIn(r, id) = NewIn(m, j)
    BY <1>2, <1>3, <1>5 DEF NewIn
  <2>2. j \in Ids(m) /\ ~m.mapInfo[j].fInTried /\ m.mapInfo[j] \in InfoType /\ j # -1
    BY <1>1, <1>5, NewAreFresh DEF Fresh, Shape
  <2>3. m.mapInfo[j].nRefCount = Cardinality(NewIn(m, j)) + 0 /\ m.mapInfo[j].nRefCount > 0
    BY <2>2 DEF InNew
  <2>4. m.mapInfo[j].nRefCount \in 0 .. NewBucketsPerAddress
    BY <2>2 DEF InfoType
  <2>5. Cardinality(NewIn(m, j)) \in Nat
    BY Finite DEF NewIn
  <2>6. Cardinality(NewIn(m, j)) = m.mapInfo[j].nRefCount
    BY <2>3, <2>5
  <2> QED BY <1>5, <2>1, <2>3, <2>4, <2>6 DEF j, n
<1>6. CASE id < n /\ ~same
  <2>1. m.mapInfo[j].svc \in Service /\ m.mapInfo[j].source \in Source
    BY <1>1 DEF Shape, InfoType
  <2>2. NewBucket(m.mapInfo[j]) \in NewBuckets
    BY <2>1, AddrManAssumption DEF NewBucket
  <2>3. NewIn(r, id) = {NewBucket(m.mapInfo[j])}
    BY <1>2, <1>3, <1>6, <2>2 DEF NewIn
  <2>4. Cardinality(NewIn(r, id)) = 1
    BY <2>3, FS_Singleton
  <2>5. 1 \in 0 .. NewBucketsPerAddress
    BY AddrManAssumption
  <2> QED BY <1>6, <2>4, <2>5 DEF n
<1> QED BY <1>4, <1>5, <1>6

(* Entry by entry: what was read back is what was written, with the places   *)
(* it has now.                                                               *)
Renumbered(m, r) ==
    \A id \in All(m) :
      LET i == r.mapInfo[id]
          o == m.mapInfo[Old(m, id)]
      IN  /\ i \in InfoType /\ i.svc = o.svc /\ i.nLastSuccess = o.nLastSuccess
          /\ i.nRefCount = Cardinality(NewIn(r, id)) /\ i.fInTried = (id >= NewCount(m))
          /\ i.nRandomPos = id + 1 /\ OnDisk(i) = OnDisk(o)

(* That is so.                                                               *)
LEMMA ReloadEntries ==
    ASSUME NEW m, NEW r, NEW same \in BOOLEAN, Shape(m), InNew(m, -1, 0), InTried(m), Reloaded(m, r, same)
    PROVE  Ids(r) = All(m) /\ Renumbered(m, r)
<1>1. Ids(r) = All(m)
  BY DEF Reloaded, Ids
<1>2. ASSUME NEW id \in All(m)
      PROVE  LET i == r.mapInfo[id]
                 o == m.mapInfo[Old(m, id)]
             IN  /\ i \in InfoType /\ i.svc = o.svc /\ i.nLastSuccess = o.nLastSuccess
                 /\ i.nRefCount = Cardinality(NewIn(r, id)) /\ i.fInTried = (id >= NewCount(m))
                 /\ i.nRandomPos = id + 1 /\ OnDisk(i) = OnDisk(o)
  <2> DEFINE i == r.mapInfo[id]
             o == m.mapInfo[Old(m, id)]
             c == Cardinality(NewIn(r, id))
             x == id >= NewCount(m)
             p == id + 1
             e == OnDisk(o)
  <2>1. i = ReadBack(e, c, x, p)
    BY DEF Reloaded
  <2>2. Old(m, id) \in Ids(m) /\ Count(m) \in Nat /\ Count(m) <= MaxId /\ All(m) = 0 .. Count(m) - 1
    BY OldIs DEF All
  <2>3. o \in InfoType
    BY <2>2 DEF Shape
  <2>4. p \in 1 .. MaxId
    BY <2>2, AddrManAssumption
  <2>5. c \in 0 .. NewBucketsPerAddress
    BY ReloadCounts
  <2>6. x \in BOOLEAN
    OBVIOUS
  <2> HIDE DEF i, o, c, x, p
  <2>7. e \in DiskType /\ e.svc = o.svc /\ e.nLastSuccess = o.nLastSuccess
    BY <2>3, OnDiskIs
  <2>8. OnDisk(ReadBack(OnDisk(o), c, x, p)) = OnDisk(o)
    BY <2>3, <2>4, <2>5, <2>6, WrittenAgain
  <2>9. OnDisk(i) = OnDisk(o)
    BY <2>1, <2>8
  <2> HIDE DEF e
  <2>10. /\ i \in InfoType /\ i.svc = e.svc /\ i.nLastSuccess = e.nLastSuccess
         /\ i.nRefCount = c /\ i.fInTried = x /\ i.nRandomPos = p
    BY <2>1, <2>4, <2>5, <2>6, <2>7, ReadBackIs
  <2> QED BY <2>7, <2>9, <2>10 DEF i, o, c, x, p
<1> QED BY <1>1, <1>2 DEF Renumbered

(* The tables that were read back are in order.                              *)
LEMMA ReloadTables ==
    ASSUME NEW m, NEW r, NEW rb, NEW rb2, NEW t, NEW same \in BOOLEAN, Tables(m, -1, 0, rb, t), Reloaded(m, r, same),
           ~rb2 => same /\ ~rb
    PROVE  Tables(r, -1, 0, rb2, t)
<1> DEFINE n == NewCount(m)
           c == Count(m)
           k == Cardinality(TriedIds(m))
<1>1. Shape(m) /\ Indexed(m) /\ InNew(m, -1, 0) /\ InTried(m) /\ Sized(m, rb) /\ Past(m, t)
  BY DEF Tables
<1>2. /\ n \in Nat /\ c \in Nat /\ n <= c /\ c <= MaxId /\ All(m) = 0 .. c - 1
      /\ \A id \in All(m) : Old(m, id) \in Ids(m) /\ (~(id < n) => Old(m, id) \in TriedIds(m))
      /\ \A id, q \in All(m) : Old(m, id) = Old(m, q) => id = q
  BY <1>1, OldIs DEF All
<1>3. Ids(r) = All(m) /\ Renumbered(m, r)
  BY <1>1, ReloadEntries
<1>4. \A id \in All(m) : /\ r.mapInfo[id] \in InfoType /\ r.mapInfo[id].svc = m.mapInfo[Old(m, id)].svc
                         /\ r.mapInfo[id].nLastSuccess = m.mapInfo[Old(m, id)].nLastSuccess
                         /\ r.mapInfo[id].nRefCount = Cardinality(NewIn(r, id))
                         /\ r.mapInfo[id].fInTried <=> id >= n
                         /\ r.mapInfo[id].nRandomPos = id + 1
  BY <1>3 DEF Renumbered
<1>5. \A id \in All(m) : /\ id < n => Cardinality(NewIn(r, id)) > 0
                         /\ ~(id < n) => NewIn(r, id) = {} /\ Cardinality(NewIn(r, id)) = 0
  BY <1>1, ReloadCounts
<1>6. c = n + k /\ k \in Nat
  BY <1>1, Finite DEF Count, NewCount, TriedIds
<1>7. /\ Object(r) /\ r.mapInfo = [id \in All(m) |-> r.mapInfo[id]]
      /\ r.mapAddr = [a \in DOMAIN r.mapAddr |-> r.mapAddr[a]]
      /\ \A id \in All(m) : Net[m.mapInfo[Old(m, id)].svc] \in DOMAIN r.mapAddr
      /\ \A a \in DOMAIN r.mapAddr : r.mapAddr[a] \in All(m) /\ Net[m.mapInfo[Old(m, r.mapAddr[a])].svc] = a
      /\ r.vRandom = [q \in 1 .. c |-> q - 1]
      /\ r.nIdCount = c /\ r.nTried = k /\ r.nNew = n
      /\ r.vvTried = [b \in TriedBuckets |-> r.vvTried[b]]
      /\ \A b \in TriedBuckets : r.vvTried[b] = Sorted(TriedPlaces(m, b))
      /\ r.vvNew = [b \in NewBuckets |-> r.vvNew[b]]
      /\ \A b \in NewBuckets : r.vvNew[b] = NewPlaces(m, same, b)
  BY DEF Reloaded
<1>8. \A id \in All(m) : id \in Int /\ (id < n <=> ~(id >= n)) /\ id < c /\ id + 1 \in 1 .. c
  BY <1>2
<1> HIDE DEF n, c, k
<1>9. /\ r.vRandom \in Seq(All(m)) /\ Len(r.vRandom) = c /\ \A q \in 1 .. c : r.vRandom[q] = q - 1 /\ q - 1 \in All(m)
  BY <1>2, <1>7
<1>10. \A b \in TriedBuckets :
         /\ r.vvTried[b] \in Seq(TriedPlaces(m, b)) /\ Len(r.vvTried[b]) <= TriedBucketSize
         /\ \A q \in 1 .. Len(r.vvTried[b]) : r.vvTried[b][q] \in TriedPlaces(m, b)
         /\ \A id \in TriedPlaces(m, b) : \E q \in 1 .. Len(r.vvTried[b]) : r.vvTried[b][q] = id
         /\ \A q, p \in 1 .. Len(r.vvTried[b]) : r.vvTried[b][q] = r.vvTried[b][p] => q = p
  <2> SUFFICES ASSUME NEW b \in TriedBuckets
               PROVE  LET v == r.vvTried[b]
                          S == TriedPlaces(m, b)
                      IN  /\ v \in Seq(S) /\ Len(v) <= TriedBucketSize
                          /\ \A q \in 1 .. Len(v) : v[q] \in S
                          /\ \A id \in S : \E q \in 1 .. Len(v) : v[q] = id
                          /\ \A q, p \in 1 .. Len(v) : v[q] = v[p] => q = p
    OBVIOUS
  <2> DEFINE v == r.vvTried[b]
             S == TriedPlaces(m, b)
  <2>1. S \subseteq Int /\ IsFiniteSet(S) /\ Cardinality(S) <= TriedBucketSize
    BY <1>1, TriedPlacesAre
  <2>2. v = Sorted(S)
    BY <1>7
  <2> HIDE DEF S, v
  <2>3. /\ v \in Seq(S) /\ Len(v) = Cardinality(S)
        /\ \A q \in 1 .. Cardinality(S) : v[q] \in S
        /\ \A x \in S : Rank(S, x) + 1 \in 1 .. Cardinality(S) /\ v[Rank(S, x) + 1] = x
        /\ \A q, p \in 1 .. Cardinality(S) : v[q] = v[p] => q = p
    BY <2>1, <2>2, SortedIs
  <2>4. \A id \in S : \E q \in 1 .. Len(v) : v[q] = id
    BY <2>3
  <2> QED BY <2>1, <2>3, <2>4 DEF S, v
<1>11. \A b \in TriedBuckets : \A id \in TriedPlaces(m, b) :
         id \in All(m) /\ id >= n /\ TriedBucketOf[m.mapInfo[Old(m, id)].svc] = b
  BY DEF TriedPlaces, n
<1>12. \A b \in NewBuckets : r.vvNew[b] \subseteq All(m)
  <2>1. \A b \in NewBuckets : r.vvNew[b] \subseteq 0 .. n - 1
    BY <1>7 DEF NewPlaces, n
  <2>2. \A id \in 0 .. n - 1 : id \in All(m)
    BY <1>2
  <2> QED BY <2>1, <2>2
<1>13. Shape(r)
  <2>1. All(m) \subseteq 0 .. MaxId - 1 /\ r.nIdCount \in 0 .. MaxId /\ r.nTried \in Int /\ r.nNew \in Int
    BY <1>2, <1>6, <1>7, AddrManAssumption
  <2>2. r.mapInfo \in [All(m) -> InfoType]
    BY <1>4, <1>7
  <2>3. r.mapAddr \in [DOMAIN r.mapAddr -> All(m)]
    BY <1>7
  <2>4. r.vvTried \in [TriedBuckets -> Seq(All(m))]
    <3>1. \A b \in TriedBuckets : r.vvTried[b] \in Seq(All(m))
      BY <1>10, <1>11
    <3> QED BY <1>7, <3>1
  <2>5. r.vvNew \in [NewBuckets -> SUBSET All(m)]
    BY <1>7, <1>12
  <2> QED BY <1>3, <1>7, <1>9, <2>1, <2>2, <2>3, <2>4, <2>5 DEF Shape
<1>14. Indexed(r)
  <2>1. \A a \in DOMAIN r.mapAddr : Net[r.mapInfo[r.mapAddr[a]].svc] = a
    BY <1>4, <1>7
  <2>2. \A p \in 1 .. Len(r.vRandom) : r.mapInfo[r.vRandom[p]].nRandomPos = p
    <3>1. \A p \in 1 .. c : r.vRandom[p] = p - 1 /\ p - 1 \in All(m) /\ (p - 1) + 1 = p
      BY <1>2, <1>9
    <3> QED BY <1>4, <1>9, <3>1
  <2>3. ASSUME NEW id \in Ids(r)
        PROVE  /\ id < r.nIdCount
               /\ Net[r.mapInfo[id].svc] \in DOMAIN r.mapAddr
               /\ r.mapAddr[Net[r.mapInfo[id].svc]] = id
               /\ r.mapInfo[id].nRandomPos \in 1 .. Len(r.vRandom)
               /\ r.vRandom[r.mapInfo[id].nRandomPos] = id
    <3> DEFINE a == Net[m.mapInfo[Old(m, id)].svc]
               q == r.mapAddr[a]
    <3>1. id \in All(m) /\ id < r.nIdCount /\ r.mapInfo[id].svc = m.mapInfo[Old(m, id)].svc
      BY <1>3, <1>4, <1>7, <1>8
    <3>2. a \in DOMAIN r.mapAddr /\ q \in All(m) /\ Net[m.mapInfo[Old(m, q)].svc] = a
      BY <1>7, <3>1
    <3>3. Old(m, q) = Old(m, id)
      <4>1. \A i, j \in Ids(m) : Net[m.mapInfo[i].svc] = Net[m.mapInfo[j].svc] => i = j
        BY <1>1 DEF Indexed
      <4> QED BY <1>2, <3>1, <3>2, <4>1
    <3>4. q = id
      BY <1>2, <3>1, <3>2, <3>3
    <3>5. r.mapInfo[id].nRandomPos = id + 1 /\ id + 1 \in 1 .. c /\ (id + 1) - 1 = id
      BY <1>4, <1>8, <3>1
    <3>6. r.mapInfo[id].nRandomPos \in 1 .. Len(r.vRandom) /\ r.vRandom[r.mapInfo[id].nRandomPos] = id
      BY <1>9, <3>5
    <3> QED BY <3>1, <3>2, <3>4, <3>6
  <2> QED BY <2>1, <2>2, <2>3 DEF Indexed
<1>15. InNew(r, -1, 0)
  <2> SUFFICES ASSUME NEW id \in Ids(r), ~r.mapInfo[id].fInTried
               PROVE  /\ r.mapInfo[id].nRefCount = Cardinality(NewIn(r, id)) + 0
                      /\ r.mapInfo[id].nRefCount > 0
    <3>1. -1 \notin Ids(r)
      BY <1>2, <1>3
    <3> QED BY <3>1 DEF InNew
  <2>1. id \in All(m) /\ id < n
    BY <1>3, <1>4, <1>8
  <2>2. Cardinality(NewIn(r, id)) \in Nat
    BY <1>13, Finite DEF NewIn
  <2> QED BY <1>4, <1>5, <2>1, <2>2
<1>16. InTried(r)
  <2>1. ASSUME NEW id \in Ids(r), r.mapInfo[id].fInTried
        PROVE  /\ r.mapInfo[id].nLastSuccess # 0 /\ r.mapInfo[id].nRefCount = 0
               /\ \A b \in NewBuckets : id \notin r.vvNew[b]
               /\ \E p \in 1 .. Len(r.vvTried[TriedBucketOf[r.mapInfo[id].svc]]) :
                    r.vvTried[TriedBucketOf[r.mapInfo[id].svc]][p] = id
    <3> DEFINE j == Old(m, id)
               b == TriedBucketOf[m.mapInfo[j].svc]
    <3>1. id \in All(m) /\ ~(id < n) /\ id >= n
      BY <1>3, <1>4, <1>8, <2>1
    <3>2. j \in Ids(m) /\ m.mapInfo[j].fInTried
      BY <1>2, <3>1 DEF TriedIds
    <3>3. r.mapInfo[id].nLastSuccess # 0
      BY <1>1, <1>4, <3>1, <3>2 DEF InTried
    <3>4. r.mapInfo[id].nRefCount = 0 /\ \A d \in NewBuckets : id \notin r.vvNew[d]
      BY <1>4, <1>5, <3>1 DEF NewIn
    <3>5. b \in TriedBuckets
      BY <1>1, <3>2, AddrManAssumption DEF Shape, InfoType
    <3>6. id \in TriedPlaces(m, b)
      BY <3>1 DEF TriedPlaces, n
    <3>7. r.mapInfo[id].svc = m.mapInfo[j].svc
      BY <1>4, <3>1
    <3> HIDE DEF j
    <3>8. \E p \in 1 .. Len(r.vvTried[b]) : r.vvTried[b][p] = id
      <4> HIDE DEF b
      <4> QED BY <1>10, <3>5, <3>6
    <3> QED BY <3>3, <3>4, <3>7, <3>8
  <2>2. ASSUME NEW b \in TriedBuckets, NEW p \in 1 .. Len(r.vvTried[b])
        PROVE  /\ r.mapInfo[r.vvTried[b][p]].fInTried
               /\ TriedBucketOf[r.mapInfo[r.vvTried[b][p]].svc] = b
               /\ \A q \in 1 .. Len(r.vvTried[b]) : r.vvTried[b][p] = r.vvTried[b][q] => p = q
    <3> DEFINE j == r.vvTried[b][p]
    <3>1. j \in TriedPlaces(m, b)
      BY <1>10
    <3>2. j \in All(m) /\ j >= n /\ TriedBucketOf[m.mapInfo[Old(m, j)].svc] = b
      BY <1>11, <3>1
    <3>3. r.mapInfo[j].fInTried /\ r.mapInfo[j].svc = m.mapInfo[Old(m, j)].svc
      BY <1>4, <3>2
    <3> QED BY <1>10, <3>2, <3>3
  <2> QED BY <2>1, <2>2 DEF InTried
<1>17. Totals(r)
  <2>1. TriedIds(r) = n .. c - 1 /\ Fresh(r) = 0 .. n - 1
    <3>1. TriedIds(r) = {id \in All(m) : id >= n} /\ Fresh(r) = {id \in All(m) : ~(id >= n)}
      BY <1>3, <1>4 DEF TriedIds, Fresh
    <3>2. \A id : id \in All(m) /\ id >= n <=> id \in n .. c - 1
      BY <1>2
    <3>3. \A id : id \in All(m) /\ ~(id >= n) <=> id \in 0 .. n - 1
      BY <1>2
    <3> QED BY <3>1, <3>2, <3>3
  <2>2. Cardinality(0 .. n - 1) = n
    BY <1>2, BelowIs
  <2>3. Cardinality(n .. c - 1) = IF n > c - 1 THEN 0 ELSE (c - 1) - n + 1
    BY <1>2, FS_Interval
  <2>4. Cardinality(n .. c - 1) = k
    BY <1>2, <1>6, <2>3
  <2> QED BY <1>7, <2>1, <2>2, <2>4 DEF Totals
<1>18. Sized(r, rb2)
  <2>1. \A b \in TriedBuckets : Len(r.vvTried[b]) <= TriedBucketSize
    BY <1>10
  <2>2. ASSUME ~rb2, NEW b \in NewBuckets PROVE Cardinality(r.vvNew[b]) <= NewBucketSize
    <3> DEFINE h == [id \in r.vvNew[b] |-> Old(m, id)]
    <3>1. same /\ ~rb
      BY <2>2
    <3>2. \A id \in r.vvNew[b] : id \in All(m) /\ Old(m, id) \in m.vvNew[b]
      BY <1>7, <1>12, <3>1 DEF NewPlaces
    <3>3. h \in Injection(r.vvNew[b], m.vvNew[b])
      BY <1>2, <3>2 DEF Injection, IsInjective
    <3>4. IsFiniteSet(m.vvNew[b]) /\ Cardinality(m.vvNew[b]) \in Int /\ Cardinality(m.vvNew[b]) <= NewBucketSize
      <4>1. m.vvNew[b] \in SUBSET Ids(m)
        BY <1>1 DEF Shape
      <4> QED BY <1>1, <3>1, <4>1, Finite DEF Sized
    <3> HIDE DEF h
    <3>5. IsFiniteSet(r.vvNew[b]) /\ Cardinality(r.vvNew[b]) <= Cardinality(m.vvNew[b])
      BY <3>3, <3>4, FS_Injection
    <3>6. Cardinality(r.vvNew[b]) \in Nat
      BY <3>5, FS_CardinalityType
    <3> QED BY <3>4, <3>5, <3>6, AddrManAssumption
  <2> QED BY <2>1, <2>2 DEF Sized
<1>19. Past(r, t)
  BY <1>1, <1>2, <1>3, <1>4 DEF Past
<1> QED BY <1>13, <1>14, <1>15, <1>16, <1>17, <1>18, <1>19 DEF Tables

(* What was reached is still known, as it was, and so is the time.           *)
StillKnown(m, r) ==
    \A id \in TriedIds(m) :
      LET s == m.mapInfo[id].svc IN
      /\ Known(r, s)
      /\ LET i == r.mapInfo[Find(r, s)]
         IN i.svc = s /\ i.nLastSuccess >= m.mapInfo[id].nLastSuccess

(* An entry that is kept is found by its address.                            *)
LEMMA KeepsKnown ==
    ASSUME NEW m, NEW r, Keeps(m, r), Indexed(r)
    PROVE  StillKnown(m, r)
<1> SUFFICES ASSUME NEW id \in TriedIds(m)
             PROVE  LET s == m.mapInfo[id].svc
                    IN  /\ Known(r, s) /\ r.mapInfo[Find(r, s)].svc = s
                        /\ r.mapInfo[Find(r, s)].nLastSuccess >= m.mapInfo[id].nLastSuccess
  BY DEF StillKnown
<1>1. /\ id \in Ids(r) /\ r.mapInfo[id].svc = m.mapInfo[id].svc
      /\ r.mapInfo[id].nLastSuccess >= m.mapInfo[id].nLastSuccess
  BY DEF Keeps
<1>2. Net[m.mapInfo[id].svc] \in DOMAIN r.mapAddr /\ r.mapAddr[Net[m.mapInfo[id].svc]] = id
  BY <1>1 DEF Indexed
<1> QED BY <1>1, <1>2 DEF Known, Find

(* So is one that was written and read back, under its new number.           *)
LEMMA ReloadKnown ==
    ASSUME NEW m, NEW r, NEW same \in BOOLEAN, Shape(m), InNew(m, -1, 0), InTried(m), Reloaded(m, r, same),
           Indexed(r)
    PROVE  StillKnown(m, r)
<1> SUFFICES ASSUME NEW j \in TriedIds(m)
             PROVE  LET s == m.mapInfo[j].svc
                    IN  /\ Known(r, s) /\ r.mapInfo[Find(r, s)].svc = s
                        /\ r.mapInfo[Find(r, s)].nLastSuccess >= m.mapInfo[j].nLastSuccess
  BY DEF StillKnown
<1>1. j \in Ids(m) /\ m.mapInfo[j].nLastSuccess \in Int
  BY AddrManAssumption DEF TriedIds, Shape, InfoType
<1>2. PICK id \in All(m) : Old(m, id) = j
  BY <1>1, OldIs
<1>3. /\ id \in Ids(r) /\ r.mapInfo[id].svc = m.mapInfo[j].svc
      /\ r.mapInfo[id].nLastSuccess = m.mapInfo[j].nLastSuccess
  BY <1>2, ReloadEntries DEF Renumbered
<1>4. Net[m.mapInfo[j].svc] \in DOMAIN r.mapAddr /\ r.mapAddr[Net[m.mapInfo[j].svc]] = id
  BY <1>3 DEF Indexed
<1>5. r.mapInfo[id].nLastSuccess >= m.mapInfo[j].nLastSuccess
  BY <1>1, <1>3
<1> QED BY <1>3, <1>4, <1>5 DEF Known, Find

(* Both restarts.                                                            *)
LEMMA RestartsKeep ==
    ASSUME IInv, NEW same \in BOOLEAN, NEW rb, am' = Unserialize(Serialize(am), same), ~rb => same /\ ~rebuilt
    PROVE  /\ Reloaded(am, am', same)
           /\ Tables(am', -1, 0, rb, now) /\ StillKnown(am, am')
<1>1. /\ Tables(am, -1, 0, rebuilt, now)
      /\ Shape(am) /\ InNew(am, -1, 0) /\ InTried(am) /\ Sized(am, rebuilt)
  BY DEF IInv, Tables
<1>2. Reloaded(am, Unserialize(Serialize(am), same), same)
  BY <1>1, ReloadedIs
<1> DEFINE r == am'
<1>3. Reloaded(am, r, same)
  BY <1>2, Zenon
<1> HIDE DEF r
<1>4. Tables(r, -1, 0, rb, now)
  BY <1>1, <1>3, ReloadTables
<1>5. Indexed(r)
  BY <1>4 DEF Tables
<1>6. StillKnown(am, r)
  BY <1>1, <1>3, <1>5, ReloadKnown
<1> QED BY <1>3, <1>4, <1>6 DEF r

-----------------------------------------------------------------------------
(* The steps and the theorems.                                               *)

(* The tried buckets an entry is in: that of its service, if it was reached. *)
LEMMA TriedBucketsAre ==
    ASSUME NEW m, Shape(m), InTried(m), NEW id \in Ids(m)
    PROVE  {b \in TriedBuckets : id \in ToSet(m.vvTried[b])} =
             {b \in TriedBuckets : m.mapInfo[id].fInTried /\ b = TriedBucketOf[m.mapInfo[id].svc]}
<1> DEFINE kb == TriedBucketOf[m.mapInfo[id].svc]
<1>1. ASSUME NEW b \in TriedBuckets
      PROVE  id \in ToSet(m.vvTried[b]) <=> \E p \in 1 .. Len(m.vvTried[b]) : m.vvTried[b][p] = id
  <2>1. m.vvTried[b] \in Seq(Ids(m))
    BY DEF Shape
  <2>2. DOMAIN m.vvTried[b] = 1 .. Len(m.vvTried[b])
    BY <2>1
  <2> QED BY <2>2 DEF ToSet
<1>2. ASSUME NEW b \in TriedBuckets, NEW p \in 1 .. Len(m.vvTried[b]), m.vvTried[b][p] = id
      PROVE  m.mapInfo[id].fInTried /\ b = kb
  BY <1>2 DEF InTried
<1>3. ASSUME m.mapInfo[id].fInTried PROVE \E p \in 1 .. Len(m.vvTried[kb]) : m.vvTried[kb][p] = id
  BY <1>3 DEF InTried
<1>4. \A b \in TriedBuckets : id \in ToSet(m.vvTried[b]) <=> m.mapInfo[id].fInTried /\ b = kb
  BY <1>1, <1>2, <1>3
<1> QED BY <1>4

(* One line of the view.                                                     *)
Line(m, id) ==
    <<OnDisk(m.mapInfo[id]), m.mapInfo[id].fInTried,
      {b \in NewBuckets : id \in m.vvNew[b]}, {b \in TriedBuckets : id \in ToSet(m.vvTried[b])}>>

(* The view of tables that were read back, by a build like the one that      *)
(* wrote them, has the same lines in another order.                          *)
LEMMA ReloadView ==
    ASSUME NEW m, NEW r, NEW rb, NEW t, Tables(m, -1, 0, rb, t), Tables(r, -1, 0, rb, t), Reloaded(m, r, TRUE)
    PROVE  View(r) = View(m)
<1>1. Shape(m) /\ InNew(m, -1, 0) /\ InTried(m) /\ Shape(r) /\ InTried(r)
  BY DEF Tables
<1>2. /\ NewCount(m) \in Nat /\ Count(m) \in Nat /\ All(m) = 0 .. Count(m) - 1
      /\ \A id \in All(m) : /\ Old(m, id) \in Ids(m)
                            /\ id < NewCount(m) => Old(m, id) \in NewIds(m)
                            /\ ~(id < NewCount(m)) => Old(m, id) \in TriedIds(m)
      /\ \A j \in Ids(m) : \E id \in All(m) : Old(m, id) = j
  BY <1>1, OldIs DEF All
<1>3. Ids(r) = All(m) /\ Renumbered(m, r)
  BY <1>1, ReloadEntries
<1>4. ASSUME NEW id \in All(m) PROVE Line(r, id) = Line(m, Old(m, id))
  <2> DEFINE j == Old(m, id)
  <2>1. j \in Ids(m) /\ id \in Ids(r)
    BY <1>2, <1>3
  <2>2. /\ OnDisk(r.mapInfo[id]) = OnDisk(m.mapInfo[j]) /\ r.mapInfo[id].svc = m.mapInfo[j].svc
        /\ r.mapInfo[id].fInTried = (id >= NewCount(m))
    BY <1>3 DEF Renumbered
  <2>3. m.mapInfo[j].fInTried \in BOOLEAN
    BY <1>1, <2>1 DEF Shape, InfoType
  <2>4. m.mapInfo[j].fInTried <=> ~(id < NewCount(m))
    BY <1>1, <1>2, <2>3, NewAreFresh DEF TriedIds, Fresh
  <2>5. id \in Int /\ (id >= NewCount(m) <=> ~(id < NewCount(m)))
    BY <1>2
  <2>6. r.mapInfo[id].fInTried = m.mapInfo[j].fInTried
    BY <2>2, <2>3, <2>4, <2>5
  <2>7. {b \in NewBuckets : id \in r.vvNew[b]} = {b \in NewBuckets : j \in m.vvNew[b]}
    BY <1>1, ReloadCounts DEF NewIn
  <2>8. {b \in TriedBuckets : id \in ToSet(r.vvTried[b])} =
          {b \in TriedBuckets : r.mapInfo[id].fInTried /\ b = TriedBucketOf[r.mapInfo[id].svc]}
    BY <1>1, <2>1, TriedBucketsAre
  <2>9. {b \in TriedBuckets : j \in ToSet(m.vvTried[b])} =
          {b \in TriedBuckets : m.mapInfo[j].fInTried /\ b = TriedBucketOf[m.mapInfo[j].svc]}
    BY <1>1, <2>1, TriedBucketsAre
  <2>10. {b \in TriedBuckets : id \in ToSet(r.vvTried[b])} = {b \in TriedBuckets : j \in ToSet(m.vvTried[b])}
    BY <2>2, <2>6, <2>8, <2>9
  <2> HIDE DEF j
  <2>11. Line(r, id) = Line(m, j)
    BY <2>2, <2>6, <2>7, <2>10, Zenon DEF Line
  <2> QED BY <2>11 DEF j
<1>5. View(r) = {Line(r, id) : id \in Ids(r)} /\ View(m) = {Line(m, id) : id \in Ids(m)}
  BY Zenon DEF View, Line
<1>6. {Line(r, id) : id \in Ids(r)} = {Line(m, j) : j \in Ids(m)}
  BY <1>2, <1>3, <1>4
<1> QED BY <1>5, <1>6

(* One step of the address manager, whatever the step: the tables stay in    *)
(* order, and what was reached is known.                                     *)
LEMMA StepKeeps ==
    ASSUME IInv, [Next]_vars
    PROVE  IInv' /\ StillKnown(am, am')
<1>1. /\ Tables(am, -1, 0, rebuilt, now) /\ Shape(am) /\ Indexed(am)
      /\ now \in 1 .. MaxNow /\ rebuilt \in BOOLEAN
  BY DEF IInv, Tables
<1>2. ASSUME NEW rb, NEW t, Tables(am', -1, 0, rb, t), rebuilt' = rb, now' = t, rb \in BOOLEAN, t \in 1 .. MaxNow
      PROVE  IInv'
  BY <1>2, TablesPrime
<1>3. ASSUME NEW rb, NEW t, Tables(am', -1, 0, rb, t), Keeps(am, am') PROVE StillKnown(am, am')
  <2> DEFINE r == am'
  <2>1. Indexed(r) /\ Keeps(am, r)
    BY <1>3 DEF Tables
  <2> HIDE DEF r
  <2>2. StillKnown(am, r)
    BY <2>1, KeepsKnown
  <2> QED BY <2>2 DEF r
<1>4. ASSUME NEW n \in News, NEW ago \in Heard, NEW p \in Penalty, Add(n[1], n[2], ago, p)
      PROVE  IInv' /\ StillKnown(am, am')
  <2>1. n[1] \in Service /\ n[2] \in Source /\ ago \in Nat /\ p \in Nat
    BY AddrManAssumption
  <2>2. Tables(am', -1, 0, rebuilt, now) /\ Keeps(am, am')
    BY <1>4, <2>1, AddKeeps
  <2>3. rebuilt' = rebuilt /\ now' = now
    BY <1>4 DEF Add
  <2> QED BY <1>1, <1>2, <1>3, <2>2, <2>3
<1>5. ASSUME NEW s \in Service, Good(s) PROVE IInv' /\ StillKnown(am, am')
  <2>1. Tables(am', -1, 0, rebuilt, now) /\ Keeps(am, am')
    BY <1>5, GoodKeeps
  <2>2. rebuilt' = rebuilt /\ now' = now
    BY <1>5 DEF Good
  <2> QED BY <1>1, <1>2, <1>3, <2>1, <2>2
<1>6. ASSUME NEW s \in Service, Connected(s) PROVE IInv' /\ StillKnown(am, am')
  <2>1. Tables(am', -1, 0, rebuilt, now) /\ Keeps(am, am')
    BY <1>6, ConnectedKeeps
  <2>2. rebuilt' = rebuilt /\ now' = now
    BY <1>6 DEF Connected
  <2> QED BY <1>1, <1>2, <1>3, <2>1, <2>2
<1>7. ASSUME NEW s \in Dialled, Attempt(s) PROVE IInv' /\ StillKnown(am, am')
  <2>1. Tables(am', -1, 0, rebuilt, now) /\ Keeps(am, am')
    BY <1>7, AttemptKeeps
  <2>2. rebuilt' = rebuilt /\ now' = now
    BY <1>7 DEF Attempt
  <2> QED BY <1>1, <1>2, <1>3, <2>1, <2>2
<1>8. ASSUME GetAddr PROVE IInv' /\ StillKnown(am, am')
  <2>1. Tables(am', -1, 0, rebuilt, now) /\ Keeps(am, am')
    BY <1>8, GetAddrKeeps
  <2>2. rebuilt' = rebuilt /\ now' = now
    BY <1>8 DEF GetAddr
  <2> QED BY <1>1, <1>2, <1>3, <2>1, <2>2
<1>9. ASSUME Restart PROVE IInv' /\ StillKnown(am, am')
  <2>1. am' = Unserialize(Serialize(am), TRUE) /\ rebuilt' = rebuilt /\ now' = now
    BY <1>9 DEF Restart
  <2>2. Tables(am', -1, 0, rebuilt, now) /\ StillKnown(am, am')
    BY <2>1, RestartsKeep
  <2> QED BY <1>1, <1>2, <2>1, <2>2
<1>10. ASSUME RestartRebuilt PROVE IInv' /\ StillKnown(am, am')
  <2>1. am' = Unserialize(Serialize(am), FALSE) /\ rebuilt' = TRUE /\ now' = now
    BY <1>10 DEF RestartRebuilt
  <2>2. Tables(am', -1, 0, TRUE, now) /\ StillKnown(am, am')
    BY <2>1, RestartsKeep
  <2> QED BY <1>1, <1>2, <2>1, <2>2
<1>11. ASSUME Tick PROVE IInv' /\ StillKnown(am, am')
  <2>1. Tables(am', -1, 0, rebuilt, now') /\ Keeps(am, am')
    BY <1>11, TickKeeps
  <2>2. rebuilt' = rebuilt /\ now' = now + 1 /\ now < MaxNow
    BY <1>11 DEF Tick
  <2>3. now' \in 1 .. MaxNow
    BY <1>1, <2>2, AddrManAssumption
  <2> QED BY <1>1, <1>2, <1>3, <2>1, <2>2, <2>3
<1>12. ASSUME UNCHANGED vars PROVE IInv' /\ StillKnown(am, am')
  <2>1. am' = am /\ rebuilt' = rebuilt /\ now' = now
    BY <1>12 DEF vars
  <2>2. \A j \in TriedIds(am) : j \in Ids(am) /\ am.mapInfo[j].nLastSuccess \in Int
    BY <1>1, AddrManAssumption DEF TriedIds, Shape, InfoType
  <2>3. Keeps(am, am)
    BY <2>2 DEF Keeps
  <2>4. Tables(am', -1, 0, rebuilt, now) /\ Keeps(am, am')
    BY <1>1, <2>1, <2>3
  <2> QED BY <1>1, <1>2, <1>3, <2>1, <2>4
<1> QED BY <1>4, <1>5, <1>6, <1>7, <1>8, <1>9, <1>10, <1>11, <1>12 DEF Next

(* The inductive invariant holds throughout.                                 *)
LEMMA Invariance == Spec => []IInv
<1>1. Init => IInv
  BY InitTables
<1>2. IInv /\ [Next]_vars => IInv'
  BY StepKeeps
<1> QED BY <1>1, <1>2, PTL DEF Spec

(* Type correctness: the tables of CAddrMan keep their shape, no count is    *)
(* negative or above its limit, and no index leads outside mapInfo.          *)
THEOREM TypeCorrect == Spec => []TypeOK
<1>1. IInv => TypeOK
  BY TablesAre
<1> QED BY <1>1, Invariance, PTL

(* Check_ never fails: after every operation of CAddrMan, the restarts       *)
(* included, the buckets, mapAddr, vRandom, the reference counts and the     *)
(* totals agree with mapInfo.                                                *)
THEOREM TablesStayConsistent == Spec => []TablesConsistent
<1>1. IInv => TablesConsistent
  BY TablesAre
<1> QED BY <1>1, Invariance, PTL

(* ShrinkNew and MakeTried make room in time: no tried bucket and, unless    *)
(* the new table was rebuilt from another build's file, no new bucket is     *)
(* ever larger than its limit.                                               *)
THEOREM BucketsStayBounded == Spec => []BucketsBounded
<1>1. IInv => BucketsBounded
  BY TablesAre
<1> QED BY <1>1, Invariance, PTL

(* No operation of CAddrMan loses a service it has reached: MakeTried and    *)
(* ShrinkNew only move it, and peers.dat gives it back.                      *)
THEOREM ReachedStaysKnown == Spec => ReachedKept
<1>1. IInv /\ [Next]_vars =>
        [\A id \in TriedIds(am) :
           LET s == am.mapInfo[id].svc IN
           /\ Known(am', s)
           /\ LET i == am'.mapInfo[Find(am', s)]
              IN i.svc = s /\ i.nLastSuccess >= am.mapInfo[id].nLastSuccess]_vars
  BY StepKeeps DEF StillKnown
<1> QED BY <1>1, Invariance, PTL DEF Spec, ReachedKept

(* IMPLEMENT_SERIALIZE of addrman.h: what a build writes to peers.dat, the   *)
(* same build reads back as the same tables.                                 *)
THEOREM RestartIsFaithful == Spec => RestartKeepsTables
<1>1. IInv /\ [Next]_vars => [Restart => View(am') = View(am)]_vars
  <2> SUFFICES ASSUME IInv, Restart PROVE View(am') = View(am)
    OBVIOUS
  <2>1. am' = Unserialize(Serialize(am), TRUE)
    BY DEF Restart
  <2>2. Tables(am, -1, 0, rebuilt, now)
    BY DEF IInv
  <2> DEFINE r == am'
  <2>3. Reloaded(am, r, TRUE) /\ Tables(r, -1, 0, rebuilt, now)
    BY <2>1, RestartsKeep
  <2> HIDE DEF r
  <2>4. View(r) = View(am)
    BY <2>2, <2>3, ReloadView
  <2> QED BY <2>4 DEF r
<1> QED BY <1>1, Invariance, PTL DEF Spec, RestartKeepsTables

=============================================================================
