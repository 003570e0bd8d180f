-------------------------- MODULE BlockTreeProofs --------------------------
(***************************************************************************)
(* What walking pprev meets, for every block tree: facts that follow from   *)
(* the equations of BlockTree by induction along Pprev, and what the walks  *)
(* of Reorganize and SetBestChain therefore find.                           *)
(***************************************************************************)
EXTENDS BlockTree, Integers, WellFoundedInduction, TLAPS

-----------------------------------------------------------------------------
(* Induction on a counter, in the form the provers can use: over the set of *)
(* the numbers that have the property.  With it, what a loop that is        *)
(* written as a recursive function computes.                                *)

(* A set of natural numbers that is not empty has a least element.          *)
LEMMA LeastNat ==
    ASSUME NEW T, T \subseteq Nat, T # {}
    PROVE  \E n \in T : \A m \in T : n <= m
<1> DEFINE R == OpToRel(<, Nat)
<1>1. IsWellFoundedOn(R, Nat)
  BY NatLessThanWellFounded
<1>2. \A x, y \in Nat : <<y, x>> \in R <=> y < x
  BY DEF OpToRel
<1> HIDE DEF R
<1>3. PICK x \in T : \A y \in T : ~(<<y, x>> \in R)
  BY <1>1, WFMin
<1>4. \A y \in T : ~(y < x)
  BY <1>2, <1>3
<1> QED BY <1>4

(* A property of 0 that passes from each number to the next.                *)
LEMMA UpTo ==
    ASSUME NEW L \in Nat, NEW T, 0 \in T, \A n \in 0 .. L - 1 : n \in T => n + 1 \in T
    PROVE  0 .. L \subseteq T
<1> DEFINE R == {n \in 0 .. L : n \notin T}
<1>1. ASSUME R # {} PROVE FALSE
  <2>1. PICK n \in R : \A m \in R : n <= m
    <3>1. R \subseteq Nat
      OBVIOUS
    <3> HIDE DEF R
    <3> QED BY <1>1, <3>1, LeastNat
  <2>2. n # 0 /\ n - 1 \in 0 .. L - 1 /\ ~(n <= n - 1) /\ (n - 1) + 1 = n
    BY <2>1
  <2>3. n - 1 \in 0 .. L
    BY <2>2
  <2> QED BY <2>1, <2>2, <2>3
<1> QED BY <1>1

(* A loop of L rounds that applies F to its state, a member of W, and its   *)
(* counter; g is the states it goes through from w.                         *)
Loop(W, F, L) == L \in Nat /\ \A v \in W : \A n \in 1 .. L : F[<<v, n>>] \in W
Goes(g, W, F, L, w) ==
    /\ g \in [0 .. L -> W]
    /\ g[0] = w /\ \A n \in 1 .. L : g[n] = F[<<g[n - 1], n>>]

(* A loop runs to the end.                                                  *)
LEMMA LoopRuns ==
    ASSUME NEW W, NEW F, NEW L, Loop(W, F, L), NEW w \in W
    PROVE  \E g : Goes(g, W, F, L, w)
<1> USE DEF Loop
<1> DEFINE Run(g, m) == g[0] = w /\ \A n \in 1 .. m : g[n] = F[<<g[n - 1], n>>]
           T == {m \in 0 .. L : \E g \in [0 .. m -> W] : Run(g, m)}
<1>1. 0 \in T
  <2>1. [i \in 0 .. 0 |-> w] \in [0 .. 0 -> W] /\ Run([i \in 0 .. 0 |-> w], 0)
    OBVIOUS
  <2>2. 0 \in 0 .. L
    OBVIOUS
  <2> HIDE DEF Run
  <2> QED BY <2>1, <2>2
<1>2. ASSUME NEW m \in 0 .. L - 1, m \in T PROVE m + 1 \in T
  <2>1. PICK g \in [0 .. m -> W] : Run(g, m)
    BY <1>2
  <2> DEFINE h == [i \in 0 .. m + 1 |-> IF i = m + 1 THEN F[<<g[m], m + 1>>] ELSE g[i]]
  <2>2. g[m] \in W /\ m + 1 \in 1 .. L
    BY <1>2
  <2>3. h \in [0 .. m + 1 -> W]
    BY <2>2
  <2>4. ASSUME NEW n \in 1 .. m + 1 PROVE h[n] = F[<<h[n - 1], n>>]
    <3>1. CASE n = m + 1
      BY <3>1
    <3>2. CASE n \in 1 .. m
      BY <2>1, <3>2
    <3> QED BY <3>1, <3>2
  <2>5. h[0] = w
    BY <2>1
  <2>6. Run(h, m + 1)
    BY <2>4, <2>5
  <2>7. m + 1 \in 0 .. L
    BY <1>2
  <2> HIDE DEF h, Run
  <2> QED BY <2>3, <2>6, <2>7
<1>3. L \in T
  <2> HIDE DEF T
  <2>1. 0 .. L \subseteq T
    BY <1>1, <1>2, UpTo
  <2> QED BY <2>1
<1> QED BY <1>3 DEF Goes

-----------------------------------------------------------------------------
(* Induction along Pprev, for a set of blocks.                              *)
LEMMA TreeInduction ==
    ASSUME NEW S, Genesis \in S,
           \A b \in Block \ {Genesis} : Pprev[b] \in S => b \in S
    PROVE  Block \subseteq S
<1> DEFINE T == {Height[b] : b \in Block \ S}
<1>1. T \subseteq Nat
  BY BlockTreeAssumption
<1>2. ASSUME T # {} PROVE FALSE
  <2>1. PICK n \in T : \A m \in T : n <= m
    BY <1>1, <1>2, LeastNat
  <2>2. PICK b \in Block \ S : Height[b] = n
    BY <2>1
  <2>3. b # Genesis /\ Pprev[b] \in Block /\ Height[b] = Height[Pprev[b]] + 1
    BY <2>2, BlockTreeAssumption, PprevAssumption
  <2>4. Pprev[b] \in S
    <3> SUFFICES ASSUME Pprev[b] \notin S PROVE FALSE
      OBVIOUS
    <3>1. n <= Height[Pprev[b]]
      BY <2>1, <2>3
    <3> QED BY <3>1, <2>2, <2>3, BlockTreeAssumption
  <2> QED BY <2>2, <2>3, <2>4
<1> QED BY <1>2

-----------------------------------------------------------------------------
(* One block of the chain of b at each height up to its own; what an        *)
(* ancestor's ancestors are; trust grows along the chain.                   *)
WellRooted(b) ==
    /\ Genesis \in Ancestors[b] /\ b \in Ancestors[b]
    /\ \A h \in 0 .. Height[b] : \E a \in Ancestors[b] : Height[a] = h
    /\ \A a \in Ancestors[b] :
        /\ Height[a] <= Height[b]
        /\ a # b => Trust[a] < Trust[b] /\ a \in Ancestors[Pprev[b]]
        /\ Ancestors[a] = {c \in Ancestors[b] : Height[c] <= Height[a]}
        /\ \A c \in Ancestors[b] : Height[c] = Height[a] => c = a

(* Every block is well rooted: the closure of pprev is a chain with one     *)
(* block at each height down to the genesis block.                          *)
LEMMA Ancestry == \A b \in Block : WellRooted(b)
<1> DEFINE S == {b \in Block : WellRooted(b)}
<1>1. Genesis \in S
  BY BlockTreeAssumption, PprevAssumption DEF WellRooted
<1>2. ASSUME NEW b \in Block \ {Genesis}, Pprev[b] \in S PROVE b \in S
  <2> DEFINE p == Pprev[b]
  <2>1. /\ p \in Block /\ WellRooted(p)
        /\ Ancestors[b] = Ancestors[p] \cup {b}
        /\ Height[b] = Height[p] + 1 /\ Trust[b] > Trust[p]
        /\ Height[p] \in Nat /\ Height[b] \in Nat /\ Trust[p] \in Nat /\ Trust[b] \in Nat
        /\ Ancestors[p] \subseteq Block
    BY <1>2, BlockTreeAssumption, PprevAssumption
  <2>2. \A a \in Ancestors[p] : Height[a] \in Nat /\ Trust[a] \in Nat /\ Height[a] <= Height[p]
    BY <2>1, BlockTreeAssumption DEF WellRooted
  <2>3. b \notin Ancestors[p]
    BY <2>1, <2>2
  <2> HIDE DEF p
  <2>4. \A h \in 0 .. Height[b] : \E a \in Ancestors[b] : Height[a] = h
    <3> TAKE h \in 0 .. Height[b]
    <3>1. h = Height[b] \/ h \in 0 .. Height[p]
      BY <2>1
    <3> QED BY <2>1, <3>1 DEF WellRooted
  <2>5. ASSUME NEW a \in Ancestors[p]
        PROVE  /\ Height[a] <= Height[b]
               /\ a # b => Trust[a] < Trust[b]
               /\ Ancestors[a] = {c \in Ancestors[b] : Height[c] <= Height[a]}
               /\ \A c \in Ancestors[b] : Height[c] = Height[a] => c = a
    <3>1. Height[a] <= Height[p] /\ (a = p \/ Trust[a] < Trust[p])
      BY <2>1, <2>5 DEF WellRooted
    <3>2. ~(Height[b] <= Height[a])
      BY <2>1, <2>2, <2>5
    <3> QED BY <2>1, <2>2, <2>5, <3>1, <3>2 DEF WellRooted
  <2>6. Ancestors[b] = {c \in Ancestors[b] : Height[c] <= Height[b]}
        /\ \A c \in Ancestors[b] : Height[c] = Height[b] => c = b
    BY <2>1, <2>2
  <2>7. Genesis \in Ancestors[b] /\ b \in Ancestors[b]
    BY <2>1 DEF WellRooted
  <2>8. WellRooted(b)
    BY <2>1, <2>4, <2>5, <2>6, <2>7 DEF WellRooted, p
  <2> QED BY <1>2, <2>8
<1>3. Block \subseteq S
  <2> HIDE DEF S
  <2> QED BY <1>1, <1>2, TreeInduction
<1> QED BY <1>3

(* A block is its own ancestor, and an ancestor's ancestors are ancestors.  *)
LEMMA SelfAncestor == \A b \in Block : b \in Ancestors[b]
BY Ancestry DEF WellRooted

(* What pprev reaches from an ancestor, it reaches from the block.          *)
LEMMA AncestorsTransitive ==
    ASSUME NEW b \in Block, NEW a \in Ancestors[b]
    PROVE  /\ a \in Block /\ Ancestors[a] \subseteq Ancestors[b]
           /\ Height[a] \in Nat /\ Height[a] <= Height[b]
BY Ancestry, BlockTreeAssumption DEF WellRooted

-----------------------------------------------------------------------------
(* A set of ancestors that is not empty has a highest one.                  *)
LEMMA HighestAncestor ==
    ASSUME NEW b \in Block, NEW S, S \subseteq Ancestors[b], S # {}
    PROVE  \E f \in S : \A g \in S : Height[g] <= Height[f]
<1> DEFINE T == {Height[b] - Height[g] : g \in S}
<1>1. \A g \in S : Height[g] \in Nat /\ Height[g] <= Height[b] /\ Height[b] \in Nat
  BY AncestorsTransitive, BlockTreeAssumption
<1>2. T \subseteq Nat /\ T # {}
  BY <1>1
<1>3. PICK n \in T : \A k \in T : n <= k
  BY <1>2, LeastNat
<1>4. PICK f \in S : n = Height[b] - Height[f]
  BY <1>3
<1>5. ASSUME NEW g \in S PROVE Height[g] <= Height[f]
  <2>1. Height[b] - Height[g] \in T
    BY <1>5
  <2>2. n <= Height[b] - Height[g]
    BY <2>1, <1>3
  <2> QED BY <2>2, <1>1, <1>4
<1> QED BY <1>5

(* AncestorAt finds the block it names.                                     *)
LEMMA AncestorAtIs ==
    ASSUME NEW b \in Block, NEW h \in 0 .. Height[b]
    PROVE  AncestorAt(b, h) \in Ancestors[b] /\ Height[AncestorAt(b, h)] = h
BY Ancestry DEF AncestorAt, WellRooted

(* Both paths are sequences of blocks, as long as the blocks are apart.     *)
LEMMA PathTypes ==
    ASSUME NEW high \in Block, NEW low \in Ancestors[high]
    PROVE  /\ PathDown(high, low) \in Seq(Block) /\ PathUp(high, low) \in Seq(Block)
           /\ Len(PathDown(high, low)) = Height[high] - Height[low]
           /\ Len(PathUp(high, low)) = Height[high] - Height[low]
<1> DEFINE n == Height[high] - Height[low]
<1>1. n \in Nat /\ Height[low] \in Nat /\ Height[high] \in Nat
  BY AncestorsTransitive, BlockTreeAssumption
<1>2. \A h \in 0 .. Height[high] : AncestorAt(high, h) \in Block
  BY AncestorAtIs, BlockTreeAssumption
<1>3. PathDown(high, low) \in [1 .. n -> Block]
  BY <1>1, <1>2 DEF PathDown
<1>4. PathUp(high, low) \in [1 .. n -> Block]
  BY <1>1, <1>2 DEF PathUp
<1> QED BY <1>1, <1>3, <1>4

(* The parent of an ancestor is one too, a step lower, and no other ancestor*)
(* has that parent.                                                         *)
LEMMA ParentAncestor ==
    ASSUME NEW b \in Block, NEW c \in Ancestors[b] \ {Genesis}
    PROVE  /\ Pprev[c] \in Ancestors[b] /\ Pprev[c] \in Block
           /\ Height[c] = Height[Pprev[c]] + 1
           /\ \A d \in Ancestors[b] \ {Genesis} : Pprev[d] = Pprev[c] => d = c
<1>1. c \in Block /\ Ancestors[c] \subseteq Ancestors[b] /\ Height[c] \in Nat
  BY AncestorsTransitive
<1>2. Pprev[c] \in Block /\ Pprev[c] \in Ancestors[Pprev[c]]
  BY <1>1, SelfAncestor, BlockTreeAssumption
<1>3. Pprev[c] \in Ancestors[b] /\ Height[c] = Height[Pprev[c]] + 1
  BY <1>1, <1>2, PprevAssumption
<1>4. ASSUME NEW d \in Ancestors[b] \ {Genesis}, Pprev[d] = Pprev[c] PROVE d = c
  <2>1. d \in Block /\ Height[d] = Height[Pprev[d]] + 1
    BY AncestorsTransitive, PprevAssumption
  <2> QED BY <2>1, <1>3, <1>4, Ancestry DEF WellRooted
<1> QED BY <1>2, <1>3, <1>4

(* What lies above an ancestor is what its chain leaves out.                *)
LEMMA AboveAncestor ==
    ASSUME NEW high \in Block, NEW low \in Ancestors[high], NEW c \in Ancestors[high]
    PROVE  /\ c \in Ancestors[low] <=> Height[c] <= Height[low]
           /\ AncestorAt(high, Height[c]) = c
<1>1. Ancestors[low] = {d \in Ancestors[high] : Height[d] <= Height[low]}
  BY Ancestry DEF WellRooted
<1>2. \A d \in Ancestors[high] : Height[d] = Height[c] => d = c
  BY Ancestry DEF WellRooted
<1> QED BY <1>1, <1>2 DEF AncestorAt

(* PathUp climbs from low to high, through all that lies between.           *)
LEMMA PathUpIs ==
    ASSUME NEW high \in Block, NEW low \in Ancestors[high]
    PROVE  LET s == PathUp(high, low)
               n == Height[high] - Height[low]
           IN  /\ \A i \in 1 .. n :
                    /\ s[i] \in Ancestors[high] \ Ancestors[low]
                    /\ s[i] # Genesis
                    /\ Pprev[s[i]] = IF i = 1 THEN low ELSE s[i - 1]
               /\ \A c \in Ancestors[high] \ Ancestors[low] : \E i \in 1 .. n : c = s[i]
               /\ n > 0 => s[n] = high
<1> DEFINE s == PathUp(high, low)
           n == Height[high] - Height[low]
           lo == Height[low]
<1>1. n \in Nat /\ lo \in Nat /\ Height[high] \in Nat /\ Height[high] = lo + n
  BY AncestorsTransitive, BlockTreeAssumption
<1>2. \A i \in 1 .. n : s[i] = AncestorAt(high, lo + i)
  BY DEF PathUp
<1> HIDE DEF s, n, lo
<1>3. ASSUME NEW i \in 1 .. n
      PROVE  /\ s[i] \in Ancestors[high] /\ Height[s[i]] = lo + i
  BY <1>1, <1>2, AncestorAtIs
<1>4. ASSUME NEW i \in 1 .. n
      PROVE  s[i] \notin Ancestors[low] /\ s[i] # Genesis
  <2>1. ~(lo + i <= lo) /\ lo + i # 0
    BY <1>1
  <2> QED BY <1>3, <2>1, AboveAncestor, PprevAssumption DEF lo
<1>5. ASSUME NEW i \in 1 .. n
      PROVE  Pprev[s[i]] = IF i = 1 THEN low ELSE s[i - 1]
  <2> DEFINE p == Pprev[s[i]]
  <2>1. p \in Ancestors[high] /\ p \in Block /\ Height[s[i]] = Height[p] + 1
    BY <1>3, <1>4, ParentAncestor
  <2>2. Height[p] = lo + i - 1
    BY <1>1, <1>3, <2>1, BlockTreeAssumption
  <2> HIDE DEF p
  <2>3. CASE i = 1
    <3>1. Height[p] = Height[low]
      BY <1>1, <2>2, <2>3 DEF lo
    <3> QED BY <2>1, <2>3, <3>1, Ancestry DEF WellRooted, p
  <2>4. CASE i # 1
    <3>1. i - 1 \in 1 .. n
      BY <1>1, <2>4
    <3>2. Height[p] = Height[s[i - 1]]
      BY <1>1, <1>3, <2>2, <3>1
    <3> QED BY <1>3, <2>1, <2>4, <3>1, <3>2, Ancestry DEF WellRooted, p
  <2> QED BY <2>3, <2>4
<1>6. ASSUME NEW c \in Ancestors[high] \ Ancestors[low]
      PROVE  \E i \in 1 .. n : c = s[i]
  <2>1. Height[c] \in Nat /\ Height[c] <= Height[high] /\ ~(Height[c] <= lo)
    BY AboveAncestor, AncestorsTransitive DEF lo
  <2>2. Height[c] - lo \in 1 .. n /\ lo + (Height[c] - lo) = Height[c]
    BY <1>1, <2>1
  <2>3. s[Height[c] - lo] = AncestorAt(high, Height[c])
    BY <1>2, <2>2
  <2> QED BY <2>2, <2>3, AboveAncestor
<1>7. ASSUME n > 0 PROVE s[n] = high
  <2>1. n \in 1 .. n
    BY <1>1, <1>7
  <2>2. Height[s[n]] = Height[high]
    BY <1>1, <1>3, <2>1
  <2> QED BY <1>3, <2>1, <2>2, SelfAncestor, Ancestry DEF WellRooted
<1> QED BY <1>3, <1>4, <1>5, <1>6, <1>7 DEF s, n

(* PathDown is the same walk from the other end.                            *)
LEMMA PathDownIs ==
    ASSUME NEW high \in Block, NEW low \in Ancestors[high]
    PROVE  LET s == PathDown(high, low)
               n == Height[high] - Height[low]
           IN  /\ \A i \in 1 .. n :
                    /\ s[i] \in Ancestors[high] \ Ancestors[low]
                    /\ s[i] # Genesis
                    /\ Pprev[s[i]] = IF i = n THEN low ELSE s[i + 1]
               /\ \A c \in Ancestors[high] \ Ancestors[low] : \E i \in 1 .. n : c = s[i]
               /\ n > 0 => s[1] = high
<1> DEFINE s == PathDown(high, low)
           u == PathUp(high, low)
           n == Height[high] - Height[low]
<1>1. n \in Nat /\ Height[low] \in Nat /\ Height[high] \in Nat
  BY AncestorsTransitive, BlockTreeAssumption
<1>2. \A i \in 1 .. n : n + 1 - i \in 1 .. n
                       /\ Height[low] + (n + 1 - i) = Height[high] + 1 - i
  BY <1>1
<1>3. ASSUME NEW i \in 1 .. n PROVE s[i] = u[n + 1 - i]
  BY <1>2 DEF PathDown, PathUp
<1>4. /\ \A i \in 1 .. n : /\ u[i] \in Ancestors[high] \ Ancestors[low]
                           /\ u[i] # Genesis
                           /\ Pprev[u[i]] = IF i = 1 THEN low ELSE u[i - 1]
      /\ \A c \in Ancestors[high] \ Ancestors[low] : \E i \in 1 .. n : c = u[i]
      /\ n > 0 => u[n] = high
  BY PathUpIs
<1> HIDE DEF s, u, n
<1>5. ASSUME NEW i \in 1 .. n
      PROVE  /\ s[i] \in Ancestors[high] \ Ancestors[low]
             /\ s[i] # Genesis
             /\ Pprev[s[i]] = IF i = n THEN low ELSE s[i + 1]
  <2>1. n + 1 - i \in 1 .. n /\ (i = n <=> n + 1 - i = 1)
    BY <1>1, <1>2
  <2>2. ASSUME i # n PROVE i + 1 \in 1 .. n /\ n + 1 - (i + 1) = (n + 1 - i) - 1
    BY <1>1, <2>2
  <2> QED BY <1>3, <1>4, <2>1, <2>2
<1>6. ASSUME NEW c \in Ancestors[high] \ Ancestors[low]
      PROVE  \E i \in 1 .. n : c = s[i]
  <2>1. PICK j \in 1 .. n : c = u[j]
    BY <1>4
  <2>2. n + 1 - j \in 1 .. n /\ n + 1 - (n + 1 - j) = j
    BY <1>1
  <2> QED BY <1>3, <2>1, <2>2
<1>7. ASSUME n > 0 PROVE s[1] = high
  <2>1. 1 \in 1 .. n /\ n + 1 - 1 = n
    BY <1>1, <1>7
  <2> QED BY <1>3, <1>4, <1>7, <2>1
<1> QED BY <1>5, <1>6, <1>7 DEF s, n

(* The fork is the highest common block.                                    *)
LEMMA ForkIs ==
    ASSUME NEW a \in Block, NEW b \in Block
    PROVE  /\ Fork(a, b) \in Ancestors[a] \cap Ancestors[b]
           /\ \A g \in Ancestors[a] \cap Ancestors[b] : Height[g] <= Height[Fork(a, b)]
<1> DEFINE S == Ancestors[a] \cap Ancestors[b]
<1>1. S # {} /\ S \subseteq Ancestors[a]
  BY Ancestry DEF WellRooted
<1>2. \E f \in S : \A g \in S : Height[g] <= Height[f]
  BY <1>1, HighestAncestor
<1> QED BY <1>2 DEF Fork

(* Below the end of a chain there is a block that goes on from each.        *)
LEMMA ChildOnChain ==
    ASSUME NEW b \in Block, NEW m \in Ancestors[b], m # b
    PROVE  \E c \in Ancestors[b] \ {Genesis} :
                Pprev[c] = m /\ Height[c] > Height[m]
<1>1. m \in Block /\ Height[m] < Height[b]
  BY Ancestry, BlockTreeAssumption DEF WellRooted
<1>2. Height[m] + 1 \in 0 .. Height[b]
  BY <1>1, BlockTreeAssumption
<1>3. PICK c \in Ancestors[b] : Height[c] = Height[m] + 1
  BY <1>2, Ancestry DEF WellRooted
<1>4. c \in Block /\ c # Genesis /\ Pprev[c] \in Block /\ Height[Pprev[c]] = Height[m]
  BY <1>1, <1>3, BlockTreeAssumption, PprevAssumption
<1>5. Pprev[c] \in Ancestors[b]
  BY <1>3, <1>4, SelfAncestor, AncestorsTransitive, PprevAssumption
<1>6. Pprev[c] = m
  BY <1>4, <1>5, Ancestry DEF WellRooted
<1>7. Height[c] > Height[m]
  BY <1>1, <1>3, BlockTreeAssumption
<1> QED BY <1>3, <1>4, <1>6, <1>7

(* The walk of SetBestChain ends, at a block whose parent has no more trust *)
(* than the best one: the block it started from, or one with more.          *)
LEMMA IntermediateIs ==
    ASSUME NEW b \in Block, NEW best \in Block
    PROVE  LET m == Intermediate(b, best) IN
           /\ m \in Ancestors[b]
           /\ m = Genesis \/ Trust[Pprev[m]] <= Trust[best]
           /\ \A a \in Ancestors[b] : Height[a] > Height[m] => Trust[Pprev[a]] > Trust[best]
           /\ m = b \/ Trust[m] > Trust[best]
<1> DEFINE S == {m \in Ancestors[b] : m = Genesis \/ Trust[Pprev[m]] <= Trust[best]}
<1> DEFINE m == Intermediate(b, best)
<1>1. S # {} /\ S \subseteq Ancestors[b]
  BY Ancestry DEF WellRooted
<1>2. PICK f \in S : \A g \in S : Height[g] <= Height[f]
  BY <1>1, HighestAncestor
<1>3. ASSUME NEW a \in Ancestors[b], Height[a] > Height[f]
      PROVE  Trust[Pprev[a]] > Trust[best]
  <2>1. a \in Block /\ Height[a] \in Nat /\ Height[f] \in Nat
    BY <1>1, <1>2, <1>3, AncestorsTransitive
  <2>2. a \notin S
    BY <1>2, <1>3, <2>1
  <2>3. a # Genesis /\ ~(Trust[Pprev[a]] <= Trust[best])
    BY <2>2, <1>3
  <2> QED BY <2>1, <2>3, BlockTreeAssumption
<1>4. /\ m \in Ancestors[b]
      /\ m = Genesis \/ Trust[Pprev[m]] <= Trust[best]
      /\ \A a \in Ancestors[b] : Height[a] > Height[m] => Trust[Pprev[a]] > Trust[best]
  BY <1>2, <1>3 DEF Intermediate
<1> HIDE DEF m
<1>5. ASSUME m # b PROVE Trust[m] > Trust[best]
  BY <1>4, <1>5, ChildOnChain
<1> QED BY <1>4, <1>5 DEF m

=============================================================================
