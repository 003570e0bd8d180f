------------------------------ MODULE AddrMan ------------------------------
(***************************************************************************)
(* CAddrMan (addrman.cpp, addrman.h): the tables of peer addresses.  An      *)
(* address that was only heard of lies in one or several "new" buckets, one  *)
(* that was reached lies in one "tried" bucket; buckets are small and full   *)
(* ones make room at random.  Several indexes are kept beside the buckets    *)
(* and every operation has to keep all of them in step.                      *)
(*                                                                           *)
(* am is the object: operators take it and return what the code leaves       *)
(* behind, or the set of what it may leave behind where the code draws       *)
(* random numbers.  All operations run under CAddrMan::cs, so each is one    *)
(* step.  Positions in sequences count from 1.  Services are routable.       *)
(***************************************************************************)
EXTENDS Integers, Sequences, FiniteSets, SequencesExt

CONSTANTS
    Service,            \* CService: address and port
    Net,                \* Net[s]: its CNetAddr, which mapAddr is keyed by
    Source,             \* where news of an address comes from
    News,               \* who may tell of what: a set of <<service, source>>
    Dialled,            \* services the node tries to reach of its own accord
    NewBucketOf,        \* NewBucketOf[a][src]: GetNewBucket, a keyed hash
    TriedBucketOf,      \* TriedBucketOf[s]: GetTriedBucket, a keyed hash
    NewBucketCount, TriedBucketCount,
    NewBucketSize, TriedBucketSize,
    NewBucketsPerAddress,
    InspectOnEvict,
    GetAddrMaxPct, GetAddrMax,
    Minute, Hour, Day,  \* in ticks of the clock
    HorizonDays, MinFailDays, Retries, MaxFailures,
    Heard,              \* how long ago (in ticks) a peer says it saw an address
    Penalty,            \* nTimePenalty of the callers
    MaxNow, MaxId, MaxAttempts   \* bounds: clock, ids handed out, nAttempts

VARIABLES
    am,        \* the tables
    now,       \* GetAdjustedTime
    rebuilt    \* a file of a build with other bucket counts was read

vars == <<am, now, rebuilt>>

NewBuckets   == 0 .. NewBucketCount - 1
TriedBuckets == 0 .. TriedBucketCount - 1

(* The hashes name buckets; sizes and limits are those of #defines, none of  *)
(* which is 0.                                                               *)
ASSUME AddrManAssumption ==
    /\ News \subseteq Service \X Source /\ Dialled \subseteq Service
    /\ \A s \in Service : TriedBucketOf[s] \in TriedBuckets
    /\ \A s \in Service, src \in Source : NewBucketOf[Net[s]][src] \in NewBuckets
    /\ NewBucketCount \in Nat \ {0} /\ TriedBucketCount \in Nat \ {0}
    /\ NewBucketSize \in Nat \ {0} /\ TriedBucketSize \in Nat \ {0}
    /\ NewBucketsPerAddress \in Nat \ {0} /\ InspectOnEvict \in Nat \ {0}
    /\ GetAddrMaxPct \in Nat /\ GetAddrMax \in Nat /\ Heard \subseteq Nat /\ Penalty \subseteq Nat
    /\ MaxNow \in Nat \ {0} /\ MaxId \in Nat /\ MaxAttempts \in Nat

(* What a constructor leaves behind; Init of CAddrInfo.  Of nLastTry only    *)
(* whether it is less than a minute old is told apart (fJustTried).          *)
Empty == [mapInfo  |-> <<>>, mapAddr |-> <<>>, vRandom |-> <<>>,
          nIdCount |-> 0, nTried |-> 0, nNew |-> 0,
          vvTried  |-> [b \in TriedBuckets |-> <<>>],
          vvNew    |-> [b \in NewBuckets |-> {}]]
CAddrInfo(s, src, t) ==
    [svc |-> s, source |-> src, nTime |-> t, nLastSuccess |-> 0, fJustTried |-> FALSE,
     nAttempts |-> 0, nRefCount |-> 0, fInTried |-> FALSE, nRandomPos |-> 0]

Ids(m) == DOMAIN m.mapInfo
Without(f, x) == [y \in DOMAIN f \ {x} |-> f[y]]
With(f, x, v) == [y \in DOMAIN f \cup {x} |-> IF y = x THEN v ELSE f[y]]

IsTerrible(i) ==
    /\ ~i.fJustTried
    /\ \/ i.nTime > now + 10 * Minute
       \/ i.nTime = 0 \/ now - i.nTime > HorizonDays * Day
       \/ i.nLastSuccess = 0 /\ i.nAttempts >= Retries
       \/ now - i.nLastSuccess > MinFailDays * Day /\ i.nAttempts >= MaxFailures

-----------------------------------------------------------------------------
(* The steps the operations are made of.                                     *)

Known(m, s) == Net[s] \in DOMAIN m.mapAddr
Find(m, s)  == m.mapAddr[Net[s]]

Create(m, s, src, t) ==
    LET id == m.nIdCount IN
    [m EXCEPT !.nIdCount = id + 1,
              !.mapInfo = With(@, id, [CAddrInfo(s, src, t)
                                        EXCEPT !.nRandomPos = Len(m.vRandom) + 1]),
              !.mapAddr = With(@, Net[s], id),
              !.vRandom = Append(@, id)]

(* Mutant: one of the two entries keeps its old position.                    *)
SwapRandom_OneWay(m, p, q) ==
    LET id1 == m.vRandom[p]
        id2 == m.vRandom[q] IN
    [m EXCEPT !.mapInfo[id1].nRandomPos = q,
              !.vRandom = [@ EXCEPT ![p] = id2, ![q] = id1]]

SwapRandom(m, p, q) ==
    LET id1 == m.vRandom[p]
        id2 == m.vRandom[q] IN
    [m EXCEPT !.mapInfo = [@ EXCEPT ![id1].nRandomPos = q, ![id2].nRandomPos = p],
              !.vRandom = [@ EXCEPT ![p] = id2, ![q] = id1]]

(* Mutant: the address still leads to the entry.                             *)
Delete_KeepAddr(m, id) ==
    LET swapped == SwapRandom(m, m.mapInfo[id].nRandomPos, Len(m.vRandom)) IN
    [swapped EXCEPT !.vRandom = Front(@),
                    !.mapInfo = Without(@, id),
                    !.nNew = @ - 1]

(* An entry nothing refers to any more leaves all indexes.                   *)
Delete(m, id) ==
    LET swapped == SwapRandom(m, m.mapInfo[id].nRandomPos, Len(m.vRandom)) IN
    [swapped EXCEPT !.vRandom = Front(@),
                    !.mapAddr = Without(@, Net[m.mapInfo[id].svc]),
                    !.mapInfo = Without(@, id),
                    !.nNew = @ - 1]

(* ShrinkNew gives up one place of entry id, in bucket b.                    *)
Unreference(m, b, id) ==
    LET less == [m EXCEPT !.mapInfo[id].nRefCount = @ - 1,
                          !.vvNew[b] = @ \ {id}] IN
    IF less.mapInfo[id].nRefCount = 0 THEN Delete(less, id) ELSE less

(* The first terrible entry in the order of ids, or else the oldest of four  *)
(* drawn at random: the four may coincide, so every entry can be the one.    *)
ShrinkNew(m, b) ==
    LET terrible == {id \in m.vvNew[b] : IsTerrible(m.mapInfo[id])}
    IN {Unreference(m, b, id) : id \in IF terrible # {} THEN {Min(terrible)} ELSE m.vvNew[b]}

(* One round of SelectTried's loop, over <<vTried, nOldest, nOldestPos>>:    *)
(* position nPos is drawn and swapped to position i, and is remembered if    *)
(* its entry is older.                                                       *)
Inspect(m, sel, i, nPos) ==
    LET v == sel[1]
        nTemp == v[nPos]
        older == \/ sel[2] = -1
                 \/ m.mapInfo[nTemp].nLastSuccess < m.mapInfo[sel[2]].nLastSuccess
    IN <<[v EXCEPT ![nPos] = v[i], ![i] = nTemp],
         IF older THEN nTemp ELSE sel[2],
         IF older THEN nPos ELSE sel[3]>>

SelectTried(m, kb) ==
    LET v == m.vvTried[kb]
        rounds == Min({InspectOnEvict, Len(v)})
        sels[i \in 0 .. rounds] ==
            IF i = 0 THEN {<<v, -1, -1>>}
            ELSE {Inspect(m, sel, i, p) : sel \in sels[i - 1], p \in i .. Len(v)}
    IN sels[rounds]

(* MakeTried takes the entry out of all new buckets ...                      *)
Promoted(i, places) == [i EXCEPT !.nRefCount = @ - places, !.fInTried = TRUE]
OutOfNew(m, id) ==
    [m EXCEPT !.vvNew = [b \in NewBuckets |-> m.vvNew[b] \ {id}],
              !.mapInfo[id] = Promoted(@, Cardinality({b \in NewBuckets : id \in m.vvNew[b]})),
              !.nNew = @ - 1]

(* ... and, when its tried bucket is full, lets it take the place of another *)
(* entry, which goes back to the new table.                                  *)
Evicted(sel) == sel[1][sel[3]]
Demoted(i) == [i EXCEPT !.nRefCount = 1, !.fInTried = FALSE]
Replace(m, id, kb, sel, to) ==
    [m EXCEPT !.mapInfo[Evicted(sel)] = Demoted(@),
              !.vvNew[to] = @ \cup {Evicted(sel)},
              !.nNew = @ + 1,
              !.vvTried[kb] = [sel[1] EXCEPT ![sel[3]] = id]]
NewBucket(i) == NewBucketOf[Net[i.svc]][i.source]

(* Mutant: the evicted entry goes to its own new bucket, full or not.        *)
MakeTried_NoRoomTest(m, id, nOrigin) ==
    LET kb == TriedBucketOf[m.mapInfo[id].svc]
        out == OutOfNew(m, id)
    IN IF Len(m.vvTried[kb]) < TriedBucketSize
       THEN {[out EXCEPT !.vvTried[kb] = Append(@, id), !.nTried = @ + 1]}
       ELSE {Replace(out, id, kb, sel, NewBucket(m.mapInfo[Evicted(sel)])) :
               sel \in SelectTried(out, kb)}

(* Mutant: the evicted entry gives its place in the new table up at once.    *)
MakeTried_OldDeleted(m, id, nOrigin) ==
    LET kb == TriedBucketOf[m.mapInfo[id].svc]
        out == OutOfNew(m, id)
    IN IF Len(m.vvTried[kb]) < TriedBucketSize
       THEN {[out EXCEPT !.vvTried[kb] = Append(@, id), !.nTried = @ + 1]}
       ELSE {Unreference(Replace(out, id, kb, sel, nOrigin), nOrigin, Evicted(sel)) :
               sel \in SelectTried(out, kb)}

(* It goes to the new bucket of its source or, when that is full, to the one *)
(* the promoted entry was found in.                                          *)
MakeTried(m, id, nOrigin) ==
    LET kb == TriedBucketOf[m.mapInfo[id].svc]
        out == OutOfNew(m, id)
        Room(b) == Cardinality(out.vvNew[b]) < NewBucketSize
    IN IF Len(m.vvTried[kb]) < TriedBucketSize
       THEN {[out EXCEPT !.vvTried[kb] = Append(@, id), !.nTried = @ + 1]}
       ELSE {LET own == NewBucket(m.mapInfo[Evicted(sel)])
             IN Replace(out, id, kb, sel, IF Room(own) THEN own ELSE nOrigin) :
               sel \in SelectTried(out, kb)}

-----------------------------------------------------------------------------
(* The operations.                                                           *)

(* Add_ on an entry that is known: nTime is refreshed, and the entry may get *)
(* one more bucket unless there is no news, it is tried, it has all its      *)
(* places, or the dice say no (they cannot when nRefCount is 0).             *)
Refreshed(i, t, penalty) ==
    LET nUpdateInterval == IF now - t < Day THEN Hour ELSE Day IN
    IF t # 0 /\ (i.nTime = 0 \/ i.nTime < t - nUpdateInterval - penalty)
    THEN [i EXCEPT !.nTime = Max({0, t - penalty})] ELSE i
MayMultiply(i, t) ==
    /\ t # 0 /\ (i.nTime = 0 \/ t > i.nTime)
    /\ ~i.fInTried
    /\ i.nRefCount # NewBucketsPerAddress

(* The end of Add_: a place in the bucket of this source.                    *)
Place(m, id, b) ==
    IF id \in m.vvNew[b] THEN {m}
    ELSE LET more == [m EXCEPT !.mapInfo[id].nRefCount = @ + 1] IN
         {[r EXCEPT !.vvNew[b] = @ \cup {id}] :
            r \in IF Cardinality(m.vvNew[b]) = NewBucketSize
                  THEN ShrinkNew(more, b) ELSE {more}}

Add_(m, s, src, t, penalty) ==
    LET b == NewBucketOf[Net[s]][src] IN
    IF Known(m, s)
    THEN LET id == Find(m, s)
             fresh == [m EXCEPT !.mapInfo[id] = Refreshed(@, t, penalty)]
             i == fresh.mapInfo[id]
         IN (IF MayMultiply(i, t) THEN Place(fresh, id, b) ELSE {fresh})
              \cup (IF i.nRefCount > 0 THEN {fresh} ELSE {})
    ELSE Place([Create(m, s, src, Max({0, t - penalty})) EXCEPT !.nNew = @ + 1],
               m.nIdCount, b)

Add(s, src, ago, penalty) ==
    /\ now >= ago
    /\ ~Known(am, s) => am.nIdCount < MaxId
    /\ am' \in Add_(am, s, src, now - ago, penalty)
    /\ UNCHANGED <<now, rebuilt>>

(* The entry is that of the very service, with the same port.                *)
Exact(s) == Known(am, s) /\ am.mapInfo[Find(am, s)].svc = s

Reached(i) ==
    [i EXCEPT !.nLastSuccess = now, !.fJustTried = TRUE, !.nTime = now, !.nAttempts = 0]
Good(s) ==
    /\ Exact(s)
    /\ LET id == Find(am, s)
           seen == [am EXCEPT !.mapInfo[id] = Reached(@)]
           in == {b \in NewBuckets : id \in am.vvNew[b]}
       IN IF am.mapInfo[id].fInTried \/ in = {} THEN am' = seen
          ELSE \E nUBucket \in in : am' \in MakeTried(seen, id, nUBucket)
    /\ UNCHANGED <<now, rebuilt>>

Attempted(i) == [i EXCEPT !.fJustTried = TRUE, !.nAttempts = @ + 1]
Attempt(s) ==
    /\ Exact(s)
    /\ am.mapInfo[Find(am, s)].nAttempts < MaxAttempts
    /\ am' = [am EXCEPT !.mapInfo[Find(am, s)] = Attempted(@)]
    /\ UNCHANGED <<now, rebuilt>>

Connected(s) ==
    /\ Exact(s)
    /\ now - am.mapInfo[Find(am, s)].nTime > 20 * Minute
    /\ am' = [am EXCEPT !.mapInfo[Find(am, s)].nTime = now]
    /\ UNCHANGED <<now, rebuilt>>

(* The first nNodes positions of vRandom are shuffled.                       *)
GetAddr ==
    LET size == Len(am.vRandom)
        share == (GetAddrMaxPct * size) \div 100
        nNodes == IF share > GetAddrMax THEN GetAddrMax ELSE share
    IN /\ nNodes > 0
       /\ \E pos \in [1 .. nNodes -> 1 .. size] :
            /\ \A n \in 1 .. nNodes : pos[n] >= n
            /\ LET shuffled[n \in 0 .. nNodes] ==
                     IF n = 0 THEN am ELSE SwapRandom(shuffled[n - 1], n, pos[n])
               IN am' = shuffled[nNodes]
       /\ UNCHANGED <<now, rebuilt>>

-----------------------------------------------------------------------------
(* peers.dat: written at shutdown, read at the next start.                   *)

(* A set of numbers in increasing order.                                     *)
Rank(S, x) == Cardinality({y \in S : y < x})
Sorted(S) == [n \in 1 .. Cardinality(S) |-> CHOOSE x \in S : Rank(S, x) = n - 1]

(* What the file keeps of an entry: nLastTry and the positions are memory    *)
(* only.  New entries come first, then the tried ones, each in the order of  *)
(* ids; buckets list new entries by their place in the file.                 *)
OnDisk(i) == [i EXCEPT !.fJustTried = FALSE, !.nRefCount = 0, !.fInTried = FALSE, !.nRandomPos = 0]
NewIds(m) == {id \in Ids(m) : m.mapInfo[id].nRefCount # 0}
TriedIds(m) == {id \in Ids(m) : m.mapInfo[id].fInTried}

(* Mutant: all entries are counted, not only those the file lists as new.    *)
Serialize_CountAll(m) ==
    LET news == Sorted(NewIds(m))
        tried == Sorted(TriedIds(m))
        nIndex(id) == Rank(Ids(m), id)
    IN [new |-> [n \in DOMAIN news |-> OnDisk(m.mapInfo[news[n]])],
        tried |-> [n \in DOMAIN tried |-> OnDisk(m.mapInfo[tried[n]])],
        buckets |-> [b \in NewBuckets |-> {nIndex(id) : id \in m.vvNew[b]} \cap
                                          0 .. Cardinality(NewIds(m)) - 1]]

Serialize(m) ==
    LET news == Sorted(NewIds(m))
        tried == Sorted(TriedIds(m))
        nIndex(id) == Rank(NewIds(m), id)
    IN [new |-> [n \in DOMAIN news |-> OnDisk(m.mapInfo[news[n]])],
        tried |-> [n \in DOMAIN tried |-> OnDisk(m.mapInfo[tried[n]])],
        buckets |-> [b \in NewBuckets |-> {nIndex(id) : id \in m.vvNew[b]}]]

(* Ids are given anew.  A tried entry whose bucket is full is lost.  The     *)
(* buckets of the file count only if there are as many as in this build      *)
(* (same); otherwise each new entry goes to the bucket of its source.        *)
Unserialize(f, same) ==
    LET nNew == Len(f.new)
        before(n) == {k \in 1 .. n - 1 : TriedBucketOf[f.tried[k].svc] = TriedBucketOf[f.tried[n].svc]}
        kept == Sorted({n \in DOMAIN f.tried : Cardinality(before(n)) < TriedBucketSize})
        entry(id) == IF id < nNew THEN f.new[id + 1] ELSE f.tried[kept[id - nNew + 1]]
        vvNew == [b \in NewBuckets |->
                    IF same
                    THEN {id \in f.buckets[b] :
                            Cardinality({c \in 0 .. b - 1 : id \in f.buckets[c]}) < NewBucketsPerAddress}
                    ELSE {id \in 0 .. nNew - 1 : NewBucket(entry(id)) = b}]
        all == 0 .. nNew + Len(kept) - 1
    IN [mapInfo |-> [id \in all |-> [entry(id) EXCEPT
                       !.nRefCount = Cardinality({b \in NewBuckets : id \in vvNew[b]}),
                       !.fInTried = id >= nNew,
                       !.nRandomPos = id + 1]],
        mapAddr |-> [a \in {Net[entry(id).svc] : id \in all} |->
                       CHOOSE id \in all : Net[entry(id).svc] = a],
        vRandom |-> [n \in 1 .. nNew + Len(kept) |-> n - 1],
        nIdCount |-> nNew + Len(kept), nTried |-> Len(kept), nNew |-> nNew,
        vvTried |-> [b \in TriedBuckets |->
                       Sorted({id \in all : id >= nNew /\ TriedBucketOf[entry(id).svc] = b})],
        vvNew |-> vvNew]

Restart ==
    /\ am' = Unserialize(Serialize(am), TRUE)
    /\ UNCHANGED <<now, rebuilt>>

(* The file was written by a build with another ADDRMAN_NEW_BUCKET_COUNT.    *)
RestartRebuilt ==
    /\ am' = Unserialize(Serialize(am), FALSE)
    /\ rebuilt' = TRUE
    /\ UNCHANGED now

Tick ==
    /\ now < MaxNow
    /\ now' = now + 1
    /\ am' = [am EXCEPT !.mapInfo = [id \in Ids(am) |-> [@[id] EXCEPT !.fJustTried = FALSE]]]
    /\ UNCHANGED rebuilt

Init == am = Empty /\ now = 1 /\ rebuilt = FALSE

Next ==
    \/ \E n \in News, ago \in Heard, p \in Penalty : Add(n[1], n[2], ago, p)
    \/ \E s \in Service : Good(s) \/ Connected(s)
    \/ \E s \in Dialled : Attempt(s)
    \/ GetAddr \/ Restart \/ RestartRebuilt \/ Tick

Spec == Init /\ [][Next]_vars

-----------------------------------------------------------------------------
InfoType == [svc : Service, source : Source, nTime : 0 .. MaxNow, nLastSuccess : 0 .. MaxNow,
             fJustTried : BOOLEAN, nAttempts : 0 .. MaxAttempts,
             nRefCount : 0 .. NewBucketsPerAddress, fInTried : BOOLEAN,
             nRandomPos : 1 .. MaxId]

(* The shape of the tables; no count is negative, and no entry is counted in *)
(* more buckets than ADDRMAN_NEW_BUCKETS_PER_ADDRESS.                        *)
TypeOK ==
    /\ Ids(am) \subseteq 0 .. MaxId - 1
    /\ \A id \in Ids(am) : am.mapInfo[id] \in InfoType
    /\ am.mapAddr \in [DOMAIN am.mapAddr -> Ids(am)]
    /\ am.vRandom \in Seq(Ids(am))
    /\ am.nIdCount \in 0 .. MaxId /\ am.nTried \in 0 .. MaxId /\ am.nNew \in 0 .. MaxId
    /\ am.vvTried \in [TriedBuckets -> Seq(Ids(am))]
    /\ am.vvNew \in [NewBuckets -> SUBSET Ids(am)]
    /\ now \in 1 .. MaxNow /\ rebuilt \in BOOLEAN

(* Where the indexes say an entry is, and where it is.                       *)
TriedAt(id) == {at \in TriedBuckets \X (1 .. TriedBucketSize) :
                  at[2] <= Len(am.vvTried[at[1]]) /\ am.vvTried[at[1]][at[2]] = id}
NewAt(id)   == {b \in NewBuckets : id \in am.vvNew[b]}

(* Check_ of addrman.cpp, the consistency check a DEBUG_ADDRMAN build makes  *)
(* around every operation, returns 0: a tried entry has been reached, is in  *)
(* one tried bucket and in no new one; any other is in as many new buckets   *)
(* as its count says, and in one at least; mapAddr and vRandom lead back to  *)
(* each entry and to nothing else; the two totals are right.                 *)
TablesConsistent ==
    /\ \A id \in Ids(am) :
         LET i == am.mapInfo[id] IN
         /\ IF i.fInTried
            THEN i.nLastSuccess # 0 /\ i.nRefCount = 0 /\ NewAt(id) = {} /\ Cardinality(TriedAt(id)) = 1
            ELSE i.nRefCount > 0 /\ Cardinality(NewAt(id)) = i.nRefCount /\ TriedAt(id) = {}
         /\ am.mapAddr[Net[i.svc]] = id
         /\ i.nRandomPos <= Len(am.vRandom) /\ am.vRandom[i.nRandomPos] = id
    /\ Cardinality(DOMAIN am.mapAddr) = Cardinality(Ids(am))
    /\ Len(am.vRandom) = Cardinality(Ids(am))
    /\ am.nTried = Cardinality(TriedIds(am)) /\ am.nNew = Cardinality(NewIds(am))

(* "Only keep a limited number of addresses around": no bucket outgrows its  *)
(* size, also when an entry is evicted from a tried bucket into the new      *)
(* table, as long as the tables were not rebuilt from another build's file.  *)
BucketsBounded ==
    /\ \A b \in TriedBuckets : Len(am.vvTried[b]) <= TriedBucketSize
    /\ rebuilt \/ \A b \in NewBuckets : Cardinality(am.vvNew[b]) <= NewBucketSize

(* "They are never deleted while in the tried table, only possibly evicted   *)
(* back to the new table" (addrman.h): a service that was reached stays      *)
(* known for one more operation at least, with the time it was reached.      *)
ReachedKept ==
    [][\A id \in TriedIds(am) :
         LET s == am.mapInfo[id].svc IN
         /\ Known(am', s)
         /\ LET i == am'.mapInfo[Find(am', s)]
            IN i.svc = s /\ i.nLastSuccess >= am.mapInfo[id].nLastSuccess]_vars

(* Saving and loading the tables renumbers all entries and changes nothing   *)
(* else: each service keeps its tried bucket or its new buckets, its source  *)
(* and its statistics.                                                       *)
View(m) ==
    {<<OnDisk(m.mapInfo[id]), m.mapInfo[id].fInTried,
       {b \in NewBuckets : id \in m.vvNew[b]},
       {b \in TriedBuckets : id \in ToSet(m.vvTried[b])}>> : id \in Ids(m)}
RestartKeepsTables == [][Restart => View(am') = View(am)]_vars

=============================================================================
