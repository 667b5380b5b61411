------------------------------- MODULE AddrMan -------------------------------
(***************************************************************************)
(* The address manager (addrman.h, addrman.cpp): addresses in "new" and    *)
(* "tried" buckets, with the indexes kept beside them, and its reload from *)
(* the file it is dumped to.  All of it runs under CAddrMan::cs.           *)
(*                                                                         *)
(* Random choices and the statistics of an entry that only bias them       *)
(* (nTime, nLastTry, nAttempts) are free choices, so Attempt_ and          *)
(* Connected_, which change nothing else, do not appear.  Positions in     *)
(* vectors start at 1.                                                     *)
(***************************************************************************)
EXTENDS Naturals, SequencesExt

CONSTANTS
    NULL,
    CNetAddr,               \* the routable addresses
    Sources,                \* who tells of them
    GetNewBucket,           \* address, source -> "new" bucket
    GetTriedBucket,         \* address -> "tried" bucket
    NewBuckets, TriedBuckets,
    NEW_BUCKET_SIZE, TRIED_BUCKET_SIZE,
    NEW_BUCKETS_PER_ADDRESS,
    TRIED_ENTRIES_INSPECT_ON_EVICT,
    GETADDR_MAX_PCT, GETADDR_MAX,
    MaxId,                  \* bound: ids are taken below it
    MaxTime                 \* bound: times of success are 1..MaxTime

ASSUME AddrManAssumption ==
    /\ GetNewBucket \in [CNetAddr \X Sources -> NewBuckets]
    /\ GetTriedBucket \in [CNetAddr -> TriedBuckets]
    /\ {NEW_BUCKET_SIZE, TRIED_BUCKET_SIZE, NEW_BUCKETS_PER_ADDRESS,
        TRIED_ENTRIES_INSPECT_ON_EVICT, MaxId, MaxTime} \subseteq Nat \ {0}

VARIABLE am     \* the CAddrMan object

Id == 0 .. MaxId - 1

Info == [addr : CNetAddr, source : Sources, nRefCount : 0..NEW_BUCKETS_PER_ADDRESS,
         fInTried : BOOLEAN, nRandomPos : 1..MaxId, nLastSuccess : 0..MaxTime]

\* Every field of CAddrMan has its type; no reference count passes its bound.
TypeOK ==
    /\ am.nIdCount \in 0..MaxId
    /\ am.mapInfo \in [Id -> Info \cup {NULL}]
    /\ am.mapAddr \in [CNetAddr -> Id \cup {NULL}]
    /\ am.vRandom \in Seq(Id)
    /\ am.vvTried \in [TriedBuckets -> Seq(Id)]
    /\ am.vvNew \in [NewBuckets -> SUBSET Id]
    /\ am.nTried \in 0..MaxId /\ am.nNew \in 0..MaxId

Empty ==
    [nIdCount |-> 0, mapInfo |-> [n \in Id |-> NULL], mapAddr |-> [a \in CNetAddr |-> NULL],
     vRandom |-> <<>>, vvTried |-> [k \in TriedBuckets |-> <<>>],
     vvNew |-> [b \in NewBuckets |-> {}], nTried |-> 0, nNew |-> 0]

Init == am = Empty

-----------------------------------------------------------------------------
(* The parts of the operations, on an object t.                            *)

\* The mark of the position taken before the entry is appended.
CreateOneShort(t, a, source) ==
    [t EXCEPT !.nIdCount = @ + 1,
              !.mapInfo[t.nIdCount] =
                  [addr |-> a, source |-> source, nRefCount |-> 0, fInTried |-> FALSE,
                   nRandomPos |-> Len(t.vRandom), nLastSuccess |-> 0],
              !.mapAddr[a] = t.nIdCount,
              !.vRandom = Append(@, t.nIdCount),
              !.nNew = @ + 1]

\* Create, with the count of Add_.
Create(t, a, source) ==
    [t EXCEPT !.nIdCount = @ + 1,
              !.mapInfo[t.nIdCount] =
                  [addr |-> a, source |-> source, nRefCount |-> 0, fInTried |-> FALSE,
                   nRandomPos |-> Len(t.vRandom) + 1, nLastSuccess |-> 0],
              !.mapAddr[a] = t.nIdCount,
              !.vRandom = Append(@, t.nIdCount),
              !.nNew = @ + 1]

\* A swap that does not tell the entries where they are now.
SwapRandomVectorOnly(t, p, q) ==
    [t EXCEPT !.vRandom = [@ EXCEPT ![p] = t.vRandom[q], ![q] = t.vRandom[p]]]

SwapRandom(t, p, q) ==
    [t EXCEPT !.mapInfo = [@ EXCEPT ![t.vRandom[p]].nRandomPos = q, ![t.vRandom[q]].nRandomPos = p],
              !.vRandom = [@ EXCEPT ![p] = t.vRandom[q], ![q] = t.vRandom[p]]]

Delete(t, n) ==
    [SwapRandom(t, t.mapInfo[n].nRandomPos, Len(t.vRandom))
        EXCEPT !.vRandom = Front(@),
               !.mapAddr[t.mapInfo[n].addr] = NULL,
               !.mapInfo[n] = NULL,
               !.nNew = @ - 1]

\* The entry n leaves the new bucket b, and the tables if that was its last.
Unreference(t, n, b) ==
    LET u == [t EXCEPT !.mapInfo[n].nRefCount = @ - 1, !.vvNew[b] = @ \ {n}]
    IN  IF u.mapInfo[n].nRefCount = 0 THEN Delete(u, n) ELSE u

\* The possible outcomes: the first terrible entry goes, or the oldest of four
\* picked at random, which can be any.
ShrinkNew(t, b) == {Unreference(t, n, b) : n \in t.vvNew[b]}

Full(t, b) == Cardinality(t.vvNew[b]) >= NEW_BUCKET_SIZE

AddToNew(t, n, b) ==
    LET u == [t EXCEPT !.mapInfo[n].nRefCount = @ + 1]
        room == IF Cardinality(u.vvNew[b]) = NEW_BUCKET_SIZE THEN ShrinkNew(u, b) ELSE {u}
    IN  IF n \in t.vvNew[b] THEN {t} ELSE {[v EXCEPT !.vvNew[b] = @ \cup {n}] : v \in room}

\* SelectTried(k): the shuffled bucket and the position returned, for every run
\* of its loop.  The position is not corrected when a later swap moves the entry.
SelectTried(t, k) ==
    LET size == Len(t.vvTried[k])
        inspect == IF size < TRIED_ENTRIES_INSPECT_ON_EVICT THEN size ELSE TRIED_ENTRIES_INSPECT_ON_EVICT
        Better(s, p) == s.nOldest = NULL \/
            t.mapInfo[s.vTried[p]].nLastSuccess < t.mapInfo[s.nOldest].nLastSuccess
        Inspect(s, i, p) ==
            [vTried |-> [s.vTried EXCEPT ![p] = s.vTried[i], ![i] = s.vTried[p]],
             nOldest |-> IF Better(s, p) THEN s.vTried[p] ELSE s.nOldest,
             nOldestPos |-> IF Better(s, p) THEN p ELSE s.nOldestPos]
        runs[i \in 0..inspect] ==
            IF i = 0 THEN {[vTried |-> t.vvTried[k], nOldest |-> NULL, nOldestPos |-> NULL]}
            ELSE {Inspect(s, i, p) : s \in runs[i - 1], p \in i..size}
    IN  runs[inspect]

\* The evicted entry goes to its own new bucket, full or not.
EvictToOwnBucket(t, old, nOrigin) == GetNewBucket[t.mapInfo[old].addr, t.mapInfo[old].source]

\* The evicted entry goes back to its new bucket, or to the one nId came from.
EvictTo(t, old, nOrigin) ==
    LET own == GetNewBucket[t.mapInfo[old].addr, t.mapInfo[old].source]
    IN  IF Full(t, own) THEN nOrigin ELSE own

\* The entry n replaces the one at position pos of the tried bucket k.
Replace(t, n, k, vTried, pos, nOrigin) ==
    LET old == vTried[pos]
    IN  [t EXCEPT !.mapInfo = [@ EXCEPT ![old].fInTried = FALSE, ![old].nRefCount = 1,
                                        ![n].fInTried = TRUE],
                  !.vvNew[EvictTo(t, old, nOrigin)] = @ \cup {old},
                  !.vvTried[k] = [vTried EXCEPT ![pos] = n],
                  !.nNew = @ + 1]

\* n out of one of its buckets only.
TakeFromNewOnce(t, n) ==
    [t EXCEPT !.mapInfo[n].nRefCount = @ - 1,
              !.vvNew[CHOOSE b \in NewBuckets : n \in t.vvNew[b]] = @ \ {n},
              !.nNew = @ - 1]

\* n out of all new buckets, the first half of MakeTried.
TakeFromNew(t, n) ==
    [t EXCEPT !.mapInfo[n].nRefCount = @ - Cardinality({b \in NewBuckets : n \in t.vvNew[b]}),
              !.vvNew = [b \in NewBuckets |-> t.vvNew[b] \ {n}],
              !.nNew = @ - 1]

-----------------------------------------------------------------------------
(* The operations.                                                         *)

\* Add_ of an address that is not known.
AddNew(a, source) ==
    /\ am.mapAddr[a] = NULL /\ am.nIdCount < MaxId
    /\ am' \in AddToNew(Create(am, a, source), am.nIdCount, GetNewBucket[a, source])

\* Add_ of a known one, when its time, the reference count and the dice allow it.
AddAgain(a, source) ==
    LET n == am.mapAddr[a]
    IN  /\ n # NULL
        /\ ~am.mapInfo[n].fInTried
        /\ am.mapInfo[n].nRefCount # NEW_BUCKETS_PER_ADDRESS
        /\ am' \in AddToNew(am, n, GetNewBucket[a, source])

\* Good_, with MakeTried.
Good(a, nTime) ==
    LET n == am.mapAddr[a]
        t == [am EXCEPT !.mapInfo[n].nLastSuccess = nTime]
        u == TakeFromNew(t, n)
        k == GetTriedBucket[a]
    IN  /\ n # NULL
        /\ \/ /\ am.mapInfo[n].fInTried
              /\ am' = t
           \/ /\ ~am.mapInfo[n].fInTried
              /\ \E nOrigin \in {b \in NewBuckets : n \in am.vvNew[b]} :
                   \/ /\ Len(u.vvTried[k]) < TRIED_BUCKET_SIZE
                      /\ am' = [u EXCEPT !.vvTried[k] = Append(@, n), !.nTried = @ + 1,
                                         !.mapInfo[n].fInTried = TRUE]
                   \/ /\ Len(u.vvTried[k]) >= TRIED_BUCKET_SIZE
                      /\ \E s \in SelectTried(u, k) :
                           am' = Replace(u, n, k, s.vTried, s.nOldestPos, nOrigin)

\* GetAddr_ shuffles the first part of vRandom.
GetAddr ==
    LET pct == (GETADDR_MAX_PCT * Len(am.vRandom)) \div 100
        nNodes == IF pct > GETADDR_MAX THEN GETADDR_MAX ELSE pct
        shuffles[i \in 0..nNodes] ==
            IF i = 0 THEN {am}
            ELSE {SwapRandom(t, i, p) : t \in shuffles[i - 1], p \in i..Len(am.vRandom)}
    IN  am' \in shuffles[nNodes]

\* What is read back from what was written: ids are given anew, first to the
\* new entries and then to the tried ones, and the rest is rebuilt from them.
Unserialized(t) ==
    LET inOrder(S) == SetToSortSeq(S, <)
        news == inOrder({n \in Id : t.mapInfo[n] # NULL /\ t.mapInfo[n].nRefCount > 0})
        ids == news \o inOrder({n \in Id : t.mapInfo[n] # NULL /\ t.mapInfo[n].fInTried})
        idOf(n) == (CHOOSE i \in DOMAIN ids : ids[i] = n) - 1
        inBucket(k, n) == n >= Len(news) /\ GetTriedBucket[t.mapInfo[ids[n + 1]].addr] = k
    IN  [nIdCount |-> Len(ids),
         mapInfo |-> [n \in Id |-> IF n >= Len(ids) THEN NULL
                                   ELSE [t.mapInfo[ids[n + 1]] EXCEPT !.nRandomPos = n + 1]],
         mapAddr |-> [a \in CNetAddr |-> IF t.mapAddr[a] = NULL THEN NULL ELSE idOf(t.mapAddr[a])],
         vRandom |-> [i \in 1..Len(ids) |-> i - 1],
         vvTried |-> [k \in TriedBuckets |-> inOrder({n \in 0..Len(ids) - 1 : inBucket(k, n)})],
         vvNew |-> [b \in NewBuckets |-> {idOf(n) : n \in t.vvNew[b]}],
         nTried |-> t.nTried, nNew |-> t.nNew]

\* The program stops and starts again.
Reload == am' = Unserialized(am)

Next ==
    \/ \E a \in CNetAddr, source \in Sources : AddNew(a, source) \/ AddAgain(a, source)
    \/ \E a \in CNetAddr, nTime \in 1..MaxTime : Good(a, nTime)
    \/ GetAddr
    \/ Reload

Spec == Init /\ [][Next]_am

-----------------------------------------------------------------------------
(* Properties.                                                             *)

Known == {n \in Id : am.mapInfo[n] # NULL}
Tried == {n \in Known : am.mapInfo[n].fInTried}

\* The consistency that Check_ tests when it is compiled in: each entry is in
\* the tried table once or in as many new buckets as its reference count says,
\* and the indexes by address and by random position lead to it.
Check ==
    /\ am.nTried = Cardinality(Tried) /\ am.nNew = Cardinality(Known \ Tried)
    /\ Len(am.vRandom) = am.nTried + am.nNew
    /\ \A n \in Known :
         LET info == am.mapInfo[n]
         IN  /\ am.mapAddr[info.addr] = n
             /\ info.nRandomPos \in DOMAIN am.vRandom /\ am.vRandom[info.nRandomPos] = n
             /\ info.nRefCount = Cardinality({b \in NewBuckets : n \in am.vvNew[b]})
             /\ n \in Tried => info.nRefCount = 0 /\ info.nLastSuccess > 0
             /\ n \notin Tried => info.nRefCount > 0
             /\ Cardinality({p \in TriedBuckets \X Id : p[2] + 1 \in DOMAIN am.vvTried[p[1]] /\
                                am.vvTried[p[1]][p[2] + 1] = n}) = IF n \in Tried THEN 1 ELSE 0
    /\ \A b \in NewBuckets : am.vvNew[b] \subseteq Known
    /\ \A k \in TriedBuckets : ToSet(am.vvTried[k]) \subseteq Known

\* No bucket grows past its size: for an entry evicted from the tried table
\* "there is certainly place" in the bucket the new one came from (MakeTried).
BucketsBounded ==
    /\ \A b \in NewBuckets : Cardinality(am.vvNew[b]) <= NEW_BUCKET_SIZE
    /\ \A k \in TriedBuckets : Len(am.vvTried[k]) <= TRIED_BUCKET_SIZE

\* Addresses "are never deleted while in the tried table, only possibly
\* evicted back to the new table", by an eviction, an addition or a reload.
TriedNeverDeleted ==
    [][\A n \in Tried : am.mapAddr'[am.mapInfo[n].addr] # NULL]_am
=============================================================================
