---------------------------- MODULE OrphanTxProofs ----------------------------
(***************************************************************************)
(* The orphan transactions: the index by parent is exact, their number is  *)
(* bounded, and the message "tx" leaves none behind that has its inputs,   *)
(* for every set of transactions, every order of arrival and every limit.  *)
(***************************************************************************)
EXTENDS OrphanTx, FiniteSetTheorems, SequenceTheorems, TLAPS

\* An orphan whose inputs are all there is still to be tried, as a child of the
\* head of the work queue or of one behind it, or it is about to be erased, or
\* the last input came without the handler.
Pending ==
    \A t \in mapOrphanTransactions \ vEraseQueue :
        InputsThere(t) =>
            t \in untried \cup todo \/ \E i \in 2..Len(vWorkQueue) : vWorkQueue[i] \in Parents(t)

\* The limit may be passed by one only until LimitOrphanTxSize.
Limited ==
    /\ IsFiniteSet(mapOrphanTransactions)
    /\ Cardinality(mapOrphanTransactions)
         <= MAX_ORPHAN_TRANSACTIONS + (IF pc = "full" THEN 1 ELSE 0)

\* The queues are used only while the handler works.
QueuesInUse ==
    IF pc = "work" THEN vWorkQueue # <<>>
    ELSE vWorkQueue = <<>> /\ vEraseQueue = {} /\ todo = {}

OrphanTxInv == TypeOK /\ OrphanIndexExact /\ Limited /\ QueuesInUse /\ Pending

-----------------------------------------------------------------------------
(* The operators.                                                          *)

\* A loose transaction is one more in mapTx, and the pool stays a pool.
LEMMA AddUnchecked ==
    ASSUME NEW pool \in Pool, NEW t \in Tx
    PROVE  /\ addUnchecked(pool, t) \in Pool
           /\ addUnchecked(pool, t).mapTx = pool.mapTx \cup {t}
BY DEF addUnchecked, Pool, OutPoint

\* What is left after a remove is a pool.
LEMMA RemoveIsPool ==
    ASSUME NEW pool \in Pool, NEW t \in Tx
    PROVE  remove(pool, t) \in Pool /\ removeConflicts(pool, t) \in Pool
BY DEF remove, removeConflicts, Erase, Pool

\* So does a transaction that a reorganisation makes loose again.
LEMMA AcceptUncheckedIsPool ==
    ASSUME NEW pool \in Pool, NEW t \in Tx
    PROVE  acceptUnchecked(pool, t) \in Pool
BY AddUnchecked DEF acceptUnchecked

\* An orphan that is added goes under all of its parents, ...
LEMMA AddOrphanTxKeeps ==
    ASSUME TypeOK, OrphanIndexExact, IsFiniteSet(mapOrphanTransactions), NEW t \in Tx, AddOrphanTx(t)
    PROVE  /\ mapOrphanTransactions' \subseteq mapOrphanTransactions \cup {t}
           /\ mapOrphanTransactions' \subseteq Tx
           /\ mapOrphanTransactions \subseteq mapOrphanTransactions'
           /\ mapOrphanTransactionsByPrev' \in [Tx -> SUBSET Tx]
           /\ OrphanIndexExact'
           /\ IsFiniteSet(mapOrphanTransactions')
           /\ Cardinality(mapOrphanTransactions') <= Cardinality(mapOrphanTransactions) + 1
<1>0. Cardinality(mapOrphanTransactions) \in Nat
  BY FS_CardinalityType
<1>1. CASE t \in mapOrphanTransactions \/ t \in Large
  BY <1>0, <1>1 DEF AddOrphanTx, orphans, TypeOK, OrphanIndexExact, Parents
<1>2. CASE ~(t \in mapOrphanTransactions \/ t \in Large)
  <2>1. /\ mapOrphanTransactions' = mapOrphanTransactions \cup {t}
        /\ mapOrphanTransactionsByPrev' =
             [p \in Tx |-> mapOrphanTransactionsByPrev[p] \cup (IF p \in Parents(t) THEN {t} ELSE {})]
    BY <1>2 DEF AddOrphanTx
  <2>2. IsFiniteSet(mapOrphanTransactions')
        /\ Cardinality(mapOrphanTransactions') = Cardinality(mapOrphanTransactions) + 1
    BY <1>2, <2>1, FS_AddElement
  <2>3. mapOrphanTransactionsByPrev' \in [Tx -> SUBSET Tx]
    BY <2>1 DEF TypeOK
  <2>4. ASSUME NEW p \in Tx
        PROVE  mapOrphanTransactionsByPrev'[p] = {u \in mapOrphanTransactions' : p \in Parents(u)}
    BY <2>1 DEF OrphanIndexExact
  <2>5. OrphanIndexExact'
    BY <2>4 DEF OrphanIndexExact, Parents
  <2> QED BY <1>0, <2>1, <2>2, <2>3, <2>5 DEF TypeOK
<1> QED BY <1>1, <1>2

\* ... and one that is erased leaves all of them.
LEMMA EraseOrphanTxsKeeps ==
    ASSUME TypeOK, OrphanIndexExact, IsFiniteSet(mapOrphanTransactions), NEW S, EraseOrphanTxs(S)
    PROVE  /\ mapOrphanTransactions' = mapOrphanTransactions \ S
           /\ mapOrphanTransactionsByPrev' \in [Tx -> SUBSET Tx]
           /\ OrphanIndexExact'
           /\ IsFiniteSet(mapOrphanTransactions')
           /\ Cardinality(mapOrphanTransactions')
                = Cardinality(mapOrphanTransactions) - Cardinality(mapOrphanTransactions \cap S)
<1> DEFINE known == S \cap mapOrphanTransactions
<1>1. /\ mapOrphanTransactions' = mapOrphanTransactions \ S
      /\ mapOrphanTransactionsByPrev' =
           [p \in Tx |-> mapOrphanTransactionsByPrev[p] \ {t \in known : p \in Parents(t)}]
  BY DEF EraseOrphanTxs
<1>2. mapOrphanTransactionsByPrev' \in [Tx -> SUBSET Tx]
  BY <1>1 DEF TypeOK
<1>3. ASSUME NEW p \in Tx
      PROVE  mapOrphanTransactionsByPrev'[p] = {u \in mapOrphanTransactions' : p \in Parents(u)}
  BY <1>1 DEF OrphanIndexExact
<1>4. OrphanIndexExact'
  BY <1>3 DEF OrphanIndexExact, Parents
<1>5. IsFiniteSet(mapOrphanTransactions') /\ Cardinality(mapOrphanTransactions')
        = Cardinality(mapOrphanTransactions) - Cardinality(mapOrphanTransactions \cap S)
  BY <1>1, FS_Difference, Zenon
<1> QED BY <1>1, <1>2, <1>4, <1>5

-----------------------------------------------------------------------------
(* The steps.                                                              *)

\* The invariant holds at the start.
LEMMA InitOrphanTx == Init => OrphanTxInv
<1> SUFFICES ASSUME Init PROVE OrphanTxInv
  OBVIOUS
<1>1. TypeOK
  BY OrphanTxAssumption DEF OrphanTxAssumption, Init, TypeOK, EmptyPool, Pool
<1>2. OrphanIndexExact
  BY DEF Init, OrphanIndexExact
<1>3. Limited
  BY FS_EmptySet, OrphanTxAssumption DEF OrphanTxAssumption, Init, Limited
<1> QED BY <1>1, <1>2, <1>3 DEF OrphanTxInv, Init, QueuesInUse, Pending

\* The message "tx".
LEMMA ReceiveTxKeeps == ASSUME OrphanTxInv, NEW t \in Tx, ReceiveTx(t) PROVE OrphanTxInv'
<1> USE DEF OrphanTxInv
<1>0. /\ pc = "idle" /\ UNCHANGED <<confirmed, spent, untried>>
      /\ vWorkQueue = <<>> /\ vEraseQueue = {} /\ todo = {}
      /\ \A u \in mapOrphanTransactions : InputsThere(u) => u \in untried
      /\ MAX_ORPHAN_TRANSACTIONS \in Nat
      /\ Cardinality(mapOrphanTransactions) \in Nat
  <2>1. Cardinality(mapOrphanTransactions) \in Nat
    BY FS_CardinalityType DEF Limited
  <2>2. pc = "idle" /\ vWorkQueue = <<>> /\ vEraseQueue = {} /\ todo = {}
    BY DEF ReceiveTx, QueuesInUse
  <2>3. 2..Len(vWorkQueue) = {}
    BY <2>2
  <2> QED BY <2>1, <2>2, <2>3, OrphanTxAssumption DEF ReceiveTx, index, Pending, OrphanTxAssumption
<1>1. CASE /\ Accept(t)
           /\ vWorkQueue' = <<t>> /\ vEraseQueue' = {t}
           /\ todo' = mapOrphanTransactionsByPrev[t]
           /\ pc' = "work"
           /\ UNCHANGED orphans
  <2>1. mempool' \in Pool /\ mempool'.mapTx = mempool.mapTx \cup {t}
    BY <1>1, AddUnchecked DEF Accept, TypeOK
  <2>2. todo' = {u \in mapOrphanTransactions : t \in Parents(u)}
    BY <1>1 DEF OrphanIndexExact
  <2>3. TypeOK'
    BY <1>0, <1>1, <2>1, <2>2 DEF TypeOK, orphans
  <2>4. Pending'
    BY <1>0, <1>1, <2>1, <2>2 DEF Pending, InputsThere, orphans, Parents
  <2>5. OrphanIndexExact' /\ Limited'
    BY <1>0, <1>1 DEF OrphanIndexExact, Limited, orphans, Parents
  <2> QED BY <1>1, <2>3, <2>4, <2>5 DEF QueuesInUse
<1>2. CASE /\ MissingInputs(t)
           /\ AddOrphanTx(t)
           /\ pc' = "full"
           /\ UNCHANGED <<mempool, vWorkQueue, vEraseQueue, todo>>
  <2>1. /\ mapOrphanTransactions' \subseteq mapOrphanTransactions \cup {t}
        /\ mapOrphanTransactions' \subseteq Tx
        /\ mapOrphanTransactionsByPrev' \in [Tx -> SUBSET Tx]
        /\ OrphanIndexExact'
        /\ IsFiniteSet(mapOrphanTransactions')
        /\ Cardinality(mapOrphanTransactions') <= Cardinality(mapOrphanTransactions) + 1
    BY <1>2, AddOrphanTxKeeps DEF Limited
  <2>2. Cardinality(mapOrphanTransactions') \in Nat
    BY <2>1, FS_CardinalityType
  <2>3. Limited'
    BY <1>0, <1>2, <2>1, <2>2 DEF Limited
  <2>4. ~InputsThere(t)
    BY <1>2 DEF MissingInputs
  <2>5. Pending'
    BY <1>0, <1>2, <2>1, <2>4 DEF Pending, InputsThere, Parents
  <2>6. TypeOK'
    BY <1>0, <1>2, <2>1 DEF TypeOK
  <2> QED BY <1>0, <1>2, <2>1, <2>3, <2>5, <2>6 DEF QueuesInUse
<1>3. CASE UNCHANGED <<mempool, orphans, handler>>
  BY <1>0, <1>3 DEF orphans, handler, TypeOK, OrphanIndexExact, Limited, QueuesInUse, Pending,
                    InputsThere, Parents
<1> QED BY <1>1, <1>2, <1>3 DEF ReceiveTx

\* LimitOrphanTxSize.
LEMMA LimitOrphanTxSizeKeeps == ASSUME OrphanTxInv, LimitOrphanTxSize PROVE OrphanTxInv'
<1> USE DEF OrphanTxInv
<1>1. PICK S \in SUBSET mapOrphanTransactions :
        /\ Cardinality(S) = Overflow(Cardinality(mapOrphanTransactions))
        /\ EraseOrphanTxs(S)
  BY DEF LimitOrphanTxSize
<1>2. mapOrphanTransactions \cap S = S
  BY <1>1
<1>3. /\ mapOrphanTransactions' = mapOrphanTransactions \ S
      /\ mapOrphanTransactionsByPrev' \in [Tx -> SUBSET Tx]
      /\ OrphanIndexExact'
      /\ IsFiniteSet(mapOrphanTransactions')
      /\ Cardinality(mapOrphanTransactions') = Cardinality(mapOrphanTransactions) - Cardinality(S)
  BY <1>1, <1>2, EraseOrphanTxsKeeps DEF Limited
<1>4. MAX_ORPHAN_TRANSACTIONS \in Nat /\ Cardinality(mapOrphanTransactions) \in Nat
  BY FS_CardinalityType, OrphanTxAssumption DEF Limited, OrphanTxAssumption
<1>5. Cardinality(mapOrphanTransactions') <= MAX_ORPHAN_TRANSACTIONS
  BY <1>1, <1>3, <1>4 DEF Overflow
<1>6. pc = "full" /\ pc' = "idle" /\ UNCHANGED <<mempool, confirmed, spent, vWorkQueue, vEraseQueue, todo, untried>>
  BY DEF LimitOrphanTxSize, index
<1>7. todo = {} /\ TypeOK'
  BY <1>3, <1>6 DEF TypeOK, QueuesInUse
<1>8. Limited'
  BY <1>3, <1>4, <1>5, <1>6 DEF Limited
<1>9. Pending'
  BY <1>3, <1>6 DEF Pending, InputsThere, Parents
<1> QED BY <1>3, <1>6, <1>7, <1>8, <1>9 DEF QueuesInUse

\* A pass of the inner loop: what the orphan was the last parent of is queued.
LEMMA TryOrphanKeeps == ASSUME OrphanTxInv, TryOrphan PROVE OrphanTxInv'
<1> USE DEF OrphanTxInv
<1>0. /\ pc = "work" /\ pc' = "work"
      /\ UNCHANGED <<confirmed, spent, mapOrphanTransactions, mapOrphanTransactionsByPrev, untried>>
  BY DEF TryOrphan, index, orphans
<1>1. PICK o \in todo :
        /\ \/ /\ Accept(o)
              /\ vWorkQueue' = Queue(o)
              /\ vEraseQueue' = vEraseQueue \cup {o}
           \/ /\ MissingInputs(o)
              /\ UNCHANGED <<mempool, vWorkQueue, vEraseQueue>>
           \/ /\ ~MissingInputs(o)
              /\ vEraseQueue' = vEraseQueue \cup {o}
              /\ UNCHANGED <<mempool, vWorkQueue>>
        /\ todo' = todo \ {o}
  BY DEF TryOrphan
<1>2. o \in Tx /\ vWorkQueue \in Seq(Tx)
  BY <1>1 DEF TypeOK
<1>3. OrphanIndexExact' /\ Limited'
  BY <1>0 DEF OrphanIndexExact, Limited, Parents
<1>4. CASE Accept(o) /\ vWorkQueue' = Queue(o) /\ vEraseQueue' = vEraseQueue \cup {o}
  <2>1. mempool' \in Pool /\ mempool'.mapTx = mempool.mapTx \cup {o}
    BY <1>2, <1>4, AddUnchecked DEF Accept, TypeOK
  <2>2. /\ vWorkQueue' \in Seq(Tx) /\ Len(vWorkQueue') = Len(vWorkQueue) + 1
        /\ Len(vWorkQueue) \in Nat /\ Len(vWorkQueue) >= 1
        /\ vWorkQueue'[Len(vWorkQueue) + 1] = o
        /\ \A i \in 1..Len(vWorkQueue) : vWorkQueue'[i] = vWorkQueue[i]
    BY <1>0, <1>2, <1>4 DEF Queue, QueuesInUse
  <2>3. TypeOK'
    BY <1>0, <1>1, <1>2, <1>4, <2>1, <2>2 DEF TypeOK
  <2>4. ASSUME NEW u \in mapOrphanTransactions \ vEraseQueue',
               Parents(u) \subseteq confirmed \cup mempool'.mapTx
        PROVE  u \in untried \cup todo' \/ \E i \in 2..Len(vWorkQueue') : vWorkQueue'[i] \in Parents(u)
    <3>1. CASE o \in Parents(u)
      BY <2>2, <3>1
    <3>2. CASE o \notin Parents(u)
      <4>1. u \in untried \cup todo \/ \E i \in 2..Len(vWorkQueue) : vWorkQueue[i] \in Parents(u)
        BY <1>4, <2>1, <2>4, <3>2 DEF Pending, InputsThere
      <4> QED BY <1>1, <1>4, <2>2, <2>4, <4>1
    <3> QED BY <3>1, <3>2
  <2>5. Pending'
    BY <1>0, <2>4 DEF Pending, InputsThere, Parents
  <2> QED BY <1>0, <1>3, <2>2, <2>3, <2>5 DEF QueuesInUse
<1>5. CASE MissingInputs(o) /\ UNCHANGED <<mempool, vWorkQueue, vEraseQueue>>
  <2>1. ~InputsThere(o)
    BY <1>5 DEF MissingInputs
  <2>2. Pending'
    BY <1>0, <1>1, <1>5, <2>1 DEF Pending, InputsThere, Parents
  <2> QED BY <1>0, <1>1, <1>3, <1>5, <2>2 DEF QueuesInUse, TypeOK
<1>6. CASE vEraseQueue' = vEraseQueue \cup {o} /\ UNCHANGED <<mempool, vWorkQueue>>
  <2>1. Pending'
    BY <1>0, <1>1, <1>6 DEF Pending, InputsThere, Parents
  <2> QED BY <1>0, <1>1, <1>2, <1>3, <1>6, <2>1 DEF QueuesInUse, TypeOK
<1> QED BY <1>1, <1>4, <1>5, <1>6

\* A pass of the outer loop: the children of the next in the queue are at hand.
LEMMA NextInQueueKeeps == ASSUME OrphanTxInv, NextInQueue PROVE OrphanTxInv'
<1> USE DEF OrphanTxInv
<1>0. /\ pc = "work" /\ todo = {} /\ Len(vWorkQueue) > 1 /\ vWorkQueue \in Seq(Tx)
      /\ vWorkQueue' = Tail(vWorkQueue)
      /\ todo' = mapOrphanTransactionsByPrev[Head(vWorkQueue')]
      /\ UNCHANGED <<mempool, confirmed, spent, mapOrphanTransactions, mapOrphanTransactionsByPrev,
                     pc, vEraseQueue, untried>>
  BY DEF NextInQueue, TypeOK, index, orphans
<1>1. /\ vWorkQueue' \in Seq(Tx) /\ Len(vWorkQueue') = Len(vWorkQueue) - 1
      /\ Len(vWorkQueue) \in Nat /\ vWorkQueue' # <<>>
      /\ \A i \in 1..Len(vWorkQueue') : vWorkQueue'[i] = vWorkQueue[i + 1]
  <2>1. /\ vWorkQueue' \in Seq(Tx) /\ Len(vWorkQueue') = Len(vWorkQueue) - 1
        /\ \A i \in 1..Len(vWorkQueue') : vWorkQueue'[i] = vWorkQueue[i + 1]
    BY <1>0, HeadTailProperties
  <2>2. Len(<<>>) = 0 /\ Len(vWorkQueue) - 1 # 0 /\ Len(vWorkQueue) \in Nat
    BY <1>0
  <2>3. vWorkQueue' # <<>>
    BY <2>1, <2>2, Zenon
  <2> QED BY <2>1, <2>2, <2>3
<1>2. Head(vWorkQueue') = vWorkQueue[2] /\ vWorkQueue[2] \in Tx
  BY <1>0, <1>1
<1>3. todo' = {u \in mapOrphanTransactions : vWorkQueue[2] \in Parents(u)}
  BY <1>0, <1>2 DEF OrphanIndexExact
<1>4. ASSUME NEW u \in mapOrphanTransactions \ vEraseQueue, InputsThere(u), u \notin untried
      PROVE  u \in todo' \/ \E i \in 2..Len(vWorkQueue') : vWorkQueue'[i] \in Parents(u)
  <2>1. PICK i \in 2..Len(vWorkQueue) : vWorkQueue[i] \in Parents(u)
    BY <1>0, <1>4 DEF Pending
  <2>2. CASE i = 2
    BY <1>3, <2>1, <2>2
  <2>3. CASE i # 2
    <3>1. i - 1 \in 2..Len(vWorkQueue') /\ vWorkQueue'[i - 1] = vWorkQueue[i]
      BY <1>1, <2>1, <2>3
    <3> QED BY <2>1, <3>1
  <2> QED BY <2>2, <2>3
<1>5. Pending'
  BY <1>0, <1>4 DEF Pending, InputsThere, Parents
<1>6. TypeOK'
  BY <1>0, <1>1, <1>3 DEF TypeOK
<1> QED BY <1>0, <1>1, <1>5, <1>6 DEF QueuesInUse, OrphanIndexExact, Limited, Parents

\* The end of the handler: what is left waits for a parent.
LEMMA EraseQueueKeeps == ASSUME OrphanTxInv, EraseQueue PROVE OrphanTxInv'
<1> USE DEF OrphanTxInv
<1>0. /\ pc = "work" /\ todo = {} /\ Len(vWorkQueue) = 1
      /\ EraseOrphanTxs(vEraseQueue)
      /\ vWorkQueue' = <<>> /\ vEraseQueue' = {} /\ pc' = "idle"
      /\ UNCHANGED <<mempool, confirmed, spent, todo, untried>>
  BY DEF EraseQueue, index
<1>1. /\ mapOrphanTransactions' = mapOrphanTransactions \ vEraseQueue
      /\ mapOrphanTransactionsByPrev' \in [Tx -> SUBSET Tx]
      /\ OrphanIndexExact'
      /\ IsFiniteSet(mapOrphanTransactions')
  BY <1>0, EraseOrphanTxsKeeps, Zenon DEF Limited
<1>2. Cardinality(mapOrphanTransactions') <= Cardinality(mapOrphanTransactions)
  BY <1>1, FS_Subset DEF Limited
<1>3. Cardinality(mapOrphanTransactions') \in Nat /\ Cardinality(mapOrphanTransactions) \in Nat
      /\ MAX_ORPHAN_TRANSACTIONS \in Nat
  BY <1>1, FS_CardinalityType, OrphanTxAssumption DEF Limited, OrphanTxAssumption
<1>4. Limited'
  BY <1>0, <1>1, <1>2, <1>3 DEF Limited
<1>5. \A u \in mapOrphanTransactions' : InputsThere(u) => u \in untried
  <2>1. 2..Len(vWorkQueue) = {}
    BY <1>0
  <2> QED BY <1>0, <1>1, <2>1 DEF Pending
<1>6. Pending'
  BY <1>0, <1>5 DEF Pending, InputsThere, Parents
<1>7. TypeOK'
  BY <1>0, <1>1 DEF TypeOK
<1> QED BY <1>0, <1>1, <1>4, <1>6, <1>7 DEF QueuesInUse

\* What changes the pool or the chain without the handler.
LEMMA SilentKeeps ==
    ASSUME OrphanTxInv, NoteUntried, pc \in {"idle", "disconnect", "connect"},
           pc' \in {"idle", "disconnect", "connect"}, mempool' \in Pool,
           confirmed' \subseteq Tx, spent' \subseteq OutPoint,
           UNCHANGED <<orphans, vWorkQueue, vEraseQueue, todo>>
    PROVE  OrphanTxInv'
<1> USE DEF OrphanTxInv, orphans
<1>1. vWorkQueue = <<>> /\ vEraseQueue = {} /\ todo = {} /\ 2..Len(vWorkQueue) = {}
  BY DEF QueuesInUse
<1>2. untried' = {t \in mapOrphanTransactions :
                    InputsThere(t)' /\ (t \in untried \/ ~InputsThere(t))}
  BY DEF NoteUntried
<1>3. TypeOK'
  BY <1>2 DEF TypeOK
<1>4. ASSUME NEW t \in mapOrphanTransactions, InputsThere(t)'
      PROVE  t \in untried'
  <2>1. InputsThere(t) => t \in untried
    BY <1>1 DEF Pending
  <2> QED BY <1>2, <1>4, <2>1
<1>5. Pending'
  BY <1>4 DEF Pending
<1>6. QueuesInUse'
  BY <1>1 DEF QueuesInUse
<1> QED BY <1>3, <1>5, <1>6 DEF OrphanIndexExact, Limited, Parents

\* The wallet's and sendrawtransaction's transactions.
LEMMA AcceptLocalTxKeeps == ASSUME OrphanTxInv, NEW t \in Tx, AcceptLocalTx(t) PROVE OrphanTxInv'
<1>1. mempool' \in Pool
  BY AddUnchecked DEF AcceptLocalTx, Accept, OrphanTxInv, TypeOK
<1> QED BY <1>1, SilentKeeps DEF AcceptLocalTx, index, handler, OrphanTxInv, TypeOK

\* The effect of ConnectBlock on the transaction index.
LEMMA ConnectBlockType ==
    ASSUME TypeOK, NEW t \in Tx, ConnectBlock(t)
    PROVE  confirmed' \subseteq Tx /\ spent' \subseteq OutPoint
BY DEF ConnectBlock, TypeOK, OutPoint

\* A block takes transactions out of the pool, ...
LEMMA ConnectTxKeeps == ASSUME OrphanTxInv, NEW t \in Tx, ConnectTx(t) PROVE OrphanTxInv'
<1>1. mempool' \in Pool
  BY RemoveIsPool DEF ConnectTx, OrphanTxInv, TypeOK
<1> QED BY <1>1, ConnectBlockType, SilentKeeps DEF ConnectTx, handler, OrphanTxInv

\* ... and a reorganisation puts some back and takes others out.
LEMMA ReorganizeKeeps ==
    ASSUME OrphanTxInv, NEW t \in Tx, DisconnectTx(t) \/ ReconnectTx(t)
    PROVE  OrphanTxInv'
<1>0. TypeOK
  BY DEF OrphanTxInv
<1>1. CASE DisconnectTx(t)
  <2>1. mempool' \in Pool /\ confirmed' \subseteq Tx /\ spent' \subseteq OutPoint
    BY <1>0, <1>1, AcceptUncheckedIsPool DEF DisconnectTx, TypeOK
  <2> QED BY <1>1, <2>1, SilentKeeps DEF DisconnectTx
<1>2. CASE ReconnectTx(t)
  <2>1. mempool' \in Pool
    BY <1>0, <1>2, RemoveIsPool DEF ReconnectTx, TypeOK
  <2>2. confirmed' \subseteq Tx /\ spent' \subseteq OutPoint
    BY <1>0, <1>2, ConnectBlockType DEF ReconnectTx
  <2> QED BY <1>2, <2>1, <2>2, SilentKeeps DEF ReconnectTx
<1> QED BY <1>1, <1>2

\* The reorganisation is over.
LEMMA ReorganizedKeeps == ASSUME OrphanTxInv, Reorganized PROVE OrphanTxInv'
BY DEF Reorganized, index, orphans, OrphanTxInv, TypeOK, OrphanIndexExact, Limited, QueuesInUse,
       Pending, InputsThere, Parents

\* The invariant holds throughout.
LEMMA OrphanTxInvHolds == Spec => []OrphanTxInv
<1>1. OrphanTxInv /\ [Next]_vars => OrphanTxInv'
  <2> SUFFICES ASSUME OrphanTxInv, [Next]_vars PROVE OrphanTxInv'
    OBVIOUS
  <2>1. CASE UNCHANGED vars
    BY <2>1 DEF vars, index, orphans, handler, OrphanTxInv, TypeOK, OrphanIndexExact, Limited,
                QueuesInUse, Pending, InputsThere, Parents
  <2> QED BY <2>1, ReceiveTxKeeps, AcceptLocalTxKeeps, ConnectTxKeeps, ReorganizeKeeps,
             ReorganizedKeeps, LimitOrphanTxSizeKeeps, TryOrphanKeeps, NextInQueueKeeps,
             EraseQueueKeeps DEF Next
<1> QED BY <1>1, InitOrphanTx, PTL DEF Spec

-----------------------------------------------------------------------------
\* The index by parent and the queues of the handler hold transactions only, and
\* what is still to be tried is an orphan.
THEOREM TypeCorrect == Spec => []TypeOK
<1>1. OrphanTxInv => TypeOK
  BY DEF OrphanTxInv
<1> QED BY <1>1, OrphanTxInvHolds, PTL

\* AddOrphanTx and EraseOrphanTx keep mapOrphanTransactionsByPrev exact: no
\* stale hash in it for the handler to look up, no orphan it would not find.
THEOREM OrphanIndexExactHolds == Spec => []OrphanIndexExact
<1>1. OrphanTxInv => OrphanIndexExact
  BY DEF OrphanTxInv
<1> QED BY <1>1, OrphanTxInvHolds, PTL

\* LimitOrphanTxSize keeps the orphans within MAX_ORPHAN_TRANSACTIONS.
THEOREM OrphansBoundedHolds == Spec => []OrphansBounded
<1>1. OrphanTxInv => OrphansBounded
  BY OrphanTxAssumption DEF OrphanTxInv, Limited, OrphansBounded, OrphanTxAssumption
<1> QED BY <1>1, OrphanTxInvHolds, PTL

\* The message "tx" leaves no orphan behind that it brought the last input of,
\* however deep the orphans depend on each other and in whatever order they
\* came; an orphan whose inputs are all there got the last of them otherwise.
THEOREM OrphansWaitForParentsHolds == Spec => []OrphansWaitForParents
<1>1. OrphanTxInv => OrphansWaitForParents
  <2> SUFFICES ASSUME OrphanTxInv, pc = "idle"
               PROVE  \A t \in mapOrphanTransactions : InputsThere(t) => t \in untried
    BY DEF OrphansWaitForParents
  <2>1. vEraseQueue = {} /\ todo = {} /\ vWorkQueue = <<>>
    BY DEF OrphanTxInv, QueuesInUse
  <2>2. 2..Len(vWorkQueue) = {}
    BY <2>1
  <2> QED BY <2>1, <2>2 DEF OrphanTxInv, Pending
<1> QED BY <1>1, OrphanTxInvHolds, PTL

=============================================================================
