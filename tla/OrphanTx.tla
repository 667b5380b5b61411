------------------------------- MODULE OrphanTx -------------------------------
(***************************************************************************)
(* Loose transactions that arrive before the ones they spend: the message  *)
(* "tx" of ProcessMessage (main.cpp), the orphan transactions and their    *)
(* index by parent.  What SyncWithWallets makes of them is the wallets'.   *)
(*                                                                         *)
(* The handler runs under cs_main; its steps are the passes of its loops.  *)
(* Between two messages transactions get into the pool and the chain by    *)
(* other ways: a block that is connected confirms them, whether or not     *)
(* they were loose, a reorganisation makes them loose again, and the       *)
(* wallet and sendrawtransaction add their own.  The chain itself is in    *)
(* BestChain, here it is the set of confirmed transactions and of the      *)
(* outputs they spend.                                                     *)
(* An entry of mapOrphanTransactionsByPrev that is empty is not told apart *)
(* from one that is not there.                                             *)
(***************************************************************************)
EXTENDS MemPool, FiniteSets

CONSTANTS
    Coins,                      \* transactions confirmed from the start
    Large,                      \* transactions of more than 5000 bytes
    MAX_ORPHAN_TRANSACTIONS

ASSUME OrphanTxAssumption ==
    /\ Coins \subseteq Tx /\ Large \subseteq Tx
    /\ MAX_ORPHAN_TRANSACTIONS \in Nat

VARIABLES
    mempool,
    confirmed, spent,               \* what the transaction index says
    mapOrphanTransactions,
    mapOrphanTransactionsByPrev,
    pc,
    vWorkQueue, vEraseQueue,
    todo,                           \* orphan children of the head of the queue still to be tried
    untried                         \* history: orphans whose last input came without the handler

index == <<confirmed, spent>>
orphans == <<mapOrphanTransactions, mapOrphanTransactionsByPrev>>
handler == <<pc, vWorkQueue, vEraseQueue, todo>>
vars == <<mempool, index, orphans, handler, untried>>

\* Every variable has its type.
TypeOK ==
    /\ mempool \in Pool
    /\ confirmed \subseteq Tx /\ spent \subseteq OutPoint
    /\ mapOrphanTransactions \subseteq Tx
    /\ mapOrphanTransactionsByPrev \in [Tx -> SUBSET Tx]
    /\ pc \in {"idle", "work", "full", "disconnect", "connect"}
    /\ vWorkQueue \in Seq(Tx) /\ vEraseQueue \subseteq Tx /\ todo \subseteq mapOrphanTransactions
    /\ untried \subseteq Tx

Init ==
    /\ mempool = EmptyPool
    /\ confirmed = Coins /\ spent = {}
    /\ mapOrphanTransactions = {}
    /\ mapOrphanTransactionsByPrev = [t \in Tx |-> {}]
    /\ pc = "idle"
    /\ vWorkQueue = <<>> /\ vEraseQueue = {} /\ todo = {} /\ untried = {}

-----------------------------------------------------------------------------
Parents(t) == {o[1] : o \in vin[t]}

\* What FetchInputs asks for.
InputsThere(t) == Parents(t) \subseteq confirmed \cup mempool.mapTx

\* accept gets as far as FetchInputs, and one of the inputs is not there.
MissingInputs(t) ==
    /\ NoConflictInPool(mempool, t) /\ t \notin confirmed
    /\ ~InputsThere(t)

\* accept with fCheckInputs = true may succeed.  It also refuses transactions
\* with a low fee now and then, so each of these may fail as well.
MayAcceptTx(t) ==
    /\ NoConflictInPool(mempool, t) /\ t \notin confirmed
    /\ InputsThere(t)
    /\ \A o \in vin[t] : o[2] \in 1..nOut[o[1]] /\ o \notin spent

Accept(t) ==
    /\ MayAcceptTx(t)
    /\ mempool' = addUnchecked(mempool, t)

AddOrphanTx(t) ==
    IF t \in mapOrphanTransactions \/ t \in Large THEN UNCHANGED orphans
    ELSE /\ mapOrphanTransactions' = mapOrphanTransactions \cup {t}
         /\ mapOrphanTransactionsByPrev' =
              [p \in Tx |-> mapOrphanTransactionsByPrev[p] \cup (IF p \in Parents(t) THEN {t} ELSE {})]

\* Orphans that are forgotten but stay in the index by parent.
EraseOrphanTxsKeepsIndex(S) ==
    mapOrphanTransactions' = mapOrphanTransactions \ S /\ UNCHANGED mapOrphanTransactionsByPrev

\* EraseOrphanTx for each transaction of S.
EraseOrphanTxs(S) ==
    LET known == S \cap mapOrphanTransactions
    IN  /\ mapOrphanTransactions' = mapOrphanTransactions \ known
        /\ mapOrphanTransactionsByPrev' =
             [p \in Tx |-> mapOrphanTransactionsByPrev[p] \ {t \in known : p \in Parents(t)}]

\* An eviction that leaves one orphan too many.
OverflowOneMore(n) == IF n > MAX_ORPHAN_TRANSACTIONS + 1 THEN n - MAX_ORPHAN_TRANSACTIONS - 1 ELSE 0

Overflow(n) == IF n > MAX_ORPHAN_TRANSACTIONS THEN n - MAX_ORPHAN_TRANSACTIONS ELSE 0

-----------------------------------------------------------------------------
\* The message "tx": t is accepted and its orphans come next, or it becomes an
\* orphan itself, or it is refused.
ReceiveTx(t) ==
    /\ pc = "idle"
    /\ \/ /\ Accept(t)
          /\ vWorkQueue' = <<t>> /\ vEraseQueue' = {t}
          /\ todo' = mapOrphanTransactionsByPrev[t]
          /\ pc' = "work"
          /\ UNCHANGED orphans
       \/ /\ MissingInputs(t)
          /\ AddOrphanTx(t)
          /\ pc' = "full"
          /\ UNCHANGED <<mempool, vWorkQueue, vEraseQueue, todo>>
       \/ /\ ~MissingInputs(t)
          /\ UNCHANGED <<mempool, orphans, handler>>
    /\ UNCHANGED <<index, untried>>

\* LimitOrphanTxSize evicts orphans at random.
LimitOrphanTxSize ==
    /\ pc = "full"
    /\ \E S \in SUBSET mapOrphanTransactions :
         /\ Cardinality(S) = Overflow(Cardinality(mapOrphanTransactions))
         /\ EraseOrphanTxs(S)
    /\ pc' = "idle"
    /\ UNCHANGED <<mempool, index, vWorkQueue, vEraseQueue, todo, untried>>

\* An orphan that was accepted has orphans of its own.
QueueNone(o) == vWorkQueue

Queue(o) == Append(vWorkQueue, o)

\* One pass of the inner loop: an orphan is accepted, still misses inputs, or
\* is invalid.
TryOrphan ==
    /\ pc = "work"
    /\ \E o \in todo :
         /\ \/ /\ Accept(o)
               /\ vWorkQueue' = Queue(o)
               /\ vEraseQueue' = vEraseQueue \cup {o}
            \/ /\ MissingInputs(o)
               /\ UNCHANGED <<mempool, vWorkQueue, vEraseQueue>>
            \/ /\ ~MissingInputs(o)
               /\ vEraseQueue' = vEraseQueue \cup {o}
               /\ UNCHANGED <<mempool, vWorkQueue>>
         /\ todo' = todo \ {o}
    /\ UNCHANGED <<index, orphans, pc, untried>>

\* One pass of the outer loop ends.
NextInQueue ==
    /\ pc = "work" /\ todo = {} /\ Len(vWorkQueue) > 1
    /\ vWorkQueue' = Tail(vWorkQueue)
    /\ todo' = mapOrphanTransactionsByPrev[Head(vWorkQueue')]
    /\ UNCHANGED <<mempool, index, orphans, pc, vEraseQueue, untried>>

EraseQueue ==
    /\ pc = "work" /\ todo = {} /\ Len(vWorkQueue) = 1
    /\ EraseOrphanTxs(vEraseQueue)
    /\ vWorkQueue' = <<>> /\ vEraseQueue' = {} /\ pc' = "idle"
    /\ UNCHANGED <<mempool, index, todo, untried>>

-----------------------------------------------------------------------------
(* Everything else that changes the pool; none of it looks at the orphans. *)

\* The orphans that now have all of their inputs and are not tried for it.
NoteUntried ==
    untried' = {t \in mapOrphanTransactions : InputsThere(t)' /\ (t \in untried \/ ~InputsThere(t))}

\* sendrawtransaction, CommitTransaction and ReacceptWalletTransactions.
AcceptLocalTx(t) ==
    /\ pc = "idle"
    /\ Accept(t)
    /\ UNCHANGED <<index, orphans, handler>>
    /\ NoteUntried

\* ConnectBlock, for a block with t.
ConnectBlock(t) ==
    /\ t \notin confirmed /\ Parents(t) \subseteq confirmed
    /\ \A o \in vin[t] : o[2] \in 1..nOut[o[1]] /\ o \notin spent
    /\ confirmed' = confirmed \cup {t}
    /\ spent' = spent \cup vin[t]

\* A block with t is added to the best chain: SetBestChainInner removes t, but
\* not what conflicts with it, from the pool.
ConnectTx(t) ==
    /\ pc = "idle"
    /\ ConnectBlock(t)
    /\ mempool' = remove(mempool, t)
    /\ NoteUntried
    /\ UNCHANGED <<orphans, handler>>

\* Reorganize, one transaction after the other: those of the old branch, from
\* the tip down, are loose again, ...
DisconnectTx(t) ==
    /\ pc \in {"idle", "disconnect"}
    /\ t \in confirmed \ Coins /\ \A u \in confirmed : t \notin Parents(u)
    /\ confirmed' = confirmed \ {t}
    /\ spent' = spent \ vin[t]
    /\ mempool' = acceptUnchecked(mempool, t)
    /\ pc' = "disconnect"
    /\ NoteUntried
    /\ UNCHANGED <<orphans, vWorkQueue, vEraseQueue, todo>>

\* ... and those of the new branch leave the pool with what conflicts with them.
ReconnectTx(t) ==
    /\ pc \in {"disconnect", "connect"}
    /\ ConnectBlock(t)
    /\ mempool' = removeConflicts(remove(mempool, t), t)
    /\ pc' = "connect"
    /\ NoteUntried
    /\ UNCHANGED <<orphans, vWorkQueue, vEraseQueue, todo>>

Reorganized ==
    /\ pc \in {"disconnect", "connect"}
    /\ pc' = "idle"
    /\ UNCHANGED <<mempool, index, orphans, vWorkQueue, vEraseQueue, todo, untried>>

Next ==
    \/ \E t \in Tx : \/ ReceiveTx(t) \/ AcceptLocalTx(t)
                     \/ ConnectTx(t) \/ DisconnectTx(t) \/ ReconnectTx(t)
    \/ LimitOrphanTxSize \/ TryOrphan \/ NextInQueue \/ EraseQueue \/ Reorganized

Spec == Init /\ [][Next]_vars

-----------------------------------------------------------------------------
(* Properties.                                                             *)

\* Between two steps the index by parent has each orphan under all of its
\* parents and nothing else: the handler looks the transactions up in
\* mapOrphanTransactions[...], which would make an empty one of a stale hash.
OrphanIndexExact ==
    \A p \in Tx : mapOrphanTransactionsByPrev[p] = {t \in mapOrphanTransactions : p \in Parents(t)}

\* No more than MAX_ORPHAN_TRANSACTIONS wait between two messages.
OrphansBounded ==
    pc = "idle" => Cardinality(mapOrphanTransactions) <= MAX_ORPHAN_TRANSACTIONS

\* "Recursively process any orphan transactions that depended on this one": an
\* orphan whose inputs are all there is left only if the last of them came by
\* a block, a reorganisation or from this node.  Whatever the message "tx"
\* brought the last input of, directly or through other orphans, was tried.
OrphansWaitForParents ==
    pc = "idle" => \A t \in mapOrphanTransactions : InputsThere(t) => t \in untried

\* The same without the exception: refuted, nobody tries the orphans of a
\* transaction that comes in a block or from this node.
NoOrphanLeft ==
    pc = "idle" => \A t \in mapOrphanTransactions : ~InputsThere(t)
=============================================================================
