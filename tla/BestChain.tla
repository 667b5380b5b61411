------------------------------ MODULE BestChain ------------------------------
(***************************************************************************)
(* How the node chooses its best chain (main.cpp: AddToBlockIndex,         *)
(* SetBestChain, SetBestChainInner, Reorganize, ConnectBlock,              *)
(* DisconnectBlock) and how it finds it again after a restart              *)
(* (txdb-leveldb.cpp: LoadBlockIndex).                                     *)
(*                                                                         *)
(* All of this runs under cs_main, so the only interleaving is with a      *)
(* crash of the process, which may fall between any two database commits   *)
(* and, inside a reorganisation, between any two blocks.  The vectors      *)
(* vDisconnect, vConnect and vpindexSecondary are paths of the block tree: *)
(* a cursor walks them instead of a copy of the list.                      *)
(***************************************************************************)
EXTENDS MemPool

CONSTANTS
    Absent,             \* no record of the block in the database
    TotalBlocksEstimate,\* Checkpoints::GetTotalBlocksEstimate()
    Checkpointed,       \* blocks a sync-checkpoint may force as the best chain
    Suspect,            \* blocks LoadBlockIndex may find bad and step back from
    Crashes, IOFaults   \* whether the process may die, whether a commit may fail

ASSUME ControlAssumption ==
    /\ Absent \notin Block \cup {NULL}
    /\ TotalBlocksEstimate \in Nat
    /\ Checkpointed \subseteq Block /\ Suspect \subseteq Block
    /\ Crashes \in BOOLEAN /\ IOFaults \in BOOLEAN

VARIABLES
    mapBlockIndex,      \* blocks in the memory index
    pnext,              \* block -> pnext of its memory index entry
    pindexBest,         \* the best block in memory
    mempool,
    nBestInvalidTrust,  \* in memory and, written through at once, on disk
    pdb,                \* the database: block records, hashBestChain, tx index
    batch,              \* the database as the open transaction of Reorganize sees it
    pc,                 \* where SetBestChain is, or "idle", or "down"
    pindexNew,          \* the argument of SetBestChain
    pindexIntermediate, \* the block Reorganize switches to
    pfork,              \* the fork Reorganize found
    cursor,             \* the block the batch or the database stands at
    postponedFailed     \* history: a postponed reconnect has been given up

index == <<mapBlockIndex, pdb, batch>>
control == <<pindexNew, pindexIntermediate, pfork, cursor>>
vars == <<mapBlockIndex, pnext, pindexBest, mempool, nBestInvalidTrust, pdb, batch,
          pc, control, postponedFailed>>

TxIndexEntry(t) == [pos : Block, vSpent : [1..nOut[t] -> (Block \X Tx) \cup {NULL}]]

Database ==
    {db \in [diskindex : [Block -> Block \cup {NULL, Absent}],
             hashBestChain : Block,
             txindex : [Tx -> (UNION {TxIndexEntry(t) : t \in Tx}) \cup {NULL}]] :
        \A t \in Tx : db.txindex[t] \in TxIndexEntry(t) \cup {NULL}}

TypeOK ==
    /\ mapBlockIndex \subseteq Block
    /\ pnext \in [Block -> Block \cup {NULL}]
    /\ pindexBest \in Block
    /\ nBestInvalidTrust \in Nat
    /\ pdb \in Database
    /\ batch \in Database \cup {NULL}
    /\ pc \in {"idle", "SetBestChain", "disconnect", "connect", "secondary", "down"}
    /\ {pindexNew, pindexIntermediate, pfork, cursor} \subseteq Block
    /\ postponedFailed \in BOOLEAN

Init ==
    /\ mapBlockIndex = {Genesis}
    /\ pnext = [b \in Block |-> NULL]
    /\ pindexBest = Genesis
    /\ mempool = EmptyPool
    /\ nBestInvalidTrust = 0
    /\ pdb = [diskindex |-> [b \in Block |-> IF b = Genesis THEN NULL ELSE Absent],
              hashBestChain |-> Genesis,
              txindex |-> [t \in Tx |-> NULL]]
    /\ batch = NULL
    /\ pc = "idle"
    /\ pindexNew = Genesis /\ pindexIntermediate = Genesis
    /\ pfork = Genesis /\ cursor = Genesis
    /\ postponedFailed = FALSE

-----------------------------------------------------------------------------
(* ConnectBlock and DisconnectBlock on a view db of the database.          *)

\* Where the block makes transaction t, and where it spends an outpoint.
MadeAt(b, t) == {i \in DOMAIN vtx[b] : vtx[b][i] = t}
SpentAt(b, o) == {i \in DOMAIN vtx[b] : o \in vin[vtx[b][i]]}

\* BIP30: an indexed transaction may be overwritten only once completely spent.
Overwrites(db, t) ==
    db.txindex[t] # NULL /\ \E n \in 1..nOut[t] : db.txindex[t].vSpent[n] = NULL

\* FetchInputs and ConnectInputs for input o of the i-th transaction: the
\* queued changes of the block hide the index of the view.
InputOK(db, b, i, o) ==
    LET made == {j \in MadeAt(b, o[1]) : j < i}
        entry == IF made # {} THEN [pos |-> b, vSpent |-> [n \in 1..nOut[o[1]] |-> NULL]]
                 ELSE db.txindex[o[1]]
    IN  /\ entry # NULL
        /\ o[2] \in 1..nOut[o[1]]
        /\ o[1] \in Generated => ~Immature(b, entry.pos)
        /\ entry.vSpent[o[2]] = NULL
        /\ \A k \in SpentAt(b, o) : k < i => \E j \in made : k < j

ConnectableUnlessSpent(db, b) ==
    /\ b \notin Rejected
    /\ \A i \in DOMAIN vtx[b] :
         /\ ~Overwrites(db, vtx[b][i])
         /\ \A o \in vin[vtx[b][i]] : db.txindex[o[1]] # NULL \/ MadeAt(b, o[1]) # {}

Connectable(db, b) ==
    /\ b \notin Rejected
    /\ \A i \in DOMAIN vtx[b] :
         /\ ~Overwrites(db, vtx[b][i])
         /\ \A o \in vin[vtx[b][i]] : InputOK(db, b, i, o)

\* The index after the queued changes are written.
ConnectTx(db, b, t) ==
    LET entry == IF MadeAt(b, t) # {}
                   THEN [pos |-> b, vSpent |-> [n \in 1..nOut[t] |-> NULL]]
                   ELSE db.txindex[t]
        spends(n) == {i \in SpentAt(b, <<t, n>>) : \A j \in MadeAt(b, t) : j < i}
    IN  IF entry = NULL THEN NULL
        ELSE [entry EXCEPT !.vSpent = [n \in 1..nOut[t] |->
                IF spends(n) # {} THEN <<b, vtx[b][CHOOSE i \in spends(n) : TRUE]>> ELSE @[n]]]

\* A ConnectBlock that leaves the parent's record alone.
ConnectBlockNoNext(db, b) ==
    [db EXCEPT !.txindex = [t \in Tx |-> ConnectTx(db, b, t)],
               !.diskindex = [@ EXCEPT ![b] = pnext[b]]]

\* The record of b takes its pnext from memory; the parent's record names b.
ConnectBlock(db, b) ==
    [db EXCEPT !.txindex = [t \in Tx |-> ConnectTx(db, b, t)],
               !.diskindex = [@ EXCEPT ![b] = pnext[b], ![hashPrevBlock[b]] = b]]

\* DisconnectInputs fails if the record of an input is gone.
Disconnectable(db, b) ==
    \A i \in DOMAIN vtx[b] : \A o \in vin[vtx[b][i]] :
        /\ db.txindex[o[1]] # NULL
        /\ o[2] \in 1..nOut[o[1]]
        /\ \A j \in MadeAt(b, o[1]) : j < i

\* A DisconnectBlock that erases the block's transactions but does not give
\* their inputs back.
DisconnectBlockKeepsSpent(db, b) ==
    [db EXCEPT !.txindex = [t \in Tx |-> IF MadeAt(b, t) # {} THEN NULL ELSE db.txindex[t]],
               !.diskindex = [@ EXCEPT ![hashPrevBlock[b]] = NULL]]

DisconnectBlock(db, b) ==
    [db EXCEPT !.txindex = [t \in Tx |->
                   IF MadeAt(b, t) # {} \/ db.txindex[t] = NULL THEN NULL
                   ELSE [db.txindex[t] EXCEPT !.vSpent = [n \in 1..nOut[t] |->
                            IF SpentAt(b, <<t, n>>) # {} THEN NULL ELSE @[n]]]],
               !.diskindex = [@ EXCEPT ![hashPrevBlock[b]] = NULL]]

InvalidChainFound(b) ==
    nBestInvalidTrust' =
        IF nChainTrust[b] > nBestInvalidTrust THEN nChainTrust[b] ELSE nBestInvalidTrust

-----------------------------------------------------------------------------
(* The callers of SetBestChain.                                            *)

IsInMainChain(b) == pnext[b] # NULL \/ b = pindexBest

SetBestChain(b) ==
    /\ pc' = "SetBestChain"
    /\ pindexNew' = b
    /\ UNCHANGED <<pindexIntermediate, pfork, cursor>>

\* AcceptBlock of a block whose parent is indexed: AddToBlockIndex commits the
\* record of the block, then asks for the new best chain if it has more trust.
AcceptBlock(b) ==
    /\ pc = "idle"
    /\ b \notin mapBlockIndex
    /\ hashPrevBlock[b] \in mapBlockIndex
    /\ mapBlockIndex' = mapBlockIndex \cup {b}
    /\ pdb' = [pdb EXCEPT !.diskindex[b] = NULL]
    /\ IF nChainTrust[b] > nChainTrust[pindexBest]
         THEN SetBestChain(b)
         ELSE UNCHANGED <<pc, control>>
    /\ UNCHANGED <<pnext, pindexBest, mempool, nBestInvalidTrust, batch, postponedFailed>>

\* ProcessSyncCheckpoint and AcceptPendingSyncCheckpoint switch to the chain of
\* a checkpoint whatever its trust.
SetBestChainToCheckpoint(b) ==
    /\ pc = "idle"
    /\ b \in Checkpointed \cap mapBlockIndex
    /\ ~IsInMainChain(b)
    /\ SetBestChain(b)
    /\ UNCHANGED <<index, pnext, pindexBest, mempool, nBestInvalidTrust, postponedFailed>>

AcceptToMemoryPool(t) ==
    /\ pc = "idle"
    /\ MayAccept(mempool, t, pdb.txindex, pindexBest)
    /\ mempool' = addUnchecked(mempool, t)
    /\ UNCHANGED <<index, pnext, pindexBest, nBestInvalidTrust, pc, control, postponedFailed>>

-----------------------------------------------------------------------------
(* SetBestChain.                                                           *)

\* A SetBestChain that returns without the new best block.
NewBestBlockForgotten ==
    /\ UNCHANGED pindexBest
    /\ pc' = "idle"

\* The end of SetBestChain, from "New best block" on.
NewBestBlock ==
    /\ pindexBest' = pindexNew
    /\ pc' = "idle"

\* SetBestChainInner for b, with the transaction begun just before it.
InnerConnects(b) ==
    /\ Connectable(pdb, b)
    /\ pdb' = [ConnectBlock(pdb, b) EXCEPT !.hashBestChain = b]
    /\ pnext' = [pnext EXCEPT ![hashPrevBlock[b]] = b]
    /\ mempool' = RemoveConnected(mempool, vtx[b])
    /\ UNCHANGED nBestInvalidTrust

\* ConnectBlock fails, on the block or on a read, and the chain is noted as
\* invalid; or the block cannot be read or committed, and it is not.
InnerFails(b) ==
    /\ \/ (~Connectable(pdb, b) \/ IOFaults) /\ InvalidChainFound(b)
       \/ IOFaults /\ UNCHANGED nBestInvalidTrust
    /\ UNCHANGED <<pdb, pnext, mempool>>

\* The new block is a child of the best block.
Extend ==
    /\ pc = "SetBestChain"
    /\ hashPrevBlock[pindexNew] = pindexBest
    /\ \/ InnerConnects(pindexNew) /\ NewBestBlock
       \/ InnerFails(pindexNew) /\ pc' = "idle" /\ UNCHANGED pindexBest
    /\ UNCHANGED <<mapBlockIndex, batch, control, postponedFailed>>

\* The comparison with >= in place of >.
PostponedAtEqualTrust ==
    {b \in Ancestors[pindexNew] \ {Genesis} :
        nChainTrust[hashPrevBlock[b]] >= nChainTrust[pindexBest]}

\* Blocks left for later: those whose parent has more trust than the best block.
Postponed ==
    {b \in Ancestors[pindexNew] \ {Genesis} :
        nChainTrust[hashPrevBlock[b]] > nChainTrust[pindexBest]}

Intermediate ==
    IF Postponed = {} THEN pindexNew
    ELSE hashPrevBlock[CHOOSE b \in Postponed : \A c \in Postponed : nHeight[b] <= nHeight[c]]

\* Another branch takes over: Reorganize finds the fork and opens its batch.
StartReorganize ==
    /\ pc = "SetBestChain"
    /\ hashPrevBlock[pindexNew] # pindexBest
    /\ pindexIntermediate' = Intermediate
    /\ pfork' = ForkOf(pindexBest, pindexIntermediate')
    /\ cursor' = pindexBest
    /\ batch' = pdb
    /\ pc' = IF pindexBest = pfork' THEN "connect" ELSE "disconnect"
    /\ UNCHANGED <<mapBlockIndex, pnext, pindexBest, mempool, nBestInvalidTrust, pdb,
                   pindexNew, postponedFailed>>

\* One block of vDisconnect.
ReorganizeDisconnect ==
    /\ pc = "disconnect"
    /\ Disconnectable(batch, cursor)
    /\ batch' = DisconnectBlock(batch, cursor)
    /\ cursor' = hashPrevBlock[cursor]
    /\ pc' = IF cursor' = pfork THEN "connect" ELSE "disconnect"
    /\ UNCHANGED <<mapBlockIndex, pnext, pindexBest, mempool, nBestInvalidTrust, pdb,
                   pindexNew, pindexIntermediate, pfork, postponedFailed>>

NextConnect == StepTowards(cursor, pindexIntermediate)

\* One block of vConnect.
ReorganizeConnect ==
    /\ pc = "connect"
    /\ cursor # pindexIntermediate
    /\ Connectable(batch, NextConnect)
    /\ batch' = ConnectBlock(batch, NextConnect)
    /\ cursor' = NextConnect
    /\ UNCHANGED <<mapBlockIndex, pnext, pindexBest, mempool, nBestInvalidTrust, pdb, pc,
                   pindexNew, pindexIntermediate, pfork, postponedFailed>>

\* A block cannot be read, disconnected, connected or committed: TxnAbort.
ReorganizeFails ==
    /\ \/ pc = "disconnect" /\ ~Disconnectable(batch, cursor)
       \/ pc = "connect" /\ cursor # pindexIntermediate /\ ~Connectable(batch, NextConnect)
       \/ pc \in {"disconnect", "connect"} /\ IOFaults
    /\ batch' = NULL
    /\ InvalidChainFound(pindexNew)
    /\ pc' = "idle"
    /\ UNCHANGED <<mapBlockIndex, pnext, pindexBest, mempool, pdb, control, postponedFailed>>

\* The blocks Reorganize takes off and puts on.
Disconnected == Branch(pfork, pindexBest)
Connected == Branch(pfork, pindexIntermediate)

\* The second pair of loops of Reorganize over vDisconnect and vConnect.
RelinkNoClear ==
    [b \in Block |-> LET on == {c \in Connected : hashPrevBlock[c] = b}
                     IN  IF on # {} THEN CHOOSE c \in on : TRUE ELSE pnext[b]]

Relink ==
    [b \in Block |->
        LET on == {c \in Connected : hashPrevBlock[c] = b}
            off == {c \in Disconnected : hashPrevBlock[c] = b}
        IN  IF on # {} THEN CHOOSE c \in on : TRUE ELSE IF off # {} THEN NULL ELSE pnext[b]]

vResurrect ==
    SelectSeq(TransactionsOf({b \in Disconnected : nHeight[b] > TotalBlocksEstimate}, pindexBest),
              LAMBDA t : t \notin Generated)

vDelete == TransactionsOf(Connected, pindexIntermediate)

\* The batch is on disk; memory follows, then the mempool.
ReorganizeCommits ==
    /\ pc = "connect"
    /\ cursor = pindexIntermediate
    /\ pdb' = [batch EXCEPT !.hashBestChain = pindexIntermediate]
    /\ batch' = NULL
    /\ pnext' = Relink
    /\ mempool' = RemoveConnectedAndConflicts(Resurrect(mempool, vResurrect), vDelete)
    /\ IF pindexIntermediate = pindexNew
         THEN NewBestBlock
         ELSE pc' = "secondary" /\ UNCHANGED pindexBest
    /\ UNCHANGED <<mapBlockIndex, nBestInvalidTrust, control, postponedFailed>>

NextSecondary == StepTowards(cursor, pindexNew)

\* One block of vpindexSecondary.  "errors now are not fatal": the loop breaks
\* and the end of SetBestChain is reached all the same.
ConnectSecondary ==
    /\ pc = "secondary"
    /\ \/ /\ InnerConnects(NextSecondary)
          /\ cursor' = NextSecondary
          /\ IF cursor' = pindexNew THEN NewBestBlock ELSE UNCHANGED <<pc, pindexBest>>
          /\ UNCHANGED postponedFailed
       \/ /\ InnerFails(NextSecondary)
          /\ NewBestBlock
          /\ postponedFailed' = TRUE
          /\ UNCHANGED cursor
    /\ UNCHANGED <<mapBlockIndex, batch, pindexNew, pindexIntermediate, pfork>>

-----------------------------------------------------------------------------
\* The process dies; nothing but the database survives.
Crash ==
    /\ Crashes
    /\ pc # "down"
    /\ pc' = "down"
    /\ batch' = NULL
    /\ UNCHANGED <<mapBlockIndex, pnext, pindexBest, mempool, nBestInvalidTrust, pdb,
                   control, postponedFailed>>

OnDisk(b) == pdb.diskindex[b] # Absent

\* LoadBlockIndex.  If it finds bad blocks on the best chain it steps back to
\* the parent of the lowest one.
Restart ==
    /\ pc = "down"
    /\ mapBlockIndex' = {b \in Block : OnDisk(b)}
    /\ pnext' = [b \in Block |-> IF OnDisk(b) THEN pdb.diskindex[b] ELSE NULL]
    /\ pindexBest' = pdb.hashBestChain
    /\ mempool' = EmptyPool
    /\ \E bad \in SUBSET ((Suspect \cap Ancestors[pdb.hashBestChain]) \ {Genesis}) :
         IF bad = {}
           THEN pc' = "idle" /\ UNCHANGED control
           ELSE SetBestChain(hashPrevBlock[CHOOSE b \in bad : \A c \in bad : nHeight[b] <= nHeight[c]])
    /\ UNCHANGED <<nBestInvalidTrust, pdb, batch, postponedFailed>>

Work ==
    \/ Extend
    \/ StartReorganize
    \/ ReorganizeDisconnect
    \/ ReorganizeConnect
    \/ ReorganizeFails
    \/ ReorganizeCommits
    \/ ConnectSecondary

Next ==
    \/ \E b \in Block : AcceptBlock(b) \/ SetBestChainToCheckpoint(b)
    \/ \E t \in Tx : AcceptToMemoryPool(t)
    \/ Work
    \/ Crash
    \/ Restart

Spec == Init /\ [][Next]_vars

\* The thread that holds cs_main in SetBestChain keeps running.  This is
\* WF_vars(Work) with ENABLED Work spelled out: a step is possible exactly when
\* SetBestChain has been called and has not returned.
Busy == pc \notin {"idle", "down"}
FairSpec == Spec /\ ([]<>~Busy \/ []<><<Work>>_vars)

-----------------------------------------------------------------------------
(* Properties.                                                             *)

\* next names, for every block of the chain of tip but its last, the block after it.
Linked(next, tip) ==
    \A b, c \in Block :
        next[b] = c <=> c \in Ancestors[tip] \ {Genesis} /\ hashPrevBlock[c] = b

\* main.h:1195-1201 on pnext, and Reorganize's "Make sure it's successfully
\* written to disk before changing memory structure": between two calls of
\* SetBestChain the best block in memory is the one on disk, and pnext leads
\* from Genesis to it and to nothing else.
MemoryFollowsDisk ==
    pc = "idle" /\ ~postponedFailed
        => pindexBest = pdb.hashBestChain /\ Linked(pnext, pindexBest)

\* Whenever the process dies, LoadBlockIndex finds a best chain whose blocks
\* are all on disk, with the hashNext links along that chain and no others.
DiskIsConsistent ==
    ~postponedFailed =>
        /\ \A b \in Ancestors[pdb.hashBestChain] : OnDisk(b)
        /\ Linked(pdb.diskindex, pdb.hashBestChain)

\* The index entry of t that replaying the chain of tip gives.
HomeOf(t, tip) == {p \in Places(tip) : TxAt(p) = t}
SpendersOf(o, tip) == {p \in Places(tip) : o \in vin[TxAt(p)]}
PlaceOf(S) == LET p == CHOOSE p \in S : TRUE IN <<p[1], TxAt(p)>>

Replay(t, tip) ==
    IF HomeOf(t, tip) = {} THEN NULL
    ELSE [pos |-> PlaceOf(HomeOf(t, tip))[1],
          vSpent |-> [n \in 1..nOut[t] |->
             LET S == SpendersOf(<<t, n>>, tip) IN IF S = {} THEN NULL ELSE PlaceOf(S)]]

\* The transaction index on disk is at every moment the one that replaying the
\* best chain on disk from Genesis gives, however many blocks were connected
\* and disconnected, in batches kept or aborted, to get there.
TxIndexIsReplay ==
    ~postponedFailed => \A t \in Tx : pdb.txindex[t] = Replay(t, pdb.hashBestChain)

\* The best chain on disk never double-spends, spends what does not exist or
\* spends immature coins (ConnectBlock).
BestChainValid == ~postponedFailed => ChainValid(pdb.hashBestChain)

\* mapNextTx says exactly which loose transaction spends what, so no two loose
\* transactions spend the same output (addUnchecked, remove, removeConflicts).
PoolConsistent ==
    /\ mempool \in Pool
    /\ mempool.mapNextTx = UNION {vin[t] \X {t} : t \in mempool.mapTx}
    /\ \A t, u \in mempool.mapTx : t # u => vin[t] \cap vin[u] = {}

\* A transaction of the best chain is not kept as a loose one, whether it was
\* confirmed, taken back and confirmed again or arrived twice.
PoolUnconfirmed ==
    pc = "idle" /\ ~postponedFailed => \A t \in mempool.mapTx : pdb.txindex[t] = NULL

\* Reorganize leaves no loose transaction that spends what the connected
\* branch spends ("Delete redundant memory transactions that are in the
\* connected branch" and their conflicts).
ReorganizeClearsConflicts ==
    [][ReorganizeCommits =>
         \A t \in mempool'.mapTx, u \in Range(vDelete) : vin[t] \cap vin[u] = {}]_vars

(* The next ones hold where no checkpoint, restart or fault interferes.    *)

\* SetBestChain gives up a branch only for a block of it that is really
\* invalid: between two calls no indexed valid chain has more trust than the
\* best one, although each call tries one branch once.
BestIsHeaviest ==
    pc = "idle" => \A b \in mapBlockIndex : ChainValid(b) => nChainTrust[b] <= nChainTrust[pindexBest]

ValidTips == {b \in Block : ChainValid(b)}

\* A valid chain that the node has indexed is overtaken or adopted.
HeavierChainAdopted ==
    \A b \in Block :
        b \in mapBlockIndex \cap ValidTips ~> nChainTrust[pindexBest] >= nChainTrust[b]

\* The same two comments without the exception: what SetBestChain announces in
\* memory is what it has written to disk.
BestChainOnDisk == pc = "idle" => pindexBest = pdb.hashBestChain
=============================================================================
