-------------------------- MODULE BlockIntakeProofs --------------------------
(***************************************************************************)
(* The sync-checkpoint for every block tree, set of checkpoints, mode and  *)
(* pattern of faults: its chain is on disk, it only advances, and in       *)
(* strict mode the best chain is never on another branch.                  *)
(***************************************************************************)
EXTENDS BlockIntake, BlockTreeTheorems

\* The records of the best chain and of the checkpoint's are on disk.
ChainsOnDisk == Ancestors[disk.best] \cup Ancestors[disk.sync] \subseteq disk.index

\* Memory holds what is on disk and the blocks whose record was not committed;
\* both agree on the checkpoint at every step, and on the best block unless
\* SetBestChain stopped short.
MemoryInv ==
    /\ mapBlockIndex = disk.index \cup unrecorded
    /\ ClosedUnderParent(mapBlockIndex)
    /\ hashSyncCheckpoint = disk.sync
    /\ ~postponedFailed => pindexBest = disk.best /\ ChainsOnDisk

\* What the call under way has established.
CallInv ==
    /\ pblock \in mapBlockIndex \cup {NULL}
    /\ pc \in {"best", "pending", "accepted", "failed"} => pblock \in mapBlockIndex
    /\ pc = "orphans" => vWorkQueue # <<>>
    /\ vWorkQueue \in Seq(mapBlockIndex)
    /\ pc \in {"write", "rewrite"} => hashCheckpoint \in Ancestors[pindexBest]
    /\ pc = "write" => hashSyncCheckpoint \in Ancestors[hashCheckpoint]
    /\ pc = "best" /\ Strict => hashSyncCheckpoint \in Ancestors[pblock]
    /\ pc \in {"reset", "rewrite"} => resetDue

Anchored ==
    Strict /\ ~postponedFailed /\ ~resetDue => OnCheckpoint(hashSyncCheckpoint, pindexBest)

IntakeInv == TypeOK /\ MemoryInv /\ CallInv /\ Anchored
-----------------------------------------------------------------------------
(* What the parts of the actions keep.                                     *)

\* A set of blocks closed under parents holds the chain of each of its blocks.
LEMMA IndexHoldsChain ==
    ASSUME TypeOK, MemoryInv, NEW b \in mapBlockIndex, NEW a \in Ancestors[b]
    PROVE  a \in mapBlockIndex
BY AncestorsLeast DEF TypeOK, MemoryInv

\* SetBestChain moves the best block and the best chain on disk, within the
\* block index, with the records of the blocks it connects.
LEMMA SetBestChainEffect ==
    ASSUME TypeOK, MemoryInv, NEW b \in mapBlockIndex, SetBestChainSucceeds(b),
           UNCHANGED <<mapBlockIndex, hashSyncCheckpoint>>
    PROVE  /\ pindexBest' = b
           /\ disk' \in [index : SUBSET Block, best : Block, sync : Block, key : Keys]
           /\ disk'.sync = disk.sync
           /\ postponedFailed' \in BOOLEAN /\ rewound' \in BOOLEAN /\ unrecorded' \subseteq Block
           /\ ~postponedFailed' => ~postponedFailed
           /\ MemoryInv'
<1>1. PICK tip \in Ancestors[b] :
        /\ pindexBest' = b
        /\ disk' = Connects(tip)
        /\ postponedFailed' = (postponedFailed \/ tip # b)
        /\ unrecorded' = unrecorded \ Branch(pindexBest, tip)
        /\ rewound' = (rewound /\ hashSyncCheckpoint \notin Ancestors[b])
  BY Zenon DEF SetBestChainSucceeds
<1>2. tip \in mapBlockIndex /\ tip \in Block
  BY IndexHoldsChain DEF TypeOK
<1>3. Branch(pindexBest, tip) \subseteq mapBlockIndex /\ mapBlockIndex \subseteq Block
  BY <1>2, IndexHoldsChain DEF Branch, TypeOK
<1>4. /\ disk' \in [index : SUBSET Block, best : Block, sync : Block, key : Keys]
      /\ disk'.best = tip /\ disk'.sync = disk.sync
      /\ disk'.index = disk.index \cup Branch(pindexBest, tip)
  BY <1>1, <1>2, <1>3 DEF Connects, TypeOK
<1>5. mapBlockIndex' = disk'.index \cup unrecorded'
  BY <1>1, <1>3, <1>4 DEF MemoryInv
<1>6. ~postponedFailed' => pindexBest' = disk'.best /\ ChainsOnDisk'
  BY <1>1, <1>4 DEF MemoryInv, ChainsOnDisk, Branch
<1>7. MemoryInv'
  BY <1>4, <1>5, <1>6 DEF MemoryInv
<1>8. postponedFailed' \in BOOLEAN /\ rewound' \in BOOLEAN /\ unrecorded' \subseteq Block
  BY <1>1, Zenon DEF TypeOK
<1> QED BY <1>1, <1>4, <1>7, <1>8

\* The same for a checkpoint, which is in the main chain afterwards.
LEMMA BestChainToEffect ==
    ASSUME TypeOK, MemoryInv, NEW c \in mapBlockIndex, BestChainTo(c),
           UNCHANGED <<mapBlockIndex, hashSyncCheckpoint>>
    PROVE  /\ pindexBest' \in Block
           /\ disk' \in [index : SUBSET Block, best : Block, sync : Block, key : Keys]
           /\ disk'.sync = disk.sync
           /\ postponedFailed' \in BOOLEAN /\ rewound' \in BOOLEAN /\ unrecorded' \subseteq Block
           /\ ~postponedFailed' => ~postponedFailed
           /\ MemoryInv'
           /\ c \in Ancestors[pindexBest']
<1>0. c \in Block /\ c \in Ancestors[c]
  BY AncestorsClosed DEF TypeOK
<1>1. CASE IsInMainChain(c) /\ UNCHANGED <<best, disk>>
  BY <1>1 DEF IsInMainChain, TypeOK, MemoryInv, ChainsOnDisk, best
<1>2. CASE SetBestChainSucceeds(c)
  BY <1>0, <1>2, SetBestChainEffect
<1> QED BY <1>1, <1>2 DEF BestChainTo

\* LastHardened is one of the compiled-in checkpoints.
LEMMA HardenedExists == LastHardened \in Hardened /\ LastHardened \in Block
<1>1. PICK h \in Hardened : \A g \in Hardened : nHeight[g] <= nHeight[h]
  BY IntakeAssumption
<1> QED BY <1>1, IntakeAssumption DEF LastHardened

\* In strict mode a block that AcceptBlock takes descends from the checkpoint.
LEMMA AcceptableDescends ==
    ASSUME TypeOK, MemoryInv, NEW b \in Block, Strict, Acceptable(b),
           hashPrevBlock[b] \in mapBlockIndex
    PROVE  hashSyncCheckpoint \in Ancestors[b]
<1>1. CheckSync(b) /\ b \notin mapBlockIndex
  BY DEF Acceptable
<1>2. nHeight[b] \in Nat /\ nHeight[hashSyncCheckpoint] \in Nat
  BY BlockTreeAssumption DEF TypeOK
<1>3. hashSyncCheckpoint \in Ancestors[hashPrevBlock[b]] \/ hashSyncCheckpoint = b
  BY <1>1, <1>2 DEF CheckSync
<1>4. b # Genesis
  BY BlockTreeAssumption DEF TypeOK
<1>5. hashPrevBlock[b] \in Ancestors[b] /\ b \in Ancestors[b]
  BY <1>4, AncestorsClosed DEF ClosedUnderParent
<1> QED BY <1>3, <1>5, AncestorsTransitive
-----------------------------------------------------------------------------
(* Every step keeps the invariant.                                         *)

\* The node that LoadBlockIndex starts with satisfies the invariant.
LEMMA InitIntakeInv == Init => IntakeInv
<1> SUFFICES ASSUME Init PROVE IntakeInv
  OBVIOUS
<1>1. TypeOK
  <2>1. PICK k \in Keys :
          /\ strMasterPubKey = k
          /\ disk = [index |-> {Genesis}, best |-> Genesis, sync |-> Genesis, key |-> k]
    BY Zenon DEF Init
  <2>2. disk \in [index : SUBSET Block, best : Block, sync : Block, key : Keys]
    BY <2>1, BlockTreeAssumption
  <2>3. vWorkQueue \in Seq(Block)
    BY DEF Init
  <2> QED BY <2>1, <2>2, <2>3, HardenedExists, BlockTreeAssumption, Zenon DEF Init, TypeOK
<1>2. MemoryInv
  BY AncestorsOfGenesis DEF Init, MemoryInv, ChainsOnDisk, ClosedUnderParent
<1>3. CallInv
  BY DEF Init, CallInv
<1>4. Anchored
  BY AncestorsClosed, BlockTreeAssumption DEF Init, Anchored, OnCheckpoint
<1> QED BY <1>1, <1>2, <1>3, <1>4 DEF IntakeInv

\* A block that is taken joins the index in memory, and on disk if the commit
\* succeeds.
LEMMA AcceptBlockStep ==
    ASSUME IntakeInv, NEW b \in Block, AcceptBlock(b), hashPrevBlock[b] \in mapBlockIndex,
           UNCHANGED <<checkpoint, hashCheckpoint, keys>>
    PROVE  IntakeInv'
<1> USE DEF IntakeInv, checkpoint, keys
<1>1. /\ disk' \in [index : SUBSET Block, best : Block, sync : Block, key : Keys]
      /\ disk'.best = disk.best /\ disk'.sync = disk.sync
      /\ disk.index \subseteq disk'.index
      /\ mapBlockIndex' = disk'.index \cup unrecorded'
      /\ unrecorded' \subseteq Block
  BY DEF AcceptBlock, TypeOK, MemoryInv
<1>2. setStakeSeen' \subseteq Proofs
  BY DEF AcceptBlock, StakesOf, TypeOK, Proofs
<1>3. vWorkQueue' \in Seq(mapBlockIndex')
  BY DEF AcceptBlock, CallInv
<1>4. notAdded' \subseteq Block /\ pc' \in {"best", "failed"}
  BY DEF AcceptBlock, TypeOK
<1>5. TypeOK'
  BY <1>1, <1>2, <1>4, Zenon DEF AcceptBlock, TypeOK
<1>6. MemoryInv'
  BY <1>1 DEF AcceptBlock, MemoryInv, ChainsOnDisk, ClosedUnderParent
<1>7. Strict => hashSyncCheckpoint \in Ancestors[b]
  BY AcceptableDescends DEF AcceptBlock
<1>8. CallInv'
  BY <1>3, <1>4, <1>7 DEF AcceptBlock, CallInv
<1>9. Anchored'
  BY DEF AcceptBlock, Anchored, OnCheckpoint
<1> QED BY <1>5, <1>6, <1>8, <1>9

\* A block that arrives is kept as an orphan or joins the index.
LEMMA ProcessBlockStep ==
    ASSUME IntakeInv, NEW b \in Block, NEW fIsBootstrap \in BOOLEAN, ProcessBlock(b, fIsBootstrap)
    PROVE  IntakeInv'
<1>1. CASE hashPrevBlock[b] \in mapBlockIndex /\ AcceptBlock(b)
  BY <1>1, AcceptBlockStep DEF ProcessBlock
<1>2. CASE KeepOrphan(b)
  <2> USE <1>2 DEF IntakeInv, ProcessBlock, KeepOrphan, checkpoint, keys, chain, best
  <2>1. setStakeSeenOrphan' \subseteq Proofs
    BY DEF StakesOf, TypeOK, Proofs
  <2>2. TypeOK'
    BY <2>1, Zenon DEF TypeOK
  <2>3. MemoryInv' /\ CallInv' /\ Anchored'
    BY DEF MemoryInv, ChainsOnDisk, CallInv, Anchored, OnCheckpoint
  <2> QED BY <2>2, <2>3
<1> QED BY <1>1, <1>2 DEF ProcessBlock

\* A block that becomes the best one descends from the checkpoint.
LEMMA AddToBlockIndexStep ==
    ASSUME IntakeInv, AddToBlockIndex
    PROVE  IntakeInv'
<1> USE DEF IntakeInv, AddToBlockIndex, orphans, checkpoint, call, keys
<1>0. pc = "best" /\ pblock \in mapBlockIndex
  BY DEF CallInv
<1>1. CASE UNCHANGED <<best, disk>> /\ pc' \in {"pending", "failed"}
  <2>1. notAdded' \subseteq Block
    BY <1>0 DEF TypeOK
  <2>2. TypeOK'
    BY <1>1, <2>1 DEF TypeOK, best
  <2>3. MemoryInv' /\ CallInv' /\ Anchored'
    BY <1>0, <1>1 DEF MemoryInv, ChainsOnDisk, CallInv, Anchored, OnCheckpoint, best
  <2> QED BY <2>2, <2>3
<1>2. CASE SetBestChainSucceeds(pblock) /\ pc' = "pending"
  <2>0. pblock \in Block /\ UNCHANGED <<mapBlockIndex, hashSyncCheckpoint>>
    BY <1>0 DEF TypeOK
  <2>1. TypeOK'
    BY <1>0, <1>2, <2>0, SetBestChainEffect DEF TypeOK
  <2>2. MemoryInv'
    BY <1>0, <1>2, <2>0, SetBestChainEffect
  <2>3. CallInv'
    BY <1>0, <1>2 DEF CallInv
  <2>4. Anchored'
    BY <1>0, <1>2, <2>0, SetBestChainEffect DEF CallInv, Anchored, OnCheckpoint
  <2> QED BY <2>1, <2>2, <2>3, <2>4
<1> QED BY <1>1, <1>2, Zenon DEF SetBestChainFails

\* The step all three users of BestChainTo share.
LEMMA MovesToCheckpoint ==
    ASSUME IntakeInv, NEW c \in mapBlockIndex, BestChainTo(c), ValidateSyncCheckpoint(c),
           hashCheckpoint' = c, pc' = "write",
           UNCHANGED <<mapBlockIndex, setStakeSeen, orphans, checkpoint, pblock, vWorkQueue, keys>>
    PROVE  IntakeInv'
<1> USE DEF IntakeInv, orphans, checkpoint, keys
<1>0. hashSyncCheckpoint \in Ancestors[c]
  BY DEF ValidateSyncCheckpoint
<1>1. TypeOK'
  BY BestChainToEffect DEF TypeOK
<1>2. MemoryInv' /\ c \in Ancestors[pindexBest'] /\ pindexBest' \in Block
  BY BestChainToEffect
<1>3. CallInv'
  BY <1>0, <1>2 DEF CallInv
<1>4. Anchored'
  BY <1>0, <1>2, AncestorsTransitive DEF Anchored, OnCheckpoint
<1> QED BY <1>1, <1>2, <1>3, <1>4

\* A checkpoint message leaves the checkpoint itself alone until it is written.
LEMMA ProcessSyncCheckpointStep ==
    ASSUME IntakeInv, NEW c \in Signed, ProcessSyncCheckpoint(c)
    PROVE  IntakeInv'
<1>0. c \in Block
  BY IntakeAssumption
<1>1. CASE c \in mapBlockIndex /\ ValidateSyncCheckpoint(c) /\ BestChainTo(c) /\ pc' = "write"
  BY <1>1, MovesToCheckpoint DEF ProcessSyncCheckpoint, checkpoint
<1>2. CASE /\ hashPendingCheckpoint' \in {c, hashPendingCheckpoint}
           /\ hashInvalidCheckpoint' \in {c, hashInvalidCheckpoint}
           /\ UNCHANGED <<chain, hashCheckpoint, disk, pc>>
  BY <1>0, <1>2 DEF ProcessSyncCheckpoint, IntakeInv, TypeOK, MemoryInv, ChainsOnDisk, CallInv,
                    Anchored, OnCheckpoint, chain, best, orphans, keys
<1> QED BY <1>1, <1>2 DEF ProcessSyncCheckpoint, NoteInvalid, SetBestChainFails, chain

\* So does a pending checkpoint whose block has arrived.
LEMMA AcceptPendingStep ==
    ASSUME IntakeInv, AcceptPendingSyncCheckpoint
    PROVE  IntakeInv'
<1> DEFINE c == hashPendingCheckpoint
<1>1. CASE c \in mapBlockIndex /\ ValidateSyncCheckpoint(c) /\ BestChainTo(c) /\ pc' = "write"
  BY <1>1, MovesToCheckpoint DEF AcceptPendingSyncCheckpoint, checkpoint
<1>2. CASE /\ hashPendingCheckpoint' \in {NULL, hashPendingCheckpoint}
           /\ hashInvalidCheckpoint' \in {c, hashInvalidCheckpoint}
           /\ pc' = "accepted"
           /\ UNCHANGED <<chain, hashCheckpoint, disk>>
  BY <1>2 DEF AcceptPendingSyncCheckpoint, IntakeInv, TypeOK, MemoryInv, ChainsOnDisk, CallInv,
              Anchored, OnCheckpoint, chain, best, orphans, keys
<1> QED BY <1>1, <1>2 DEF AcceptPendingSyncCheckpoint, NoteInvalid, SetBestChainFails, chain

\* The checkpoint that is written is in the best chain and descends from the last.
LEMMA WriteSyncCheckpointStep ==
    ASSUME IntakeInv, WriteSyncCheckpoint
    PROVE  IntakeInv'
<1> USE DEF IntakeInv, WriteSyncCheckpoint, chain, best, orphans
<1>0. /\ hashCheckpoint \in Block /\ hashCheckpoint \in Ancestors[pindexBest]
      /\ Ancestors[hashCheckpoint] \subseteq Ancestors[pindexBest]
  BY AncestorsClosed, AncestorsTransitive DEF CallInv, TypeOK
<1>1. CASE UNCHANGED <<disk, hashSyncCheckpoint, hashPendingCheckpoint, resetDue>>
  <2>1. TypeOK'
    BY <1>1 DEF TypeOK
  <2>2. MemoryInv' /\ Anchored'
    BY <1>1 DEF MemoryInv, ChainsOnDisk, Anchored, OnCheckpoint
  <2>3. CallInv'
    BY <1>1 DEF CallInv, TypeOK
  <2> QED BY <2>1, <2>2, <2>3
<1>2. CASE /\ disk' = [disk EXCEPT !.sync = hashCheckpoint]
           /\ hashSyncCheckpoint' = hashCheckpoint
           /\ hashPendingCheckpoint' = NULL /\ resetDue' = FALSE
  <2>1. /\ disk' \in [index : SUBSET Block, best : Block, sync : Block, key : Keys]
        /\ disk'.index = disk.index /\ disk'.best = disk.best /\ disk'.sync = hashCheckpoint
    BY <1>0, <1>2 DEF TypeOK
  <2>2. TypeOK'
    BY <1>0, <1>2, <2>1, Zenon DEF TypeOK
  <2>3. MemoryInv' /\ Anchored'
    BY <1>0, <1>2, <2>1 DEF MemoryInv, ChainsOnDisk, Anchored, OnCheckpoint
  <2>4. CallInv'
    BY <1>2 DEF CallInv, TypeOK
  <2> QED BY <2>2, <2>3, <2>4
<1> QED BY <1>1, <1>2, Zenon

\* The blocks queued for their orphan children are in the index.
LEMMA AcceptBlockReturnsStep ==
    ASSUME IntakeInv, AcceptBlockReturns
    PROVE  IntakeInv'
<1> USE DEF IntakeInv, AcceptBlockReturns, chain, best, checkpoint, keys
<1>0. pblock \in mapBlockIndex
  BY DEF CallInv
<1>1. vWorkQueue' \in Seq(mapBlockIndex)
  BY <1>0 DEF Queue, CallInv
<1>2. vWorkQueue' \in Seq(Block)
  BY <1>1 DEF TypeOK
<1>3. setStakeSeenOrphan' \subseteq Proofs /\ mapOrphanBlocks' \subseteq Block
  BY DEF ForgetOrphan, TypeOK
<1>4. TypeOK'
  BY <1>2, <1>3 DEF TypeOK
<1>5. MemoryInv' /\ CallInv' /\ Anchored'
  BY <1>1 DEF MemoryInv, ChainsOnDisk, CallInv, Anchored, OnCheckpoint
<1> QED BY <1>4, <1>5

\* An orphan that is tried has its parent in the index.
LEMMA TryOrphanStep ==
    ASSUME IntakeInv, TryOrphan
    PROVE  IntakeInv'
<1>1. PICK o \in mapOrphanBlocks :
        /\ hashPrevBlock[o] = Head(vWorkQueue)
        /\ \/ AcceptBlock(o)
           \/ ForgetOrphan(o) /\ UNCHANGED <<chain, notAdded, disk, pblock, vWorkQueue, pc>>
  BY DEF TryOrphan
<1>2. o \in Block /\ hashPrevBlock[o] \in mapBlockIndex
  BY <1>1 DEF TryOrphan, IntakeInv, TypeOK, CallInv
<1>3. CASE AcceptBlock(o)
  BY <1>2, <1>3, AcceptBlockStep DEF TryOrphan
<1>4. CASE ForgetOrphan(o) /\ UNCHANGED <<chain, notAdded, disk, pblock, vWorkQueue, pc>>
  <2> USE <1>4 DEF IntakeInv, TryOrphan, chain, best, checkpoint, keys
  <2>1. setStakeSeenOrphan' \subseteq Proofs /\ mapOrphanBlocks' \subseteq Block
    BY DEF ForgetOrphan, TypeOK
  <2>2. TypeOK'
    BY <2>1 DEF TypeOK
  <2>3. MemoryInv' /\ CallInv' /\ Anchored'
    BY DEF MemoryInv, ChainsOnDisk, CallInv, Anchored, OnCheckpoint
  <2> QED BY <2>2, <2>3
<1> QED BY <1>1, <1>3, <1>4

\* A block whose orphan children are all tried leaves the queue.
LEMMA NextInQueueStep ==
    ASSUME IntakeInv, NextInQueue
    PROVE  IntakeInv'
<1> USE DEF IntakeInv, NextInQueue, chain, best, orphans, checkpoint, keys
<1>1. vWorkQueue' \in Seq(mapBlockIndex)
  BY DEF CallInv
<1>2. TypeOK'
  BY <1>1 DEF TypeOK
<1>3. MemoryInv' /\ CallInv' /\ Anchored'
  BY <1>1 DEF MemoryInv, ChainsOnDisk, CallInv, Anchored, OnCheckpoint
<1> QED BY <1>2, <1>3

\* The process may end between any two steps.
LEMMA StopStep ==
    ASSUME IntakeInv, Stop
    PROVE  IntakeInv'
BY DEF IntakeInv, Stop, TypeOK, MemoryInv, ChainsOnDisk, CallInv, Anchored, OnCheckpoint,
       chain, best, orphans, checkpoint, call, keys

\* A start only ever moves the best chain on disk back along itself.
LEMMA RewindTipsInChain ==
    ASSUME TypeOK, NEW tip \in RewindTips
    PROVE  tip \in Block /\ tip \in Ancestors[disk.best]
<1>1. disk.best \in Block
  BY DEF TypeOK
<1> QED BY <1>1, AncestorsClosed DEF RewindTips, ClosedUnderParent

\* What LoadBlockIndex reads back satisfies the invariant, also when it steps
\* back from a bad block.
LEMMA RestartStep ==
    ASSUME IntakeInv, Restart
    PROVE  IntakeInv'
<1> USE DEF IntakeInv
<1>0. PICK tip \in RewindTips :
        /\ pindexBest' = tip
        /\ disk' = [disk EXCEPT !.best = tip]
        /\ rewound' = ((rewound \/ tip # disk.best) /\ disk.sync \notin Ancestors[tip])
  BY Zenon DEF Restart
<1>1. /\ tip \in Block /\ tip \in Ancestors[disk.best]
      /\ disk.best \in Block /\ disk.sync \in Block
  BY RewindTipsInChain DEF TypeOK
<1>2. /\ disk' \in [index : SUBSET Block, best : Block, sync : Block, key : Keys]
      /\ disk'.index = disk.index /\ disk'.best = tip /\ disk'.sync = disk.sync
  BY <1>0, <1>1 DEF TypeOK
<1>3. /\ mapBlockIndex' = disk.index /\ unrecorded' = {} /\ ClosedUnderParent(disk.index)
      /\ hashSyncCheckpoint' = disk.sync
      /\ postponedFailed' = postponedFailed /\ resetDue' = resetDue
  BY DEF Restart
<1>4. setStakeSeen' \subseteq Proofs
  BY DEF Restart, StakesOf, Proofs, TypeOK
<1>5. vWorkQueue' \in Seq(Block) /\ vWorkQueue' \in Seq(mapBlockIndex')
  BY DEF Restart
<1>6. rewound' \in BOOLEAN
  BY <1>0
<1>7. TypeOK'
  BY <1>0, <1>1, <1>2, <1>4, <1>5, <1>6, HardenedExists DEF Restart, TypeOK
<1>8. MemoryInv'
  <2>1. Ancestors[tip] \subseteq Ancestors[disk.best]
    BY <1>1, AncestorsTransitive
  <2> QED BY <1>0, <1>2, <1>3, <2>1 DEF MemoryInv, ChainsOnDisk
<1>9. CallInv'
  BY <1>5 DEF Restart, CallInv
<1>10. Anchored'
  <2> SUFFICES ASSUME Strict, ~postponedFailed, ~resetDue
               PROVE  disk.sync \in Ancestors[tip] \/ (rewound' /\ tip \in Ancestors[disk.sync])
    BY <1>0, <1>3 DEF Anchored, OnCheckpoint
  <2>1. OnCheckpoint(disk.sync, disk.best)
    BY DEF Anchored, MemoryInv
  <2>2. CASE disk.sync \in Ancestors[disk.best]
    <3>1. nHeight[tip] \in Nat /\ nHeight[disk.sync] \in Nat
      BY <1>1, BlockTreeAssumption
    <3>2. disk.sync \in Ancestors[tip] \/ tip \in Ancestors[disk.sync]
      BY <1>1, <2>2, <3>1, ChainLinear
    <3> QED BY <1>0, <2>2, <3>2
  <2>3. CASE rewound /\ disk.best \in Ancestors[disk.sync]
    <3>1. tip \in Ancestors[disk.sync]
      BY <1>1, <2>3, AncestorsTransitive
    <3> QED BY <1>0, <2>3, <3>1
  <2> QED BY <2>1, <2>2, <2>3 DEF OnCheckpoint
<1> QED BY <1>7, <1>8, <1>9, <1>10

\* A new master key on disk makes a reset due.
LEMMA WriteCheckpointPubKeyStep ==
    ASSUME IntakeInv, WriteCheckpointPubKey
    PROVE  IntakeInv'
<1> USE DEF IntakeInv, WriteCheckpointPubKey, chain, best, orphans, checkpoint, call
<1>1. /\ disk' \in [index : SUBSET Block, best : Block, sync : Block, key : Keys]
      /\ disk'.index = disk.index /\ disk'.best = disk.best /\ disk'.sync = disk.sync
  BY DEF TypeOK
<1>2. TypeOK'
  BY <1>1, Zenon DEF TypeOK
<1>3. MemoryInv' /\ CallInv' /\ Anchored'
  BY <1>1 DEF MemoryInv, ChainsOnDisk, CallInv, Anchored, OnCheckpoint
<1> QED BY <1>2, <1>3

\* ResetSyncCheckpoint picks a hardened checkpoint of the best chain.
LEMMA ResetSyncCheckpointStep ==
    ASSUME IntakeInv, ResetSyncCheckpoint
    PROVE  IntakeInv'
<1> USE DEF IntakeInv, ResetSyncCheckpoint, orphans, keys
<1>0. resetDue /\ resetDue' = resetDue
  BY DEF CallInv
<1>1. CASE UNCHANGED <<best, disk>> /\ pc' = "down"
  <2>1. TypeOK'
    BY <1>1, HardenedExists DEF TypeOK, best
  <2>2. MemoryInv' /\ CallInv' /\ Anchored'
    BY <1>1 DEF MemoryInv, ChainsOnDisk, CallInv, Anchored, OnCheckpoint, best
  <2> QED BY <2>1, <2>2
<1>2. CASE /\ pc' = "rewrite"
           /\ hashCheckpoint' \in Hardened \cap Ancestors[pindexBest']
           /\ hashPendingCheckpoint' \in {hashPendingCheckpoint, LastHardened}
           /\ \/ LastHardened \in mapBlockIndex /\ BestChainTo(LastHardened)
              \/ UNCHANGED <<best, disk>>
  <2>1. /\ pindexBest' \in Block
        /\ disk' \in [index : SUBSET Block, best : Block, sync : Block, key : Keys]
        /\ postponedFailed' \in BOOLEAN /\ rewound' \in BOOLEAN /\ unrecorded' \subseteq Block
        /\ MemoryInv'
    <3>1. CASE LastHardened \in mapBlockIndex /\ BestChainTo(LastHardened)
      BY <3>1, BestChainToEffect
    <3>2. CASE UNCHANGED <<best, disk>>
      BY <3>2 DEF TypeOK, MemoryInv, ChainsOnDisk, best
    <3> QED BY <1>2, <3>1, <3>2
  <2>2. TypeOK'
    BY <1>2, <2>1, HardenedExists, IntakeAssumption DEF TypeOK
  <2>3. MemoryInv'
    BY <2>1
  <2>4. CallInv' /\ Anchored'
    BY <1>0, <1>2 DEF CallInv, Anchored
  <2> QED BY <2>2, <2>3, <2>4
<1> QED BY <1>1, <1>2 DEF SetBestChainFails

\* The reset checkpoint is in the best chain.
LEMMA RewriteSyncCheckpointStep ==
    ASSUME IntakeInv, RewriteSyncCheckpoint
    PROVE  IntakeInv'
<1> USE DEF IntakeInv, RewriteSyncCheckpoint, chain, best, orphans
<1>0. /\ hashCheckpoint \in Block /\ hashCheckpoint \in Ancestors[pindexBest]
      /\ Ancestors[hashCheckpoint] \subseteq Ancestors[pindexBest]
  BY AncestorsClosed, AncestorsTransitive DEF CallInv, TypeOK
<1>1. CASE pc' = "down" /\ UNCHANGED <<disk, hashSyncCheckpoint, resetDue>>
  BY <1>1 DEF TypeOK, MemoryInv, ChainsOnDisk, CallInv, Anchored, OnCheckpoint
<1>2. CASE /\ disk' = [disk EXCEPT !.sync = hashCheckpoint]
           /\ hashSyncCheckpoint' = hashCheckpoint
           /\ resetDue' = FALSE /\ pc' = "idle"
  <2>1. /\ disk' \in [index : SUBSET Block, best : Block, sync : Block, key : Keys]
        /\ disk'.index = disk.index /\ disk'.best = disk.best /\ disk'.sync = hashCheckpoint
    BY <1>0, <1>2 DEF TypeOK
  <2>2. TypeOK'
    BY <1>0, <1>2, <2>1, Zenon DEF TypeOK
  <2>3. MemoryInv' /\ CallInv' /\ Anchored'
    BY <1>0, <1>2, <2>1 DEF MemoryInv, ChainsOnDisk, CallInv, Anchored, OnCheckpoint
  <2> QED BY <2>2, <2>3
<1> QED BY <1>1, <1>2, Zenon

\* Nothing changes when no variable does.
LEMMA StutterStep ==
    ASSUME IntakeInv, UNCHANGED vars
    PROVE  IntakeInv'
BY DEF IntakeInv, TypeOK, MemoryInv, ChainsOnDisk, CallInv, Anchored, OnCheckpoint, vars,
       chain, best, orphans, checkpoint, call, keys

-----------------------------------------------------------------------------
(* The orphan blocks.                                                      *)

Queued == {vWorkQueue[i] : i \in DOMAIN vWorkQueue}

\* Where the parents of orphans can be once they are indexed: refused, being
\* accepted, or in the queue of blocks whose orphans are still to be tried.
\* The queue is empty between two messages.
OrphanInv ==
    /\ pc # "down" =>
        \A o \in mapOrphanBlocks : hashPrevBlock[o] \in mapBlockIndex =>
            \/ hashPrevBlock[o] \in notAdded \cup Queued
            \/ hashPrevBlock[o] = pblock /\ pc \in {"best", "pending", "write", "accepted"}
    /\ pc \in {"idle", "newkey", "reset", "rewrite"} => vWorkQueue = <<>>
    /\ pc = "write" /\ pblock = NULL => vWorkQueue = <<>>
    /\ pc = "failed" => pblock \in notAdded
    /\ OrphanStakesHeld

\* A block of the queue stays in it until it is the first and its orphans have
\* all been tried.
LEMMA QueueSteps ==
    ASSUME IntakeInv
    PROVE  /\ vWorkQueue = <<>> => Queued = {}
           /\ \A b \in Block : vWorkQueue' = Append(vWorkQueue, b) => Queued' = Queued \cup {b}
           /\ vWorkQueue # <<>> /\ vWorkQueue' = Tail(vWorkQueue) =>
                Queued \subseteq Queued' \cup {Head(vWorkQueue)}
<1>1. vWorkQueue \in Seq(Block)
  BY DEF IntakeInv, TypeOK
<1>2. ASSUME NEW b \in Block, vWorkQueue' = Append(vWorkQueue, b) PROVE Queued' = Queued \cup {b}
  BY <1>1, <1>2 DEF Queued
<1>3. ASSUME vWorkQueue # <<>>, vWorkQueue' = Tail(vWorkQueue)
      PROVE  Queued \subseteq Queued' \cup {Head(vWorkQueue)}
  <2> SUFFICES ASSUME NEW i \in DOMAIN vWorkQueue, i # 1
               PROVE  \E j \in DOMAIN vWorkQueue' : vWorkQueue'[j] = vWorkQueue[i]
    BY <1>1, <1>3 DEF Queued
  <2>1. i - 1 \in DOMAIN vWorkQueue' /\ vWorkQueue'[i - 1] = vWorkQueue[i]
    BY <1>1, <1>3
  <2> QED BY <2>1
<1>4. vWorkQueue = <<>> => Queued = {}
  BY DEF Queued
<1> QED BY <1>2, <1>3, <1>4

\* An orphan that leaves takes its proof of stake with it.
LEMMA ForgetOrphanKeeps ==
    ASSUME NEW b \in Block, OrphanStakesHeld, ForgetOrphan(b)
    PROVE  OrphanStakesHeld' /\ mapOrphanBlocks' \subseteq mapOrphanBlocks
BY DEF OrphanStakesHeld, ForgetOrphan, StakesOf

\* A step that leaves the orphans and the queue alone.
LEMMA OrphansStay ==
    ASSUME OrphanInv, UNCHANGED <<mapOrphanBlocks, setStakeSeenOrphan, vWorkQueue>>
    PROVE  OrphanStakesHeld' /\ Queued' = Queued
BY DEF OrphanInv, OrphanStakesHeld, Queued

\* A block that is accepted is the one being accepted; every other indexed
\* parent stays where it was.
LEMMA AcceptBlockOrphans ==
    ASSUME IntakeInv, OrphanInv, NEW b \in Block, AcceptBlock(b), pc \in {"idle", "orphans"}
    PROVE  OrphanInv'
BY QueueSteps DEF OrphanInv, AcceptBlock, OrphanStakesHeld, Queued

\* Every step keeps the invariant of the orphans.
LEMMA OrphanStep ==
    ASSUME IntakeInv, IntakeInv', OrphanInv, [Next]_vars
    PROVE  OrphanInv'
<1>0. NULL \notin mapBlockIndex /\ NULL \notin mapBlockIndex'
  BY BlockTreeAssumption DEF IntakeInv, TypeOK
<1>1. CASE \E b \in Block, f \in BOOLEAN : ProcessBlock(b, f)
  <2> PICK b \in Block, f \in BOOLEAN : ProcessBlock(b, f)
    BY <1>1
  <2>1. CASE AcceptBlock(b)
    BY <2>1, AcceptBlockOrphans DEF ProcessBlock
  <2>2. CASE KeepOrphan(b) /\ hashPrevBlock[b] \notin mapBlockIndex
    <3>1. /\ pc = "idle" /\ mapOrphanBlocks' = mapOrphanBlocks \cup {b}
          /\ UNCHANGED <<mapBlockIndex, notAdded, pblock, vWorkQueue, pc>>
      BY <2>2 DEF ProcessBlock, KeepOrphan, chain
    <3>2. OrphanStakesHeld'
      BY <2>2 DEF KeepOrphan, OrphanInv, OrphanStakesHeld, StakesOf
    <3>3. Queued' = Queued
      BY <3>1 DEF Queued
    <3> QED BY <2>2, <3>1, <3>2, <3>3 DEF OrphanInv
  <2> QED BY <2>1, <2>2 DEF ProcessBlock
<1>2. CASE AddToBlockIndex
  <2>1. pc = "best" /\ UNCHANGED <<mapBlockIndex, mapOrphanBlocks, setStakeSeenOrphan, pblock, vWorkQueue>>
    BY <1>2, Zenon DEF AddToBlockIndex, call
  <2>2. \/ pc' = "pending" /\ notAdded' = notAdded
        \/ pc' = "failed" /\ notAdded' = notAdded \cup {pblock}
    BY <1>2, Zenon DEF AddToBlockIndex
  <2>3. OrphanStakesHeld' /\ Queued' = Queued
    BY <2>1, OrphansStay
  <2> QED BY <2>1, <2>2, <2>3 DEF OrphanInv
<1>3. CASE AcceptBlockReturns
  <2>1. pblock \in Block
    BY <1>3 DEF AcceptBlockReturns, IntakeInv, TypeOK, CallInv
  <2>2. pc = "accepted" => Queued' = Queued \cup {pblock}
    BY <1>3, <2>1, QueueSteps DEF AcceptBlockReturns, Queue
  <2>3. pc = "failed" => Queued' = Queued /\ pblock \in notAdded
    BY <1>3 DEF AcceptBlockReturns, Queued, OrphanInv
  <2>4. OrphanStakesHeld' /\ mapOrphanBlocks' \subseteq mapOrphanBlocks
    BY <1>3, <2>1, ForgetOrphanKeeps DEF AcceptBlockReturns, OrphanInv
  <2> QED BY <1>3, <2>2, <2>3, <2>4 DEF AcceptBlockReturns, OrphanInv, chain
<1>4. CASE TryOrphan
  <2> PICK o \in mapOrphanBlocks :
        \/ AcceptBlock(o)
        \/ ForgetOrphan(o) /\ UNCHANGED <<chain, notAdded, disk, pblock, vWorkQueue, pc>>
    BY <1>4 DEF TryOrphan
  <2>1. CASE AcceptBlock(o)
    BY <1>4, <2>1, AcceptBlockOrphans DEF TryOrphan, IntakeInv, TypeOK
  <2>2. CASE ForgetOrphan(o) /\ UNCHANGED <<chain, notAdded, disk, pblock, vWorkQueue, pc>>
    BY <2>2, ForgetOrphanKeeps DEF OrphanInv, Queued, chain, IntakeInv, TypeOK
  <2> QED BY <2>1, <2>2
<1>5. CASE NextInQueue
  <2>1. Queued \subseteq Queued' \cup {Head(vWorkQueue)}
    BY <1>5, QueueSteps DEF NextInQueue, IntakeInv, CallInv
  <2>2. \A o \in mapOrphanBlocks : hashPrevBlock[o] # Head(vWorkQueue)
    BY <1>5 DEF NextInQueue, HasOrphanChild
  <2> QED BY <1>5, <2>1, <2>2 DEF NextInQueue, OrphanInv, OrphanStakesHeld, orphans, chain
<1>6. CASE \E c \in Signed : ProcessSyncCheckpoint(c)
  BY <1>6 DEF ProcessSyncCheckpoint, OrphanInv, OrphanStakesHeld, Queued, orphans, chain
<1>7. CASE AcceptPendingSyncCheckpoint
  <2>1. /\ pc = "pending" /\ pc' \in {"accepted", "write"}
        /\ UNCHANGED <<mapBlockIndex, orphans, pblock, vWorkQueue>>
    BY <1>7 DEF AcceptPendingSyncCheckpoint, chain
  <2>2. pblock # NULL
    BY <1>0, <2>1 DEF IntakeInv, CallInv
  <2>3. OrphanStakesHeld' /\ Queued' = Queued
    BY <2>1, OrphansStay DEF orphans
  <2> QED BY <2>1, <2>2, <2>3 DEF OrphanInv, orphans
<1>8. CASE WriteSyncCheckpoint
  BY <1>0, <1>8 DEF WriteSyncCheckpoint, OrphanInv, OrphanStakesHeld, Queued, orphans, chain
<1>9. CASE Stop
  BY <1>9 DEF Stop, OrphanInv, OrphanStakesHeld, orphans
<1>10. CASE Restart
  BY <1>10 DEF Restart, OrphanInv, OrphanStakesHeld
<1>11. CASE WriteCheckpointPubKey \/ ResetSyncCheckpoint \/ RewriteSyncCheckpoint
  BY <1>11 DEF WriteCheckpointPubKey, ResetSyncCheckpoint, RewriteSyncCheckpoint, OrphanInv,
               OrphanStakesHeld, Queued, orphans, chain, call
<1>12. CASE UNCHANGED vars \/ StartFails
  BY <1>12 DEF StartFails, OrphanInv, OrphanStakesHeld, Queued, vars, chain, orphans, call
<1> QED BY <1>1, <1>2, <1>3, <1>4, <1>5, <1>6, <1>7, <1>8, <1>9, <1>10, <1>11, <1>12 DEF Next

-----------------------------------------------------------------------------
(* The theorems.                                                           *)

\* The invariant is inductive: every step of ProcessBlock, of the checkpoint
\* functions and of a restart keeps it.
THEOREM IntakeInvHolds == Spec => []IntakeInv
<1>1. Init => IntakeInv
  BY InitIntakeInv
<1>2. IntakeInv /\ [Next]_vars => IntakeInv'
  BY ProcessBlockStep, AddToBlockIndexStep, AcceptBlockReturnsStep, TryOrphanStep,
     NextInQueueStep, ProcessSyncCheckpointStep, AcceptPendingStep, WriteSyncCheckpointStep,
     StopStep, RestartStep, WriteCheckpointPubKeyStep, ResetSyncCheckpointStep,
     RewriteSyncCheckpointStep, StutterStep
  DEF Next, StartFails
<1> QED BY <1>1, <1>2, PTL DEF Spec

\* Whenever the process ends, and whichever commits failed, the records of the
\* best chain and of the chain of the sync-checkpoint are on disk, unless
\* SetBestChain stopped short; a record lacks its parent only if the commit of
\* the parent's own record failed.
THEOREM DiskReloadsHolds == Spec => []DiskReloads
<1>1. IntakeInv => DiskReloads
  <2> SUFFICES ASSUME IntakeInv PROVE DiskReloads
    OBVIOUS
  <2>1. disk.sync \in Ancestors[disk.sync]
    BY AncestorsClosed DEF IntakeInv, TypeOK
  <2> QED BY <2>1 DEF IntakeInv, MemoryInv, ChainsOnDisk, DiskReloads
<1> QED BY <1>1, IntakeInvHolds, PTL

\* In strict mode the best chain holds the sync-checkpoint, in memory and on
\* disk, or has been moved back below it by a start, unless SetBestChain stopped
\* short of its block or a reset was cut off.
THEOREM CheckpointOnBestChainHolds == Spec => []CheckpointOnBestChain
<1>1. IntakeInv => CheckpointOnBestChain
  BY DEF IntakeInv, MemoryInv, Anchored, OnCheckpoint, CheckpointOnBestChain
<1> QED BY <1>1, IntakeInvHolds, PTL

\* The sync-checkpoint only moves to a descendant, except by the reset for a
\* new master key.
THEOREM CheckpointAdvancesHolds == Spec => CheckpointAdvances
<1>1. IntakeInv /\ [Next]_vars => [pc # "rewrite" => disk.sync \in Ancestors[disk.sync']]_vars
  <2> SUFFICES ASSUME IntakeInv, Next, pc # "rewrite"
               PROVE  disk.sync \in Ancestors[disk.sync']
    BY DEF vars
  <2>1. disk.sync \in Ancestors[disk.sync]
    BY AncestorsClosed DEF IntakeInv, TypeOK
  <2>2. CASE WriteSyncCheckpoint /\ disk' = [disk EXCEPT !.sync = hashCheckpoint]
    BY <2>2 DEF WriteSyncCheckpoint, IntakeInv, TypeOK, MemoryInv, CallInv
  <2>3. CASE disk'.sync = disk.sync
    BY <2>1, <2>3
  <2>4. ASSUME NEW b \in Block, SetBestChainSucceeds(b)
        PROVE  disk'.sync = disk.sync
    BY <2>4 DEF SetBestChainSucceeds, Connects, IntakeInv, TypeOK
  <2>5. ASSUME NEW b \in mapBlockIndex, BestChainTo(b)
        PROVE  disk'.sync = disk.sync
    BY <2>4, <2>5 DEF BestChainTo, IntakeInv, TypeOK
  <2>6. ASSUME NEW b \in Block, AcceptBlock(b)
        PROVE  disk'.sync = disk.sync
    BY <2>6 DEF AcceptBlock, IntakeInv, TypeOK
  <2>7. CASE \E b \in Block, f \in BOOLEAN : ProcessBlock(b, f)
    BY <2>3, <2>6, <2>7 DEF ProcessBlock, KeepOrphan
  <2>8. CASE AddToBlockIndex
    BY <2>3, <2>4, <2>8 DEF AddToBlockIndex, SetBestChainFails, IntakeInv, TypeOK, CallInv
  <2>9. CASE TryOrphan
    <3>1. PICK o \in mapOrphanBlocks : AcceptBlock(o) \/ UNCHANGED disk
      BY <2>9, Zenon DEF TryOrphan
    <3>2. o \in Block
      BY DEF IntakeInv, TypeOK
    <3> QED BY <2>3, <2>6, <3>1, <3>2
  <2>10. CASE \E c \in Signed : ProcessSyncCheckpoint(c)
    BY <2>3, <2>5, <2>10 DEF ProcessSyncCheckpoint, SetBestChainFails
  <2>11. CASE AcceptPendingSyncCheckpoint
    BY <2>3, <2>5, <2>11 DEF AcceptPendingSyncCheckpoint, SetBestChainFails
  <2>12. CASE WriteSyncCheckpoint
    BY <2>2, <2>3, <2>12, Zenon DEF WriteSyncCheckpoint
  <2>13. CASE ResetSyncCheckpoint
    BY <2>3, <2>5, <2>13 DEF ResetSyncCheckpoint, SetBestChainFails
  <2>14. CASE WriteCheckpointPubKey
    BY <2>3, <2>14 DEF WriteCheckpointPubKey, IntakeInv, TypeOK
  <2>15. CASE AcceptBlockReturns \/ NextInQueue \/ Stop \/ StartFails
    BY <2>3, <2>15 DEF AcceptBlockReturns, NextInQueue, Stop, StartFails, vars
  <2>16. CASE RewriteSyncCheckpoint
    BY <2>16 DEF RewriteSyncCheckpoint
  <2>17. CASE Restart
    BY <2>3, <2>17 DEF Restart, IntakeInv, TypeOK
  <2> QED BY <2>7, <2>8, <2>9, <2>10, <2>11, <2>12, <2>13, <2>14, <2>15, <2>16, <2>17 DEF Next
<1> QED BY <1>1, IntakeInvHolds, PTL DEF Spec, CheckpointAdvances

\* Every variable keeps its type.
THEOREM TypeCorrect == Spec => []TypeOK
<1>1. IntakeInv => TypeOK
  BY DEF IntakeInv
<1> QED BY <1>1, IntakeInvHolds, PTL

\* The invariant of the orphans holds in every reachable state.
LEMMA OrphanInvHolds == Spec => []OrphanInv
<1>1. Init => OrphanInv
  BY DEF Init, OrphanInv, OrphanStakesHeld
<1>2. IntakeInv /\ IntakeInv' /\ OrphanInv /\ [Next]_vars => OrphanInv'
  BY OrphanStep
<1> QED BY <1>1, <1>2, IntakeInvHolds, PTL DEF Spec

\* Between two messages an orphan waits for a block that is missing, or for one
\* that AddToBlockIndex indexed and refused, in whatever order blocks arrive.
THEOREM OrphansWaitForMissingHolds == Spec => []OrphansWaitForMissing
<1>1. IntakeInv /\ OrphanInv => OrphansWaitForMissing
  BY QueueSteps DEF OrphanInv, OrphansWaitForMissing
<1> QED BY <1>1, IntakeInvHolds, OrphanInvHolds, PTL

\* No proof of stake stays reserved for an orphan that has left, and the stake
\* of an orphan that waits is reserved unless another block shares it.
THEOREM OrphanStakesHeldHolds == Spec => []OrphanStakesHeld
<1>1. OrphanInv => OrphanStakesHeld
  BY DEF OrphanInv
<1> QED BY <1>1, OrphanInvHolds, PTL
=============================================================================
