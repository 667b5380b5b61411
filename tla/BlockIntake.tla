----------------------------- MODULE BlockIntake -----------------------------
(***************************************************************************)
(* How blocks and sync-checkpoints come in: ProcessBlock and AcceptBlock   *)
(* (main.cpp), the orphan blocks, and the synchronised checkpoint          *)
(* (checkpoints.cpp), with crashes, restarts and a new master key.         *)
(*                                                                         *)
(* All of it runs under cs_main; the steps are what a crash can fall       *)
(* between.  SetBestChain is one step with the outcomes BestChain gives    *)
(* it.  A block that fails CheckBlock changes nothing and is left out, as  *)
(* are the requests to peers and the signed copies of the checkpoint that  *)
(* are kept for relaying.                                                  *)
(***************************************************************************)
EXTENDS BlockTree, Sequences

CONSTANTS
    proof,          \* block -> its proof of stake, NULL for proof of work
    Hardened,       \* mapCheckpoints: the checkpoints compiled in
    Signed,         \* blocks for which a signed checkpoint message may arrive
    Unacceptable,   \* blocks AcceptBlock refuses for target, time or coinbase
    Cheap,          \* blocks with less work than the last checkpoint asks for
    Invalid,        \* blocks ConnectBlock refuses
    Suspect,        \* blocks LoadBlockIndex may find bad and step back from
    Keys,           \* the checkpoint master keys of the versions of the program
    Strict,         \* CheckpointsMode == STRICT
    Crashes, IOFaults

ASSUME IntakeAssumption ==
    /\ Genesis \in Hardened /\ Hardened \subseteq Block
    /\ \A g, h \in Hardened : nHeight[g] = nHeight[h] => g = h
    /\ \E h \in Hardened : \A g \in Hardened : nHeight[g] <= nHeight[h]
    /\ Signed \subseteq Block /\ Suspect \subseteq Block
    /\ Keys # {}
    /\ Strict \in BOOLEAN /\ Crashes \in BOOLEAN /\ IOFaults \in BOOLEAN

VARIABLES
    mapBlockIndex, pindexBest, setStakeSeen,
    mapOrphanBlocks,        \* the orphans; mapOrphanBlocksByPrev holds the same blocks
    setStakeSeenOrphan,
    hashSyncCheckpoint,
    hashPendingCheckpoint,  \* NULL stands for 0, here and below
    hashInvalidCheckpoint,
    strMasterPubKey,        \* the key of the program that runs
    disk,                   \* block records, hashBestChain, sync-checkpoint, master key
    pc,
    pblock,                 \* the block in AcceptBlock
    vWorkQueue,             \* accepted blocks whose orphan children are still to be tried
    hashCheckpoint,         \* the argument of WriteSyncCheckpoint
    postponedFailed,        \* history: SetBestChain returned true short of its block
    unrecorded,             \* history: indexed blocks whose record was never committed
    rewound,                \* history: a start took the best chain below the sync-checkpoint
    notAdded,               \* history: indexed blocks for which AddToBlockIndex returned false
    resetDue                \* history: no checkpoint was set since the disk's master key was

best == <<pindexBest, postponedFailed, unrecorded, rewound>>
chain == <<mapBlockIndex, setStakeSeen, best>>
orphans == <<mapOrphanBlocks, setStakeSeenOrphan, notAdded>>
checkpoint == <<hashSyncCheckpoint, hashPendingCheckpoint, hashInvalidCheckpoint>>
call == <<pblock, vWorkQueue, hashCheckpoint>>
keys == <<strMasterPubKey, resetDue>>
vars == <<chain, orphans, checkpoint, call, keys, disk, pc>>

Proofs == {proof[b] : b \in Block} \ {NULL}

\* Every variable has its type; the best block and the sync-checkpoint are blocks.
TypeOK ==
    /\ mapBlockIndex \subseteq Block /\ pindexBest \in Block /\ setStakeSeen \subseteq Proofs
    /\ mapOrphanBlocks \subseteq Block /\ setStakeSeenOrphan \subseteq Proofs
    /\ hashSyncCheckpoint \in Block
    /\ {hashPendingCheckpoint, hashInvalidCheckpoint} \subseteq Block \cup {NULL}
    /\ strMasterPubKey \in Keys
    /\ disk \in [index : SUBSET Block, best : Block, sync : Block, key : Keys]
    /\ pc \in {"idle", "best", "pending", "write", "accepted", "failed", "orphans",
               "down", "newkey", "reset", "rewrite"}
    /\ {pblock, hashCheckpoint} \subseteq Block \cup {NULL}
    /\ vWorkQueue \in Seq(Block)
    /\ postponedFailed \in BOOLEAN /\ resetDue \in BOOLEAN /\ rewound \in BOOLEAN
    /\ notAdded \subseteq Block /\ unrecorded \subseteq Block

LastHardened == CHOOSE h \in Hardened : \A g \in Hardened : nHeight[g] <= nHeight[h]

\* The node after LoadBlockIndex has made the genesis block.
Init ==
    /\ mapBlockIndex = {Genesis} /\ pindexBest = Genesis /\ setStakeSeen = {}
    /\ mapOrphanBlocks = {} /\ setStakeSeenOrphan = {}
    /\ hashSyncCheckpoint = Genesis
    /\ hashPendingCheckpoint = LastHardened
    /\ hashInvalidCheckpoint = NULL
    /\ \E k \in Keys :
         /\ strMasterPubKey = k
         /\ disk = [index |-> {Genesis}, best |-> Genesis, sync |-> Genesis, key |-> k]
    /\ pc = "idle" /\ pblock = NULL /\ vWorkQueue = <<>> /\ hashCheckpoint = NULL
    /\ postponedFailed = FALSE /\ resetDue = FALSE /\ rewound = FALSE
    /\ notAdded = {} /\ unrecorded = {}

-----------------------------------------------------------------------------
(* SetBestChain, as its callers see it.                                    *)

Valid(b) == Ancestors[b] \cap Invalid = {}

\* The block SetBestChain must reach to return true: the first of the branch
\* with more trust than the best block, or the block itself.
Reached(b) ==
    LET over == {c \in Ancestors[b] : nChainTrust[c] > nChainTrust[pindexBest]}
    IN  IF over = {} THEN b ELSE CHOOSE c \in over : \A d \in over : nHeight[c] <= nHeight[d]

\* ConnectBlock without the record of the block itself.
ConnectsUnrecorded(tip) == [disk EXCEPT !.best = tip]

\* ConnectBlock writes the record of each block it connects once more.
Connects(tip) == [disk EXCEPT !.best = tip, !.index = @ \cup Branch(pindexBest, tip)]

\* It returns true; the disk may have stopped short of b at a postponed block.
SetBestChainSucceeds(b) ==
    \E tip \in Ancestors[b] :
        /\ Reached(b) \in Ancestors[tip] /\ Valid(tip)
        /\ tip # b => IOFaults \/ ~Valid(StepTowards(tip, b))
        /\ pindexBest' = b
        /\ disk' = Connects(tip)
        /\ postponedFailed' = (postponedFailed \/ tip # b)
        /\ unrecorded' = unrecorded \ Branch(pindexBest, tip)
        /\ rewound' = (rewound /\ hashSyncCheckpoint \notin Ancestors[b])

SetBestChainFails(b) ==
    /\ IOFaults \/ ~Valid(Reached(b))
    /\ UNCHANGED <<best, disk>>

IsInMainChain(b) == b \in Ancestors[pindexBest]

\* SetBestChain to the checkpoint c unless it is in the main chain already.
BestChainTo(c) ==
    \/ IsInMainChain(c) /\ UNCHANGED <<best, disk>>
    \/ ~IsInMainChain(c) /\ SetBestChainSucceeds(c)

-----------------------------------------------------------------------------
(* Checkpoints.                                                            *)

CheckHardened(b) == \A h \in Hardened : nHeight[h] = nHeight[b] => h = b

CheckSyncHeightOnly(b) == nHeight[b] > nHeight[hashSyncCheckpoint]

CheckSync(b) ==
    /\ nHeight[b] > nHeight[hashSyncCheckpoint] =>
         hashSyncCheckpoint \in Ancestors[hashPrevBlock[b]]
    /\ nHeight[b] = nHeight[hashSyncCheckpoint] => b = hashSyncCheckpoint
    /\ nHeight[b] < nHeight[hashSyncCheckpoint] => b \in mapBlockIndex

ValidateSyncCheckpointOlder(c) ==
    c \in Ancestors[hashSyncCheckpoint] \/ hashSyncCheckpoint \in Ancestors[c]

ValidateSyncCheckpoint(c) ==
    nHeight[c] > nHeight[hashSyncCheckpoint] /\ hashSyncCheckpoint \in Ancestors[c]

\* A checkpoint that fails is remembered as invalid unless it is merely older.
NoteInvalid(c) ==
    hashInvalidCheckpoint' =
        IF c \in Ancestors[hashSyncCheckpoint] THEN hashInvalidCheckpoint ELSE c

\* The block the orphan b waits for: the parent of the root of its orphan chain.
WantedByOrphan(b) ==
    hashPrevBlock[CHOOSE root \in Ancestors[b] :
        /\ hashPrevBlock[root] \notin mapOrphanBlocks
        /\ \A c \in Ancestors[b] : root \in Ancestors[c] => c \in mapOrphanBlocks]

WantedByPendingSyncCheckpoint(b) ==
    /\ hashPendingCheckpoint # NULL
    /\ \/ b = hashPendingCheckpoint
       \/ /\ hashPendingCheckpoint \in mapOrphanBlocks
          /\ b = WantedByOrphan(hashPendingCheckpoint)

\* The message "checkpoint", up to WriteSyncCheckpoint.
ProcessSyncCheckpoint(c) ==
    /\ pc = "idle" /\ ~postponedFailed
    /\ \/ /\ c \notin mapBlockIndex
          /\ hashPendingCheckpoint' = c
          /\ UNCHANGED <<chain, hashInvalidCheckpoint, hashCheckpoint, disk, pc>>
       \/ /\ c \in mapBlockIndex /\ ~ValidateSyncCheckpoint(c)
          /\ NoteInvalid(c)
          /\ UNCHANGED <<chain, hashPendingCheckpoint, hashCheckpoint, disk, pc>>
       \/ /\ c \in mapBlockIndex /\ ValidateSyncCheckpoint(c)
          /\ BestChainTo(c)
          /\ hashCheckpoint' = c /\ pc' = "write"
          /\ UNCHANGED <<mapBlockIndex, setStakeSeen, hashPendingCheckpoint,
                         hashInvalidCheckpoint>>
       \/ /\ c \in mapBlockIndex /\ ValidateSyncCheckpoint(c) /\ ~IsInMainChain(c)
          /\ SetBestChainFails(c)
          /\ hashInvalidCheckpoint' = c
          /\ UNCHANGED <<mapBlockIndex, setStakeSeen, hashPendingCheckpoint, hashCheckpoint, pc>>
    /\ UNCHANGED <<orphans, hashSyncCheckpoint, pblock, vWorkQueue, keys>>

\* The end of AcceptBlock: AcceptPendingSyncCheckpoint, up to WriteSyncCheckpoint.
AcceptPendingSyncCheckpoint ==
    /\ pc = "pending"
    /\ \/ /\ hashPendingCheckpoint \notin mapBlockIndex
          /\ pc' = "accepted"
          /\ UNCHANGED <<chain, hashPendingCheckpoint, hashInvalidCheckpoint, hashCheckpoint, disk>>
       \/ /\ hashPendingCheckpoint \in mapBlockIndex
          /\ ~ValidateSyncCheckpoint(hashPendingCheckpoint)
          /\ NoteInvalid(hashPendingCheckpoint)
          /\ hashPendingCheckpoint' = NULL
          /\ pc' = "accepted"
          /\ UNCHANGED <<chain, hashCheckpoint, disk>>
       \/ /\ hashPendingCheckpoint \in mapBlockIndex
          /\ ValidateSyncCheckpoint(hashPendingCheckpoint)
          /\ BestChainTo(hashPendingCheckpoint)
          /\ hashCheckpoint' = hashPendingCheckpoint /\ pc' = "write"
          /\ UNCHANGED <<mapBlockIndex, setStakeSeen, hashPendingCheckpoint,
                         hashInvalidCheckpoint>>
       \/ /\ hashPendingCheckpoint \in mapBlockIndex
          /\ ValidateSyncCheckpoint(hashPendingCheckpoint)
          /\ ~IsInMainChain(hashPendingCheckpoint)
          /\ SetBestChainFails(hashPendingCheckpoint)
          /\ \/ hashInvalidCheckpoint' = hashPendingCheckpoint
             \/ IOFaults /\ UNCHANGED hashInvalidCheckpoint      \* ReadFromDisk failed
          /\ pc' = "accepted"
          /\ UNCHANGED <<mapBlockIndex, setStakeSeen, hashPendingCheckpoint, hashCheckpoint>>
    /\ UNCHANGED <<orphans, hashSyncCheckpoint, pblock, vWorkQueue, keys>>

\* WriteSyncCheckpoint and the return of its caller, AcceptBlock or the message.
WriteSyncCheckpoint ==
    /\ pc = "write"
    /\ \/ /\ disk' = [disk EXCEPT !.sync = hashCheckpoint]
          /\ hashSyncCheckpoint' = hashCheckpoint
          /\ hashPendingCheckpoint' = NULL
          /\ resetDue' = FALSE
       \/ IOFaults /\ UNCHANGED <<disk, hashSyncCheckpoint, hashPendingCheckpoint, resetDue>>
    /\ hashCheckpoint' = NULL
    /\ pc' = IF pblock = NULL THEN "idle" ELSE "accepted"
    /\ UNCHANGED <<chain, orphans, hashInvalidCheckpoint, pblock, vWorkQueue, strMasterPubKey>>

-----------------------------------------------------------------------------
(* Blocks.                                                                 *)

\* The proofs of stake of a set of blocks; proof-of-work blocks have none.
StakesOf(S) == {proof[b] : b \in S} \ {NULL}

HasOrphanChild(b) == \E o \in mapOrphanBlocks : hashPrevBlock[o] = b

\* What AcceptBlock checks.  The kernel of a proof of stake is looked up in
\* the current best chain, so that check may fail for any such block.
Acceptable(b) ==
    /\ b \notin mapBlockIndex /\ b \notin Unacceptable
    /\ CheckHardened(b)
    /\ Strict => CheckSync(b)

MayRefuse(b) == ~Acceptable(b) \/ proof[b] # NULL \/ IOFaults

\* AcceptBlock up to the commit of the block's index record.  When the commit
\* fails AddToBlockIndex returns false and the block stays in memory.
AcceptBlock(b) ==
    /\ Acceptable(b)
    /\ mapBlockIndex' = mapBlockIndex \cup {b}
    /\ setStakeSeen' = setStakeSeen \cup StakesOf({b})
    /\ pblock' = b
    /\ \/ /\ disk' = [disk EXCEPT !.index = @ \cup {b}]
          /\ pc' = "best"
          /\ UNCHANGED <<unrecorded, notAdded>>
       \/ /\ IOFaults
          /\ unrecorded' = unrecorded \cup {b} /\ notAdded' = notAdded \cup {b}
          /\ pc' = "failed"
          /\ UNCHANGED disk
    /\ UNCHANGED <<pindexBest, postponedFailed, rewound, mapOrphanBlocks, setStakeSeenOrphan,
                   vWorkQueue>>

\* The rest of AddToBlockIndex: SetBestChain if the block has more trust.
AddToBlockIndex ==
    /\ pc = "best"
    /\ \/ /\ nChainTrust[pblock] <= nChainTrust[pindexBest]
          /\ pc' = "pending"
          /\ UNCHANGED <<best, disk, notAdded>>
       \/ /\ nChainTrust[pblock] > nChainTrust[pindexBest]
          /\ \/ SetBestChainSucceeds(pblock) /\ pc' = "pending" /\ UNCHANGED notAdded
             \/ SetBestChainFails(pblock) /\ pc' = "failed" /\ notAdded' = notAdded \cup {pblock}
    /\ UNCHANGED <<mapBlockIndex, setStakeSeen, mapOrphanBlocks, setStakeSeenOrphan,
                   checkpoint, call, keys>>

KeepOrphan(b) ==
    /\ proof[b] \in setStakeSeenOrphan => HasOrphanChild(b) \/ WantedByPendingSyncCheckpoint(b)
    /\ mapOrphanBlocks' = mapOrphanBlocks \cup {b}
    /\ setStakeSeenOrphan' = setStakeSeenOrphan \cup StakesOf({b})
    /\ UNCHANGED <<chain, notAdded, disk, pblock, vWorkQueue, pc>>

\* The first part of ProcessBlock, for a block it does not turn away.
ProcessBlock(b, fIsBootstrap) ==
    /\ pc = "idle" /\ ~postponedFailed
    /\ b \notin mapBlockIndex /\ b \notin mapOrphanBlocks
    /\ proof[b] \in setStakeSeen =>
         HasOrphanChild(b) \/ WantedByPendingSyncCheckpoint(b) \/ fIsBootstrap
    /\ b \in Cheap /\ hashSyncCheckpoint \in mapBlockIndex =>
         hashPrevBlock[b] = pindexBest \/ WantedByPendingSyncCheckpoint(b)
    /\ \/ hashPrevBlock[b] \notin mapBlockIndex /\ KeepOrphan(b)
       \/ hashPrevBlock[b] \in mapBlockIndex /\ AcceptBlock(b)
    /\ UNCHANGED <<checkpoint, hashCheckpoint, keys>>

\* The orphan b leaves the holding area, with its proof of stake.
ForgetOrphanKeepsStake(b) ==
    mapOrphanBlocks' = mapOrphanBlocks \ {b} /\ UNCHANGED setStakeSeenOrphan

ForgetOrphan(b) ==
    /\ mapOrphanBlocks' = mapOrphanBlocks \ {b}
    /\ setStakeSeenOrphan' = setStakeSeenOrphan \ StakesOf({b} \cap mapOrphanBlocks)

\* The children of an orphan that was accepted are tried in their turn.
QueueFirstOnly(b) == IF b \in mapOrphanBlocks THEN vWorkQueue ELSE Append(vWorkQueue, b)

Queue(b) == Append(vWorkQueue, b)

\* AcceptBlock returns to ProcessBlock.
AcceptBlockReturns ==
    /\ pc \in {"accepted", "failed"}
    /\ vWorkQueue' = IF pc = "accepted" THEN Queue(pblock) ELSE vWorkQueue
    /\ pc' = IF vWorkQueue' = <<>> THEN "idle" ELSE "orphans"
    /\ pblock' = NULL
    /\ ForgetOrphan(pblock)
    /\ UNCHANGED <<chain, notAdded, checkpoint, hashCheckpoint, keys, disk>>

\* The orphan loop of ProcessBlock: an orphan child of the first block of the
\* queue is tried, in no particular order; without one left the block is done.
TryOrphan ==
    /\ pc = "orphans"
    /\ \E o \in mapOrphanBlocks :
         /\ hashPrevBlock[o] = Head(vWorkQueue)
         /\ \/ AcceptBlock(o)
            \/ /\ MayRefuse(o)
               /\ ForgetOrphan(o)
               /\ UNCHANGED <<chain, notAdded, disk, pblock, vWorkQueue, pc>>
    /\ UNCHANGED <<checkpoint, hashCheckpoint, keys>>

NextInQueue ==
    /\ pc = "orphans"
    /\ ~HasOrphanChild(Head(vWorkQueue))
    /\ vWorkQueue' = Tail(vWorkQueue)
    /\ pc' = IF vWorkQueue' = <<>> THEN "idle" ELSE "orphans"
    /\ UNCHANGED <<chain, orphans, checkpoint, pblock, hashCheckpoint, keys, disk>>

-----------------------------------------------------------------------------
(* Stopping and starting.                                                  *)

\* The process ends: in order between two messages, or by a crash anywhere.
Stop ==
    /\ pc # "down"
    /\ pc = "idle" \/ Crashes
    /\ pc' = "down"
    /\ UNCHANGED <<chain, orphans, checkpoint, call, keys, disk>>

\* LoadBlockIndex asserts that every block but Genesis has a parent
\* (GetStakeModifierChecksum), and a missing one is made up without one.
StartFails ==
    /\ pc = "down"
    /\ ~ClosedUnderParent(disk.index)
    /\ UNCHANGED vars

\* The best block on disk, or the parent of a block of its chain found bad: the
\* chain is moved back to there, if that can be done.
RewindTips ==
    {disk.best} \cup {hashPrevBlock[b] : b \in (Suspect \cap Ancestors[disk.best]) \ {Genesis}}

\* LoadBlockIndex, up to the test of the checkpoint master key.
Restart ==
    /\ pc = "down"
    /\ ClosedUnderParent(disk.index)
    /\ \E tip \in RewindTips :
         /\ pindexBest' = tip
         /\ disk' = [disk EXCEPT !.best = tip]
         /\ rewound' = ((rewound \/ tip # disk.best) /\ disk.sync \notin Ancestors[tip])
    /\ mapBlockIndex' = disk.index /\ unrecorded' = {}
    /\ setStakeSeen' = StakesOf(disk.index)
    /\ mapOrphanBlocks' = {} /\ setStakeSeenOrphan' = {} /\ notAdded' = {}
    /\ hashSyncCheckpoint' = disk.sync
    /\ hashPendingCheckpoint' = LastHardened
    /\ hashInvalidCheckpoint' = NULL
    /\ strMasterPubKey' \in Keys
    /\ pc' = IF disk.key = strMasterPubKey' THEN "idle" ELSE "newkey"
    /\ pblock' = NULL /\ vWorkQueue' = <<>> /\ hashCheckpoint' = NULL
    /\ UNCHANGED <<postponedFailed, resetDue>>

WriteCheckpointPubKey ==
    /\ pc = "newkey"
    /\ \/ /\ disk' = [disk EXCEPT !.key = strMasterPubKey]
          /\ resetDue' = TRUE
          /\ pc' = "reset"
       \/ IOFaults /\ pc' = "down" /\ UNCHANGED <<disk, resetDue>>
    /\ UNCHANGED <<chain, orphans, checkpoint, call, strMasterPubKey>>

\* ResetSyncCheckpoint, up to WriteSyncCheckpoint; the program ends if it fails.
ResetSyncCheckpoint ==
    /\ pc = "reset"
    /\ \/ /\ \/ /\ LastHardened \in mapBlockIndex
                /\ BestChainTo(LastHardened)
                /\ UNCHANGED hashPendingCheckpoint
             \/ /\ LastHardened \notin mapBlockIndex
                /\ hashPendingCheckpoint' = LastHardened
                /\ UNCHANGED <<best, disk>>
          /\ hashCheckpoint' \in Hardened \cap Ancestors[pindexBest']
          /\ \A h \in Hardened \cap Ancestors[pindexBest'] : nHeight[h] <= nHeight[hashCheckpoint']
          /\ pc' = "rewrite"
       \/ /\ LastHardened \in mapBlockIndex /\ ~IsInMainChain(LastHardened)
          /\ SetBestChainFails(LastHardened)
          /\ pc' = "down"
          /\ UNCHANGED <<hashPendingCheckpoint, hashCheckpoint>>
    /\ UNCHANGED <<mapBlockIndex, setStakeSeen, orphans, hashSyncCheckpoint,
                   hashInvalidCheckpoint, pblock, vWorkQueue, keys>>

\* WriteSyncCheckpoint, called by ResetSyncCheckpoint.
RewriteSyncCheckpoint ==
    /\ pc = "rewrite"
    /\ \/ /\ disk' = [disk EXCEPT !.sync = hashCheckpoint]
          /\ hashSyncCheckpoint' = hashCheckpoint
          /\ resetDue' = FALSE
          /\ pc' = "idle"
       \/ IOFaults /\ pc' = "down" /\ UNCHANGED <<disk, hashSyncCheckpoint, resetDue>>
    /\ hashCheckpoint' = NULL
    /\ UNCHANGED <<chain, orphans, hashPendingCheckpoint, hashInvalidCheckpoint, pblock,
                   vWorkQueue, strMasterPubKey>>

Next ==
    \/ \E b \in Block, fIsBootstrap \in BOOLEAN : ProcessBlock(b, fIsBootstrap)
    \/ AddToBlockIndex \/ AcceptBlockReturns \/ TryOrphan \/ NextInQueue
    \/ \E c \in Signed : ProcessSyncCheckpoint(c)
    \/ AcceptPendingSyncCheckpoint \/ WriteSyncCheckpoint
    \/ Stop \/ StartFails \/ Restart
    \/ WriteCheckpointPubKey \/ ResetSyncCheckpoint \/ RewriteSyncCheckpoint

Spec == Init /\ [][Next]_vars

-----------------------------------------------------------------------------
(* Properties.                                                             *)

\* What a start needs is on disk whenever the process ends: the records of the
\* best chain and of the chain of the sync-checkpoint, to the genesis block,
\* whichever commits failed before (ConnectBlock writes a record that
\* AddToBlockIndex could not commit).  LoadBlockIndex fails without the former,
\* and CheckSync asserts the latter.  Elsewhere in the tree a record lacks its
\* parent only if the commit of the parent's own record failed.
DiskReloads ==
    /\ ClosedUnderParent(disk.index \cup unrecorded)
    /\ ~postponedFailed =>
         /\ Ancestors[disk.best] \cup Ancestors[disk.sync] \subseteq disk.index
         /\ pc # "down" => hashSyncCheckpoint \in mapBlockIndex

\* "assert (pindex->pprev || ...)" in GetStakeModifierChecksum, which every start
\* evaluates for each record: refuted, since a record is written although the
\* commit of its parent's failed.
RecordsHaveParents == ClosedUnderParent(disk.index)

OnCheckpoint(sync, tip) ==
    sync \in Ancestors[tip] \/ (rewound /\ tip \in Ancestors[sync])

\* In strict mode the best chain holds the sync-checkpoint, in memory and on
\* disk: CheckSync keeps every later block on it, and a checkpoint on another
\* branch moves the best chain first.  A crash between the two does not matter.
\* A start that steps back from a bad block may leave the best chain below the
\* checkpoint, but never on another branch, until it holds it again.
CheckpointOnBestChain ==
    Strict /\ ~postponedFailed /\ ~resetDue =>
        /\ OnCheckpoint(disk.sync, disk.best)
        /\ pc # "down" => OnCheckpoint(hashSyncCheckpoint, pindexBest)

\* The sync-checkpoint only moves to a descendant, whatever messages, pending
\* checkpoints, crashes and restarts come between; only the reset for a new
\* master key may take it back (ValidateSyncCheckpoint).
CheckpointAdvances ==
    [][pc # "rewrite" => disk.sync \in Ancestors[disk.sync']]_vars

\* An orphan waits for a block that is missing: between two messages, one whose
\* parent is in the block index has a parent that AddToBlockIndex indexed and
\* refused.  Every other parent had its orphans tried, level by level, in the
\* call that accepted it (the orphan loop of ProcessBlock).
OrphansWaitForMissing ==
    pc = "idle" =>
        \A o \in mapOrphanBlocks : hashPrevBlock[o] \in mapBlockIndex => hashPrevBlock[o] \in notAdded

\* No proof of stake stays reserved for an orphan that has left: ProcessBlock
\* would turn away every later orphan with that stake.  The stake of an orphan
\* is free only when another block is made with it too: of two orphans with one
\* stake the first that leaves takes it along (setStakeSeenOrphan.erase).
OrphanStakesHeld ==
    /\ setStakeSeenOrphan \subseteq StakesOf(mapOrphanBlocks)
    /\ \A o \in mapOrphanBlocks :
         proof[o] \in setStakeSeenOrphan \cup {NULL} \/ \E b \in Block \ {o} : proof[b] = proof[o]

\* The node does not run with the sync-checkpoint of another master key:
\* "if checkpoint master key changed must reset sync-checkpoint" (LoadBlockIndex).
NewKeyResetsCheckpoint == pc = "idle" => ~resetDue
=============================================================================
