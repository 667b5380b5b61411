--------------------------- MODULE BestChainProofs ---------------------------
(***************************************************************************)
(* The block index in memory, the one on disk and the choice of the best   *)
(* chain stay consistent for every block tree and every set of             *)
(* transactions, through crashes, failed commits, checkpoints and blocks   *)
(* that cannot be connected.                                               *)
(***************************************************************************)
EXTENDS BestChain, BlockTreeTheorems

Walking == {"disconnect", "connect"}

Records(db) == {b \in Block : db.diskindex[b] # Absent}

\* The records in the database (or in the batch) are those of mapBlockIndex,
\* which is closed under parents; what SetBestChain works on is among them.
IndexInv ==
    /\ ClosedUnderParent(Records(pdb))
    /\ pdb.hashBestChain \in Records(pdb)
    /\ pc # "down" => /\ mapBlockIndex = Records(pdb)
                      /\ pindexBest \in mapBlockIndex
    /\ Busy => pindexNew \in mapBlockIndex
    /\ pc \in Walking => /\ batch \in Database
                         /\ Records(batch) = mapBlockIndex

\* Where the walk of Reorganize and of the postponed blocks is.
CursorInv ==
    /\ pc \in Walking \cup {"secondary"} => pindexIntermediate \in Ancestors[pindexNew]
    /\ pc \in Walking =>
         /\ pfork \in Ancestors[pindexBest] \cap Ancestors[pindexIntermediate]
         /\ Ancestors[pindexBest] \cap Ancestors[pindexIntermediate] = Ancestors[pfork]
    /\ pc = "disconnect" => cursor \in Branch(pfork, pindexBest)
    /\ pc = "connect" => cursor \in Ancestors[pindexIntermediate] /\ pfork \in Ancestors[cursor]
    /\ pc = "secondary" => cursor \in Ancestors[pindexNew] \ {pindexNew}

\* The links in memory, on disk and in the batch, each along its own chain.
LinkInv ==
    ~postponedFailed =>
        /\ Linked(pdb.diskindex, pdb.hashBestChain)
        /\ pc \in {"idle", "SetBestChain"} \cup Walking =>
             pindexBest = pdb.hashBestChain /\ Linked(pnext, pindexBest)
        /\ pc \in Walking => Linked(batch.diskindex, cursor)
        /\ pc = "secondary" => cursor = pdb.hashBestChain /\ Linked(pnext, cursor)

ChainInv == TypeOK /\ IndexInv /\ CursorInv /\ LinkInv
-----------------------------------------------------------------------------
(* Links along a chain.                                                    *)

\* Clearing the link to the tip leaves the links of the chain of its parent,
\* which is what DisconnectBlock and the first loop of Reorganize rely on.
LEMMA LinkedDisconnect ==
    ASSUME NEW tip \in Block \ {Genesis}, NEW f, NEW g,
           Linked(f, tip),
           g[hashPrevBlock[tip]] \notin Block,
           \A b \in Block \ {hashPrevBlock[tip]} : g[b] = f[b]
    PROVE  Linked(g, hashPrevBlock[tip])
<1> DEFINE p == hashPrevBlock[tip]
<1>1. p \in Block /\ nHeight[tip] = nHeight[p] + 1
  BY BlockTreeAssumption
<1>2. Ancestors[tip] = {tip} \cup Ancestors[p]
  BY AncestorsUnfold
<1>3. \A c \in Ancestors[p] \ {Genesis} : hashPrevBlock[c] # p /\ c # tip
  BY <1>1, AncestorsHeight, BlockTreeAssumption
<1> QED BY <1>1, <1>2, <1>3 DEF Linked

\* Naming c after its parent, at the tip, gives the links of the chain of c
\* (ConnectBlock, SetBestChainInner).
LEMMA LinkedConnect ==
    ASSUME NEW c \in Block \ {Genesis}, NEW f, NEW g,
           Linked(f, hashPrevBlock[c]),
           g[hashPrevBlock[c]] = c,
           \A b \in Block \ {hashPrevBlock[c]} : g[b] = f[b] \/ (b = c /\ g[b] \notin Block)
    PROVE  Linked(g, c)
<1> DEFINE p == hashPrevBlock[c]
<1>1. p \in Block /\ nHeight[c] = nHeight[p] + 1 /\ p # c
  BY BlockTreeAssumption
<1>2. Ancestors[c] = {c} \cup Ancestors[p]
  BY AncestorsUnfold
<1>3. \A d \in Ancestors[c] \ {Genesis} : hashPrevBlock[d] # c
  BY <1>1, AncestorsHeight, BlockTreeAssumption
<1>4. \A d \in Ancestors[c] \ {Genesis} : hashPrevBlock[d] = p => d = c
  BY <1>2, ChainOneChild
<1> QED BY <1>1, <1>2, <1>3, <1>4 DEF Linked

\* A block off the chain of the tip has no link.
LEMMA UnlinkedOffChain ==
    ASSUME NEW tip \in Block, NEW f, Linked(f, tip),
           NEW c \in Block, c \notin Ancestors[tip] \/ c = tip
    PROVE  f[c] \notin Block
<1> SUFFICES ASSUME f[c] \in Block PROVE FALSE
  OBVIOUS
<1>1. f[c] \in Ancestors[tip] \ {Genesis} /\ hashPrevBlock[f[c]] = c
  BY DEF Linked
<1>2. c \in Ancestors[tip]
  BY <1>1, AncestorsClosed DEF ClosedUnderParent
<1> QED BY <1>1, <1>2, AncestorsHeight, BlockTreeAssumption

\* The two relinking loops of Reorganize turn the links of the old best chain
\* into those of the new one.
LEMMA RelinkLinks ==
    ASSUME pindexBest \in Block, pindexIntermediate \in Block, pfork \in Block,
           Ancestors[pindexBest] \cap Ancestors[pindexIntermediate] = Ancestors[pfork],
           Linked(pnext, pindexBest)
    PROVE  Linked(Relink, pindexIntermediate)
<1> SUFFICES ASSUME NEW b \in Block, NEW c \in Block
             PROVE  Relink[b] = c <=> /\ c \in Ancestors[pindexIntermediate] \ {Genesis}
                                      /\ hashPrevBlock[c] = b
  BY DEF Linked
<1> DEFINE on == {d \in Connected : hashPrevBlock[d] = b}
           off == {d \in Disconnected : hashPrevBlock[d] = b}
<1>1. Genesis \in Ancestors[pfork]
  BY GenesisIsAncestor
<1>2. Relink[b] = IF on # {} THEN CHOOSE d \in on : TRUE ELSE IF off # {} THEN NULL ELSE pnext[b]
  BY DEF Relink
<1>3. CASE on # {}
  <2>1. Relink[b] \in on
    BY <1>2, <1>3
  <2>2. Relink[b] \in Ancestors[pindexIntermediate] \ {Genesis} /\ hashPrevBlock[Relink[b]] = b
    BY <2>1, <1>1 DEF Connected, Branch
  <2> QED BY <2>2, ChainOneChild
<1>4. CASE on = {} /\ off # {}
  <2>1. Relink[b] = NULL
    BY <1>2, <1>4
  <2>2. PICK d \in Ancestors[pindexBest] \ {Genesis} : d \notin Ancestors[pfork] /\ hashPrevBlock[d] = b
    BY <1>4, <1>1 DEF Disconnected, Branch
  <2>3. ASSUME c \in Ancestors[pindexIntermediate] \ {Genesis}, hashPrevBlock[c] = b
        PROVE  FALSE
    <3>1. c \in Ancestors[pfork]
      BY <2>3, <1>4 DEF Connected, Branch
    <3>2. c \in Ancestors[pindexBest]
      BY <3>1
    <3>3. c = d
      BY <3>2, <2>2, <2>3, ChainOneChild
    <3> QED BY <3>1, <3>3, <2>2
  <2> QED BY <2>1, <2>3, BlockTreeAssumption
<1>5. CASE on = {} /\ off = {}
  <2>1. Relink[b] = pnext[b]
    BY <1>2, <1>5
  <2>2. pnext[b] = c <=> c \in Ancestors[pindexBest] \ {Genesis} /\ hashPrevBlock[c] = b
    BY DEF Linked
  <2>3. hashPrevBlock[c] = b => /\ c \in Ancestors[pindexIntermediate] => c \in Ancestors[pfork]
                                /\ c \in Ancestors[pindexBest] => c \in Ancestors[pfork]
    BY <1>5 DEF Connected, Disconnected, Branch
  <2> QED BY <2>1, <2>2, <2>3
<1> QED BY <1>3, <1>4, <1>5
-----------------------------------------------------------------------------
(* What the operators on a view of the database leave.                     *)

\* ConnectBlock keeps the index well formed, whatever it connects.
LEMMA ConnectTxType ==
    ASSUME NEW db \in Database, NEW b \in Block, NEW t \in Tx
    PROVE  ConnectTx(db, b, t) \in TxIndexEntry(t) \cup {NULL}
<1> DEFINE entry == IF MadeAt(b, t) # {}
                      THEN [pos |-> b, vSpent |-> [n \in 1..nOut[t] |-> NULL]]
                      ELSE db.txindex[t]
           spends(n) == {i \in SpentAt(b, <<t, n>>) : \A j \in MadeAt(b, t) : j < i}
           spent(n) == IF spends(n) # {} THEN <<b, vtx[b][CHOOSE i \in spends(n) : TRUE]>>
                       ELSE entry.vSpent[n]
<1>1. entry \in TxIndexEntry(t) \cup {NULL}
  BY DEF TxIndexEntry, Database
<1>2. CASE entry = NULL
  BY <1>2 DEF ConnectTx
<1>3. CASE entry # NULL
  <2>1. entry \in TxIndexEntry(t)
    BY <1>1, <1>3
  <2>2. \A n \in 1..nOut[t] : spent(n) \in (Block \X Tx) \cup {NULL}
    <3> TAKE n \in 1..nOut[t]
    <3>1. CASE spends(n) # {}
      <4>1. (CHOOSE i \in spends(n) : TRUE) \in DOMAIN vtx[b]
        BY <3>1 DEF SpentAt
      <4>2. vtx[b] \in Seq(Tx)
        BY TransactionAssumption
      <4>3. vtx[b][CHOOSE i \in spends(n) : TRUE] \in Tx
        <5> HIDE DEF spends
        <5> QED BY <4>1, <4>2
      <4> QED BY <3>1, <4>3
    <3>2. CASE spends(n) = {}
      BY <3>2, <2>1, Zenon DEF TxIndexEntry
    <3> QED BY <3>1, <3>2
  <2>3. ConnectTx(db, b, t) = [entry EXCEPT !.vSpent = [n \in 1..nOut[t] |-> spent(n)]]
    BY <1>3 DEF ConnectTx
  <2>4. [n \in 1..nOut[t] |-> spent(n)] \in [1..nOut[t] -> (Block \X Tx) \cup {NULL}]
    <3> HIDE DEF spent
    <3> QED BY <2>2
  <2> HIDE DEF entry, spent
  <2> QED BY <2>1, <2>3, <2>4 DEF TxIndexEntry
<1> QED BY <1>2, <1>3

\* ConnectBlock as the proofs below use it.
LEMMA ConnectBlockEffect ==
    ASSUME NEW db \in Database, NEW b \in Block \ {Genesis},
           pnext \in [Block -> Block \cup {NULL}]
    PROVE  LET new == ConnectBlock(db, b)
               p == hashPrevBlock[b]
           IN  /\ new \in Database
               /\ new.hashBestChain = db.hashBestChain
               /\ new.diskindex[p] = b
               /\ \A c \in Block \ {p} : new.diskindex[c] = IF c = b THEN pnext[b] ELSE db.diskindex[c]
               /\ Records(new) = Records(db) \cup {b, p}
<1> DEFINE p == hashPrevBlock[b]
           new == ConnectBlock(db, b)
           tx == [t \in Tx |-> ConnectTx(db, b, t)]
           disk == [db.diskindex EXCEPT ![b] = pnext[b], ![p] = b]
<1>1. p \in Block /\ p # b /\ Absent \notin Block \cup {NULL}
  BY BlockTreeAssumption, ControlAssumption
<1>2. db \in [diskindex : [Block -> Block \cup {NULL, Absent}],
               hashBestChain : Block,
               txindex : [Tx -> (UNION {TxIndexEntry(t) : t \in Tx}) \cup {NULL}]]
  BY DEF Database
<1>3. new = [db EXCEPT !.txindex = tx, !.diskindex = disk]
  BY DEF ConnectBlock
<1>4. \A t \in Tx : tx[t] \in TxIndexEntry(t) \cup {NULL}
  BY ConnectTxType
<1>5. tx \in [Tx -> (UNION {TxIndexEntry(t) : t \in Tx}) \cup {NULL}]
  <2>1. tx = [t \in Tx |-> tx[t]]
    OBVIOUS
  <2>2. \A t \in Tx : tx[t] \in (UNION {TxIndexEntry(u) : u \in Tx}) \cup {NULL}
    <3> HIDE DEF tx
    <3> QED BY <1>4
  <2> HIDE DEF tx
  <2> QED BY <2>1, <2>2
<1>6. disk \in [Block -> Block \cup {NULL, Absent}]
  BY <1>1, <1>2
<1>7. new.txindex = tx /\ new.diskindex = disk /\ new.hashBestChain = db.hashBestChain
  <2> HIDE DEF tx, disk, new
  <2> QED BY <1>2, <1>3
<1>8. new \in Database
  <2> HIDE DEF tx, disk, new
  <2>1. new \in [diskindex : [Block -> Block \cup {NULL, Absent}],
               hashBestChain : Block,
               txindex : [Tx -> (UNION {TxIndexEntry(t) : t \in Tx}) \cup {NULL}]]
    BY <1>2, <1>3, <1>5, <1>6, Zenon
  <2> QED BY <1>4, <1>7, <2>1 DEF Database
<1>9. \A c \in Block : disk[c] = IF c = p THEN b ELSE IF c = b THEN pnext[b] ELSE db.diskindex[c]
  BY <1>1, <1>2
<1> HIDE DEF new, disk
<1>10. Records(new) = Records(db) \cup {b, p}
  BY <1>1, <1>7, <1>9 DEF Records
<1>11. new.diskindex[p] = b
       /\ \A c \in Block \ {p} : new.diskindex[c] = IF c = b THEN pnext[b] ELSE db.diskindex[c]
  BY <1>1, <1>7, <1>9
<1> QED BY <1>7, <1>8, <1>10, <1>11 DEF new

\* DisconnectBlock as the proofs below use it.
LEMMA DisconnectBlockEffect ==
    ASSUME NEW db \in Database, NEW b \in Block \ {Genesis}
    PROVE  LET new == DisconnectBlock(db, b)
               p == hashPrevBlock[b]
           IN  /\ new \in Database
               /\ new.hashBestChain = db.hashBestChain
               /\ new.diskindex[p] = NULL
               /\ \A c \in Block \ {p} : new.diskindex[c] = db.diskindex[c]
               /\ Records(new) = Records(db) \cup {p}
<1> DEFINE p == hashPrevBlock[b]
           new == DisconnectBlock(db, b)
           vSpent(t) == [n \in 1..nOut[t] |->
                           IF SpentAt(b, <<t, n>>) # {} THEN NULL ELSE db.txindex[t].vSpent[n]]
           tx == [t \in Tx |-> IF MadeAt(b, t) # {} \/ db.txindex[t] = NULL THEN NULL
                               ELSE [db.txindex[t] EXCEPT !.vSpent = vSpent(t)]]
           disk == [db.diskindex EXCEPT ![p] = NULL]
<1>1. p \in Block /\ p # b /\ Absent \notin Block \cup {NULL}
  BY BlockTreeAssumption, ControlAssumption
<1>2. db \in [diskindex : [Block -> Block \cup {NULL, Absent}],
               hashBestChain : Block,
               txindex : [Tx -> (UNION {TxIndexEntry(t) : t \in Tx}) \cup {NULL}]]
  BY DEF Database
<1>3. new = [db EXCEPT !.txindex = tx, !.diskindex = disk]
  BY DEF DisconnectBlock
<1>4. ASSUME NEW t \in Tx
      PROVE  tx[t] \in TxIndexEntry(t) \cup {NULL}
  <2>1. CASE MadeAt(b, t) # {} \/ db.txindex[t] = NULL
    BY <2>1
  <2>2. CASE ~(MadeAt(b, t) # {} \/ db.txindex[t] = NULL)
    <3>1. db.txindex[t] \in TxIndexEntry(t)
      BY <2>2 DEF Database
    <3>2. vSpent(t) \in [1..nOut[t] -> (Block \X Tx) \cup {NULL}]
      BY <3>1, Zenon DEF TxIndexEntry
    <3>3. tx[t] = [db.txindex[t] EXCEPT !.vSpent = vSpent(t)]
      BY <2>2
    <3> HIDE DEF vSpent, tx
    <3> QED BY <3>1, <3>2, <3>3 DEF TxIndexEntry
  <2> QED BY <2>1, <2>2
<1>5. tx \in [Tx -> (UNION {TxIndexEntry(t) : t \in Tx}) \cup {NULL}]
  <2>1. tx = [t \in Tx |-> tx[t]]
    OBVIOUS
  <2>2. \A t \in Tx : tx[t] \in (UNION {TxIndexEntry(u) : u \in Tx}) \cup {NULL}
    <3> HIDE DEF tx
    <3> QED BY <1>4
  <2> HIDE DEF tx
  <2> QED BY <2>1, <2>2
<1>6. disk \in [Block -> Block \cup {NULL, Absent}]
  BY <1>1, <1>2
<1>7. new.txindex = tx /\ new.diskindex = disk /\ new.hashBestChain = db.hashBestChain
  <2> HIDE DEF tx, disk, new
  <2> QED BY <1>2, <1>3
<1>8. new \in Database
  <2> HIDE DEF tx, disk, new
  <2>1. new \in [diskindex : [Block -> Block \cup {NULL, Absent}],
               hashBestChain : Block,
               txindex : [Tx -> (UNION {TxIndexEntry(t) : t \in Tx}) \cup {NULL}]]
    BY <1>2, <1>3, <1>5, <1>6, Zenon
  <2> QED BY <1>4, <1>7, <2>1 DEF Database
<1>9. \A c \in Block : disk[c] = IF c = p THEN NULL ELSE db.diskindex[c]
  BY <1>1, <1>2
<1> HIDE DEF new, disk
<1>10. Records(new) = Records(db) \cup {p}
  BY <1>1, <1>7, <1>9 DEF Records
<1>11. new.diskindex[p] = NULL /\ \A c \in Block \ {p} : new.diskindex[c] = db.diskindex[c]
  BY <1>1, <1>7, <1>9
<1> QED BY <1>7, <1>8, <1>10, <1>11 DEF new

\* Moving hashBestChain leaves the rest of the database alone.
LEMMA SetHashBestChain ==
    ASSUME NEW db \in Database, NEW b \in Block
    PROVE  LET new == [db EXCEPT !.hashBestChain = b]
           IN  /\ new \in Database
               /\ new.hashBestChain = b
               /\ new.diskindex = db.diskindex
               /\ Records(new) = Records(db)
BY DEF Database, Records
-----------------------------------------------------------------------------
(* One lemma per action.                                                   *)

\* The genesis block alone satisfies the invariant.
LEMMA InitChainInv == Init => ChainInv
<1> SUFFICES ASSUME Init PROVE ChainInv
  OBVIOUS
<1>1. pdb.diskindex = [b \in Block |-> IF b = Genesis THEN NULL ELSE Absent]
      /\ pdb.hashBestChain = Genesis /\ pdb.txindex = [t \in Tx |-> NULL]
  BY DEF Init
<1>2. Absent \notin Block \cup {NULL} /\ NULL \notin Block /\ Genesis \in Block
  BY BlockTreeAssumption, ControlAssumption
<1>3. Records(pdb) = {Genesis}
  BY <1>1, <1>2 DEF Records
<1>4. pdb \in Database
  BY <1>1, <1>2 DEF Init, Database
<1>5. TypeOK
  BY <1>2, <1>4, Zenon DEF Init, TypeOK
<1>6. IndexInv
  BY <1>3, <1>1 DEF Init, IndexInv, ClosedUnderParent, Busy, Walking
<1>7. CursorInv
  BY DEF Init, CursorInv, Walking
<1>8. LinkInv
  BY <1>1, <1>2, AncestorsOfGenesis DEF Init, LinkInv, Walking, Linked
<1> QED BY <1>5, <1>6, <1>7, <1>8 DEF ChainInv

\* Adding the record of an orphan-free block leaves chains and links alone.
LEMMA AcceptBlockStep ==
    ASSUME ChainInv, NEW b \in Block, AcceptBlock(b)
    PROVE  ChainInv'
<1>1. /\ Absent \notin Block \cup {NULL} /\ NULL \notin Block /\ Genesis \in Block
  BY BlockTreeAssumption, ControlAssumption
<1>2. pdb \in Database /\ pc = "idle" /\ mapBlockIndex = Records(pdb) /\ b \notin Records(pdb)
  BY DEF ChainInv, TypeOK, IndexInv, AcceptBlock
<1>3. /\ pdb' \in Database /\ pdb'.hashBestChain = pdb.hashBestChain
      /\ \A c \in Block : pdb'.diskindex[c] = IF c = b THEN NULL ELSE pdb.diskindex[c]
  BY <1>2 DEF AcceptBlock, Database
<1>4. Records(pdb') = Records(pdb) \cup {b}
  BY <1>1, <1>3 DEF Records
<1>5. pc' \in {"idle", "SetBestChain"} /\ (pc' = "SetBestChain" => pindexNew' = b)
  BY <1>2 DEF AcceptBlock, SetBestChain, control
<1>6. TypeOK'
  BY <1>2, <1>3, <1>5 DEF ChainInv, TypeOK, AcceptBlock, SetBestChain, control
<1>7. IndexInv'
  <2>1. ClosedUnderParent(Records(pdb'))
    BY <1>2, <1>4 DEF AcceptBlock, ChainInv, IndexInv, ClosedUnderParent
  <2>2. pdb'.hashBestChain \in Records(pdb') /\ pindexBest' \in Records(pdb') /\ b \in Records(pdb')
    BY <1>2, <1>3, <1>4 DEF AcceptBlock, ChainInv, IndexInv
  <2>3. mapBlockIndex' = Records(pdb')
    BY <1>2, <1>4 DEF AcceptBlock
  <2> QED BY <1>5, <2>1, <2>2, <2>3 DEF IndexInv, Busy, Walking
<1>8. CursorInv'
  BY <1>5 DEF CursorInv, Walking
<1>9. LinkInv'
  <2>1. pdb.diskindex[b] = Absent
    BY <1>2 DEF Records
  <2>2. ~postponedFailed => Linked(pdb'.diskindex, pdb'.hashBestChain)
    BY <1>1, <1>3, <2>1 DEF ChainInv, LinkInv, Linked
  <2>3. ~postponedFailed => pindexBest' = pdb'.hashBestChain /\ Linked(pnext', pindexBest')
    BY <1>2, <1>3 DEF ChainInv, LinkInv, AcceptBlock
  <2>4. postponedFailed' = postponedFailed
    BY DEF AcceptBlock
  <2> QED BY <1>5, <2>2, <2>3, <2>4 DEF LinkInv, Walking
<1> QED BY <1>6, <1>7, <1>8, <1>9 DEF ChainInv

\* A checkpoint only starts a call of SetBestChain.
LEMMA CheckpointStep ==
    ASSUME ChainInv, NEW b \in Block, SetBestChainToCheckpoint(b)
    PROVE  ChainInv'
<1> USE DEF SetBestChainToCheckpoint, SetBestChain, index
<1>1. TypeOK'
  BY DEF ChainInv, TypeOK
<1>2. IndexInv'
  BY DEF ChainInv, IndexInv, Busy, Walking, Records
<1>3. CursorInv'
  BY DEF CursorInv, Walking
<1>4. LinkInv'
  BY DEF ChainInv, LinkInv, Walking, Linked
<1> QED BY <1>1, <1>2, <1>3, <1>4 DEF ChainInv

\* What a successful SetBestChainInner does to disk and memory.
LEMMA InnerConnectsEffect ==
    ASSUME TypeOK, NEW b \in Block \ {Genesis}, InnerConnects(b)
    PROVE  /\ pdb' \in Database /\ pdb'.hashBestChain = b
           /\ pnext' \in [Block -> Block \cup {NULL}]
           /\ nBestInvalidTrust' \in Nat
           /\ Records(pdb') = Records(pdb) \cup {b, hashPrevBlock[b]}
           /\ Linked(pnext, hashPrevBlock[b]) /\ Linked(pdb.diskindex, hashPrevBlock[b])
                => Linked(pnext', b) /\ Linked(pdb'.diskindex, b)
<1> DEFINE p == hashPrevBlock[b]
           new == ConnectBlock(pdb, b)
<1>1. pdb \in Database /\ pnext \in [Block -> Block \cup {NULL}] /\ nBestInvalidTrust \in Nat
  BY DEF TypeOK
<1>2. p \in Block /\ p # b /\ b \notin Ancestors[p] /\ NULL \notin Block
  BY AncestorsHeight, BlockTreeAssumption
<1>3. /\ new \in Database
      /\ new.diskindex[p] = b
      /\ \A c \in Block \ {p} : new.diskindex[c] = IF c = b THEN pnext[b] ELSE pdb.diskindex[c]
      /\ Records(new) = Records(pdb) \cup {b, p}
  BY <1>1, ConnectBlockEffect
<1>4. pdb' = [new EXCEPT !.hashBestChain = b] /\ pnext' = [pnext EXCEPT ![p] = b]
      /\ nBestInvalidTrust' = nBestInvalidTrust
  BY DEF InnerConnects
<1> HIDE DEF new
<1>5. /\ pdb' \in Database /\ pdb'.hashBestChain = b
      /\ pdb'.diskindex = new.diskindex /\ Records(pdb') = Records(new)
  BY <1>3, <1>4, SetHashBestChain
<1>6. pnext' \in [Block -> Block \cup {NULL}] /\ pnext'[p] = b
      /\ \A c \in Block \ {p} : pnext'[c] = pnext[c]
  BY <1>1, <1>2, <1>4
<1>7. ASSUME Linked(pnext, p), Linked(pdb.diskindex, p)
      PROVE  Linked(pnext', b) /\ Linked(pdb'.diskindex, b)
  <2>1. pnext[b] \notin Block
    BY <1>2, <1>7, UnlinkedOffChain
  <2>2. Linked(pnext', b)
    BY <1>6, <1>7, LinkedConnect
  <2>3. pdb'.diskindex[p] = b
        /\ \A c \in Block \ {p} : pdb'.diskindex[c] = pdb.diskindex[c] \/ (c = b /\ pdb'.diskindex[c] \notin Block)
    BY <1>3, <1>5, <2>1
  <2> DEFINE f == pdb.diskindex
             g == pdb'.diskindex
  <2>4. Linked(g, b)
    <3>1. Linked(f, p) /\ g[p] = b
          /\ \A c \in Block \ {p} : g[c] = f[c] \/ (c = b /\ g[c] \notin Block)
      BY <1>7, <2>3
    <3> HIDE DEF f, g
    <3> QED BY <3>1, LinkedConnect
  <2> QED BY <2>2, <2>4
<1> QED BY <1>1, <1>3, <1>4, <1>5, <1>6, <1>7

\* What a failed SetBestChainInner does: nothing but the alarm.
LEMMA InnerFailsEffect ==
    ASSUME TypeOK, NEW b \in Block, InnerFails(b)
    PROVE  pdb' = pdb /\ pnext' = pnext /\ nBestInvalidTrust' \in Nat
BY BlockTreeAssumption DEF TypeOK, InnerFails, InvalidChainFound
\* Extending the best chain keeps memory and disk together; failing to extend
\* it changes neither.
LEMMA ExtendStep ==
    ASSUME ChainInv, Extend
    PROVE  ChainInv'
<1>1. TypeOK /\ pc = "SetBestChain" /\ Busy /\ pc # "down"
  BY DEF ChainInv, Extend, Busy
<1>2. pindexNew \in Block \ {Genesis} /\ hashPrevBlock[pindexNew] = pindexBest
  BY BlockTreeAssumption DEF ChainInv, TypeOK, Extend
<1>3. /\ mapBlockIndex' = mapBlockIndex /\ batch' = batch /\ postponedFailed' = postponedFailed
      /\ pindexNew' = pindexNew /\ pindexIntermediate' = pindexIntermediate
      /\ pfork' = pfork /\ cursor' = cursor
      /\ pc' = "idle"
  BY DEF Extend, control, NewBestBlock
<1>4. mapBlockIndex = Records(pdb) /\ pindexNew \in Records(pdb) /\ pindexBest \in Records(pdb)
  BY <1>1 DEF ChainInv, IndexInv
<1>5. CursorInv'
  BY <1>3 DEF CursorInv, Walking
<1>6. CASE InnerConnects(pindexNew) /\ pindexBest' = pindexNew
  <2>1. /\ pdb' \in Database /\ pdb'.hashBestChain = pindexNew
        /\ pnext' \in [Block -> Block \cup {NULL}]
        /\ nBestInvalidTrust' \in Nat
        /\ Records(pdb') = Records(pdb)
        /\ Linked(pnext, pindexBest) /\ Linked(pdb.diskindex, pindexBest)
             => Linked(pnext', pindexNew) /\ Linked(pdb'.diskindex, pindexNew)
    BY <1>1, <1>2, <1>4, <1>6, InnerConnectsEffect
  <2>2. TypeOK'
    BY <1>1, <1>3, <1>6, <2>1 DEF TypeOK
  <2>3. IndexInv'
    BY <1>3, <1>4, <1>6, <2>1 DEF ChainInv, IndexInv, Busy, Walking
  <2>4. LinkInv'
    BY <1>1, <1>3, <1>6, <2>1 DEF ChainInv, LinkInv, Walking
  <2> QED BY <1>5, <2>2, <2>3, <2>4 DEF ChainInv
<1>7. CASE InnerFails(pindexNew) /\ pindexBest' = pindexBest
  <2>1. pdb' = pdb /\ pnext' = pnext /\ nBestInvalidTrust' \in Nat
    BY <1>1, <1>2, <1>7, InnerFailsEffect
  <2>2. TypeOK'
    BY <1>1, <1>3, <1>7, <2>1 DEF TypeOK
  <2>3. IndexInv'
    BY <1>1, <1>3, <1>7, <2>1 DEF ChainInv, IndexInv, Busy, Walking
  <2>4. LinkInv'
    BY <1>1, <1>3, <1>7, <2>1 DEF ChainInv, LinkInv, Walking
  <2> QED BY <1>5, <2>2, <2>3, <2>4 DEF ChainInv
<1> QED BY <1>6, <1>7 DEF Extend, NewBestBlock

\* The block SetBestChain reorganises to lies on the way to the new one.
LEMMA IntermediateOnPath ==
    ASSUME pindexNew \in Block
    PROVE  Intermediate \in Ancestors[pindexNew] /\ Intermediate \in Block
<1>1. CASE Postponed = {}
  BY <1>1, AncestorsClosed DEF Intermediate
<1>2. CASE Postponed # {}
  <2>1. Postponed \in SUBSET Block
    BY AncestorsClosed DEF Postponed
  <2>2. PICK b \in Postponed : \A c \in Postponed : nHeight[b] <= nHeight[c]
    BY <1>2, <2>1, LowestBlock
  <2>3. (CHOOSE d \in Postponed : \A c \in Postponed : nHeight[d] <= nHeight[c]) \in Postponed
    BY <2>2
  <2>4. \A d \in Postponed : hashPrevBlock[d] \in Ancestors[pindexNew]
    BY AncestorsClosed DEF Postponed, ClosedUnderParent
  <2> QED BY <1>2, <2>3, <2>4, AncestorsClosed DEF Intermediate
<1> QED BY <1>1, <1>2

\* Reorganize starts at the tip, with the fork below it.
LEMMA StartReorganizeStep ==
    ASSUME ChainInv, StartReorganize
    PROVE  ChainInv'
<1>1. TypeOK /\ pc = "SetBestChain" /\ Busy /\ pc # "down" /\ pindexNew \in Block /\ pindexBest \in Block
      /\ pdb \in Database
  BY DEF ChainInv, StartReorganize, Busy, TypeOK
<1>2. /\ UNCHANGED <<mapBlockIndex, pnext, pindexBest, nBestInvalidTrust, pdb, pindexNew, postponedFailed>>
      /\ batch' = pdb /\ cursor' = pindexBest
  BY DEF StartReorganize
<1>3. pindexIntermediate' \in Ancestors[pindexNew] /\ pindexIntermediate' \in Block
  BY <1>1, IntermediateOnPath DEF StartReorganize
<1>4. /\ pfork' \in Ancestors[pindexBest] \cap Ancestors[pindexIntermediate']
      /\ pfork' \in Block
      /\ Ancestors[pindexBest] \cap Ancestors[pindexIntermediate'] = Ancestors[pfork']
  BY <1>1, <1>3, ForkIsShared DEF StartReorganize
<1>5. pc' = IF pindexBest = pfork' THEN "connect" ELSE "disconnect"
  BY DEF StartReorganize
<1>6. TypeOK'
  BY <1>1, <1>2, <1>3, <1>4, <1>5 DEF TypeOK
<1>7. IndexInv'
  BY <1>1, <1>2, <1>5 DEF ChainInv, IndexInv, Busy, Walking
<1>8. CursorInv'
  <2>1. pc' = "disconnect" => pindexBest \in Branch(pfork', pindexBest)
    <3> SUFFICES ASSUME pindexBest # pfork', pindexBest \in Ancestors[pfork'] PROVE FALSE
      BY <1>1, <1>5, AncestorsClosed DEF Branch
    <3>1. nHeight[pindexBest] = nHeight[pfork']
      BY <1>1, <1>4, AncestorsHeight
    <3> QED BY <3>1, <1>4, <1>1, AncestorsHeight
  <2>2. pc' = "connect" => pindexBest \in Ancestors[pindexIntermediate'] /\ pfork' \in Ancestors[pindexBest]
    BY <1>4, <1>5
  <2> QED BY <1>2, <1>3, <1>4, <1>5, <2>1, <2>2 DEF CursorInv, Walking, Branch
<1>9. LinkInv'
  <2>1. ~postponedFailed => /\ Linked(pdb.diskindex, pdb.hashBestChain)
                            /\ pindexBest = pdb.hashBestChain /\ Linked(pnext, pindexBest)
    BY <1>1 DEF ChainInv, LinkInv
  <2> QED BY <1>2, <1>5, <2>1 DEF LinkInv, Walking
<1> QED BY <1>6, <1>7, <1>8, <1>9 DEF ChainInv

\* Taking a block off touches only the batch.
LEMMA DisconnectStep ==
    ASSUME ChainInv, ReorganizeDisconnect
    PROVE  ChainInv'
<1> DEFINE p == hashPrevBlock[cursor]
<1>1. /\ TypeOK /\ pc = "disconnect" /\ pc \in Walking /\ Busy /\ pc # "down"
      /\ pindexBest \in Block /\ pfork \in Block /\ cursor \in Block
  BY DEF ChainInv, ReorganizeDisconnect, Busy, TypeOK, Walking
<1>2. /\ UNCHANGED <<mapBlockIndex, pnext, pindexBest, nBestInvalidTrust, pdb, pindexNew,
                      pindexIntermediate, pfork, postponedFailed>>
      /\ batch' = DisconnectBlock(batch, cursor) /\ cursor' = p
      /\ pc' = IF p = pfork THEN "connect" ELSE "disconnect"
  BY DEF ReorganizeDisconnect
<1>3. /\ cursor \in Ancestors[pindexBest] \ Ancestors[pfork] /\ pfork \in Ancestors[pindexBest]
      /\ pfork \in Ancestors[pindexIntermediate]
      /\ pindexIntermediate \in Ancestors[pindexNew]
      /\ Ancestors[pindexBest] \cap Ancestors[pindexIntermediate] = Ancestors[pfork]
  BY <1>1 DEF ChainInv, CursorInv, Branch
<1>4. cursor # Genesis
  BY <1>1, <1>3, GenesisIsAncestor
<1>5. p \in Ancestors[pindexBest] /\ p \in Block
  BY <1>1, <1>3, <1>4, AncestorsClosed DEF ClosedUnderParent
<1>6. batch \in Database /\ Records(batch) = mapBlockIndex /\ mapBlockIndex = Records(pdb)
      /\ pindexBest \in mapBlockIndex /\ ClosedUnderParent(mapBlockIndex)
  BY <1>1 DEF ChainInv, IndexInv, TypeOK
<1>7. p \in mapBlockIndex
  <2>1. mapBlockIndex \in SUBSET Block
    BY <1>1 DEF TypeOK
  <2> QED BY <1>1, <1>5, <1>6, <2>1, AncestorsLeast
<1>8. /\ batch' \in Database /\ batch'.diskindex[p] = NULL
      /\ \A c \in Block \ {p} : batch'.diskindex[c] = batch.diskindex[c]
      /\ Records(batch') = mapBlockIndex
  <2> DEFINE new == DisconnectBlock(batch, cursor)
  <2>1. /\ new \in Database /\ new.diskindex[p] = NULL
        /\ \A c \in Block \ {p} : new.diskindex[c] = batch.diskindex[c]
        /\ Records(new) = Records(batch) \cup {p}
    BY <1>1, <1>4, <1>6, DisconnectBlockEffect
  <2>2. batch' = new
    BY <1>2
  <2> HIDE DEF new
  <2> QED BY <1>6, <1>7, <2>1, <2>2
<1>9. TypeOK'
  BY <1>1, <1>2, <1>5, <1>8 DEF TypeOK
<1>10. IndexInv'
  BY <1>1, <1>2, <1>8 DEF ChainInv, IndexInv, Busy, Walking
<1>11. CursorInv'
  <2>1. p # pfork => p \notin Ancestors[pfork]
    <3> SUFFICES ASSUME p # pfork, p \in Ancestors[pfork] PROVE FALSE
      OBVIOUS
    <3>1. nHeight[p] < nHeight[pfork] /\ nHeight[p] \in Nat /\ nHeight[pfork] \in Nat
      BY <1>1, AncestorsHeight, BlockTreeAssumption
    <3>2. nHeight[cursor] = nHeight[p] + 1
      BY <1>1, <1>4, BlockTreeAssumption
    <3>3. nHeight[cursor] <= nHeight[pfork]
      BY <3>1, <3>2
    <3>4. cursor \in Ancestors[pfork]
      BY <1>1, <1>3, <3>3, ChainLinear
    <3> QED BY <3>4, <1>3
  <2>2. p = pfork => p \in Ancestors[pindexIntermediate] /\ pfork \in Ancestors[p]
    BY <1>1, <1>3, AncestorsClosed
  <2> QED BY <1>2, <1>3, <1>5, <2>1, <2>2 DEF CursorInv, Walking, Branch
<1>12. LinkInv'
  <2>1. ~postponedFailed => /\ Linked(pdb.diskindex, pdb.hashBestChain)
                            /\ pindexBest = pdb.hashBestChain /\ Linked(pnext, pindexBest)
                            /\ Linked(batch.diskindex, cursor)
    BY <1>1 DEF ChainInv, LinkInv, Walking
  <2> DEFINE f == batch.diskindex
             g == batch'.diskindex
  <2>2. Linked(f, cursor) => Linked(g, p)
    <3>1. g[p] \notin Block /\ \A c \in Block \ {p} : g[c] = f[c]
      BY <1>8, BlockTreeAssumption
    <3> HIDE DEF f, g
    <3> QED BY <1>1, <1>4, <3>1, LinkedDisconnect
  <2>3. ~postponedFailed => Linked(batch'.diskindex, cursor')
    BY <1>2, <2>1, <2>2
  <2> QED BY <1>2, <2>1, <2>3 DEF LinkInv, Walking
<1> QED BY <1>9, <1>10, <1>11, <1>12 DEF ChainInv
\* Putting a block on touches only the batch: the record it writes for the block
\* takes pnext from memory, where a block off the old best chain has none.
LEMMA ConnectStep ==
    ASSUME ChainInv, ReorganizeConnect
    PROVE  ChainInv'
<1> DEFINE c == NextConnect
           new == ConnectBlock(batch, c)
<1>1. /\ TypeOK /\ pc = "connect" /\ pc \in Walking /\ Busy /\ pc # "down"
      /\ pindexBest \in Block /\ pfork \in Block /\ cursor \in Block
      /\ pindexIntermediate \in Block /\ pindexNew \in Block
      /\ pnext \in [Block -> Block \cup {NULL}]
  BY DEF ChainInv, ReorganizeConnect, Busy, TypeOK, Walking
<1>2. /\ UNCHANGED <<mapBlockIndex, pnext, pindexBest, nBestInvalidTrust, pdb, pc, pindexNew,
                      pindexIntermediate, pfork, postponedFailed>>
      /\ batch' = new /\ cursor' = c /\ cursor # pindexIntermediate
  BY DEF ReorganizeConnect
<1>3. /\ cursor \in Ancestors[pindexIntermediate] /\ pfork \in Ancestors[cursor]
      /\ pfork \in Ancestors[pindexBest] \cap Ancestors[pindexIntermediate]
      /\ pindexIntermediate \in Ancestors[pindexNew]
      /\ Ancestors[pindexBest] \cap Ancestors[pindexIntermediate] = Ancestors[pfork]
  BY <1>1 DEF ChainInv, CursorInv
<1>4. /\ c \in Ancestors[pindexIntermediate] \ {Genesis} /\ c \in Block \ {Genesis}
      /\ hashPrevBlock[c] = cursor
  BY <1>1, <1>2, <1>3, StepTowardsExists DEF NextConnect
<1> HIDE DEF c
<1>5. pfork \in Ancestors[c]
  BY <1>3, <1>4, AncestorsUnfold
<1>6. c \notin Ancestors[pindexBest]
  <2> SUFFICES ASSUME c \in Ancestors[pindexBest] PROVE FALSE
    OBVIOUS
  <2>1. c \in Ancestors[pfork]
    BY <1>3, <1>4
  <2>2. nHeight[c] <= nHeight[pfork] /\ nHeight[pfork] <= nHeight[cursor]
        /\ nHeight[c] \in Nat /\ nHeight[pfork] \in Nat /\ nHeight[cursor] \in Nat
    BY <1>1, <1>3, <2>1, AncestorsHeight
  <2>3. nHeight[c] = nHeight[cursor] + 1
    BY <1>4, BlockTreeAssumption
  <2> QED BY <2>2, <2>3
<1>7. batch \in Database /\ Records(batch) = mapBlockIndex /\ mapBlockIndex = Records(pdb)
      /\ pindexNew \in mapBlockIndex /\ ClosedUnderParent(mapBlockIndex)
      /\ mapBlockIndex \in SUBSET Block
  BY <1>1 DEF ChainInv, IndexInv, TypeOK
<1>8. c \in mapBlockIndex /\ cursor \in mapBlockIndex
  <2>1. Ancestors[pindexNew] \subseteq mapBlockIndex
    BY <1>1, <1>7, AncestorsLeast
  <2>2. Ancestors[pindexIntermediate] \subseteq Ancestors[pindexNew]
    BY <1>1, <1>3, AncestorsTransitive
  <2> QED BY <1>3, <1>4, <2>1, <2>2
<1>9. /\ new \in Database /\ new.diskindex[cursor] = c
      /\ \A d \in Block \ {cursor} : new.diskindex[d] = IF d = c THEN pnext[c] ELSE batch.diskindex[d]
      /\ Records(new) = mapBlockIndex
  <2>1. /\ new \in Database /\ new.diskindex[cursor] = c
        /\ \A d \in Block \ {cursor} : new.diskindex[d] = IF d = c THEN pnext[c] ELSE batch.diskindex[d]
        /\ Records(new) = Records(batch) \cup {c, cursor}
    BY <1>1, <1>4, <1>7, ConnectBlockEffect
  <2> QED BY <1>7, <1>8, <2>1
<1> HIDE DEF new
<1>10. TypeOK'
  BY <1>1, <1>2, <1>4, <1>9 DEF TypeOK
<1>11. IndexInv'
  BY <1>1, <1>2, <1>9 DEF ChainInv, IndexInv, Busy, Walking
<1>12. CursorInv'
  BY <1>1, <1>2, <1>3, <1>4, <1>5 DEF CursorInv, Walking
<1>13. LinkInv'
  <2>1. ~postponedFailed => /\ Linked(pdb.diskindex, pdb.hashBestChain)
                            /\ pindexBest = pdb.hashBestChain /\ Linked(pnext, pindexBest)
                            /\ Linked(batch.diskindex, cursor)
    BY <1>1 DEF ChainInv, LinkInv, Walking
  <2>2. Linked(pnext, pindexBest) => pnext[c] \notin Block
    BY <1>1, <1>4, <1>6, UnlinkedOffChain
  <2> DEFINE f == batch.diskindex
             g == new.diskindex
  <2>3. Linked(f, cursor) /\ pnext[c] \notin Block => Linked(g, c)
    <3> SUFFICES ASSUME Linked(f, cursor), pnext[c] \notin Block PROVE Linked(g, c)
      OBVIOUS
    <3>1. g[cursor] = c /\ \A d \in Block \ {cursor} : g[d] = f[d] \/ (d = c /\ g[d] \notin Block)
      BY <1>9
    <3> HIDE DEF f, g
    <3> QED BY <1>4, <3>1, LinkedConnect
  <2>4. ~postponedFailed => Linked(batch'.diskindex, cursor')
    BY <1>2, <2>1, <2>2, <2>3
  <2> QED BY <1>1, <1>2, <2>1, <2>4 DEF LinkInv, Walking
<1> QED BY <1>10, <1>11, <1>12, <1>13 DEF ChainInv

\* An aborted reorganisation leaves disk and memory as they were.
LEMMA FailStep ==
    ASSUME ChainInv, ReorganizeFails
    PROVE  ChainInv'
<1>1. /\ TypeOK /\ pc \in Walking /\ pc # "down" /\ pc' = "idle" /\ batch' = NULL
      /\ UNCHANGED <<mapBlockIndex, pnext, pindexBest, pdb, pindexNew, pindexIntermediate,
                      pfork, cursor, postponedFailed>>
  BY DEF ChainInv, ReorganizeFails, control, Walking
<1>2. nBestInvalidTrust' \in Nat
  BY BlockTreeAssumption DEF ChainInv, TypeOK, ReorganizeFails, InvalidChainFound
<1>3. TypeOK'
  BY <1>1, <1>2 DEF TypeOK
<1>4. IndexInv'
  BY <1>1 DEF ChainInv, IndexInv, Busy, Walking
<1>5. CursorInv'
  BY <1>1 DEF CursorInv, Walking
<1>6. LinkInv'
  BY <1>1 DEF ChainInv, LinkInv, Walking
<1> QED BY <1>3, <1>4, <1>5, <1>6 DEF ChainInv

\* The commit replaces the old best chain by the new one on disk and, link by
\* link, in memory.
LEMMA CommitStep ==
    ASSUME ChainInv, ReorganizeCommits
    PROVE  ChainInv'
<1>1. /\ TypeOK /\ pc = "connect" /\ pc \in Walking /\ pc # "down" /\ Busy
      /\ cursor = pindexIntermediate
      /\ pindexBest \in Block /\ pfork \in Block /\ cursor \in Block /\ pindexNew \in Block
      /\ pnext \in [Block -> Block \cup {NULL}]
  BY DEF ChainInv, ReorganizeCommits, TypeOK, Walking, Busy
<1>2. /\ UNCHANGED <<mapBlockIndex, nBestInvalidTrust, pindexNew, pindexIntermediate, pfork,
                      cursor, postponedFailed>>
      /\ pdb' = [batch EXCEPT !.hashBestChain = pindexIntermediate]
      /\ batch' = NULL /\ pnext' = Relink
      /\ \/ pindexIntermediate = pindexNew /\ pc' = "idle" /\ pindexBest' = pindexNew
         \/ pindexIntermediate # pindexNew /\ pc' = "secondary" /\ pindexBest' = pindexBest
  BY DEF ReorganizeCommits, NewBestBlock, control
<1>3. /\ pindexIntermediate \in Ancestors[pindexNew]
      /\ Ancestors[pindexBest] \cap Ancestors[pindexIntermediate] = Ancestors[pfork]
  BY <1>1 DEF ChainInv, CursorInv
<1>4. batch \in Database /\ Records(batch) = mapBlockIndex /\ mapBlockIndex = Records(pdb)
      /\ pindexNew \in mapBlockIndex /\ pindexBest \in mapBlockIndex
      /\ ClosedUnderParent(mapBlockIndex) /\ mapBlockIndex \in SUBSET Block
  BY <1>1 DEF ChainInv, IndexInv, TypeOK
<1>5. /\ pdb' \in Database /\ pdb'.hashBestChain = pindexIntermediate
      /\ pdb'.diskindex = batch.diskindex /\ Records(pdb') = mapBlockIndex
  BY <1>1, <1>2, <1>4, SetHashBestChain
<1>6. Relink \in [Block -> Block \cup {NULL}]
  <2> SUFFICES ASSUME NEW b \in Block PROVE Relink[b] \in Block \cup {NULL}
    BY DEF Relink
  <2>1. Connected \in SUBSET Block
    BY <1>1, AncestorsClosed DEF Connected, Branch
  <2> DEFINE on == {d \in Connected : hashPrevBlock[d] = b}
  <2>2. on # {} => (CHOOSE d \in on : TRUE) \in Block
    BY <2>1
  <2>3. Relink[b] \in {CHOOSE d \in on : TRUE, NULL, pnext[b]} /\ (on = {} => Relink[b] \in {NULL, pnext[b]})
    BY DEF Relink
  <2> HIDE DEF on
  <2> QED BY <1>1, <2>2, <2>3, Zenon
<1>7. TypeOK'
  BY <1>1, <1>2, <1>5, <1>6 DEF TypeOK
<1>8. IndexInv'
  <2>1. pindexIntermediate \in mapBlockIndex
    BY <1>1, <1>3, <1>4, AncestorsLeast
  <2> QED BY <1>2, <1>4, <1>5, <2>1 DEF IndexInv, Busy, Walking
<1>9. CursorInv'
  BY <1>1, <1>2, <1>3 DEF CursorInv, Walking
<1>10. LinkInv'
  <2>1. ~postponedFailed => Linked(pnext, pindexBest) /\ Linked(batch.diskindex, pindexIntermediate)
    BY <1>1 DEF ChainInv, LinkInv, Walking
  <2>2. ~postponedFailed => Linked(pnext', pindexIntermediate)
    BY <1>1, <1>2, <1>3, <2>1, RelinkLinks
  <2>3. ~postponedFailed => Linked(pdb'.diskindex, pdb'.hashBestChain)
    BY <1>5, <2>1
  <2> QED BY <1>1, <1>2, <1>5, <2>2, <2>3 DEF LinkInv, Walking
<1> QED BY <1>7, <1>8, <1>9, <1>10 DEF ChainInv
\* A postponed block is connected like any other; if it is not, the history
\* variable says that memory has left the disk behind.
LEMMA SecondaryStep ==
    ASSUME ChainInv, ConnectSecondary
    PROVE  ChainInv'
<1> DEFINE c == NextSecondary
<1>1. /\ TypeOK /\ pc = "secondary" /\ pc # "down" /\ Busy
      /\ cursor \in Block /\ pindexNew \in Block
  BY DEF ChainInv, ConnectSecondary, TypeOK, Busy
<1>2. UNCHANGED <<mapBlockIndex, batch, pindexNew, pindexIntermediate, pfork>>
  BY DEF ConnectSecondary
<1>3. pindexIntermediate \in Ancestors[pindexNew] /\ cursor \in Ancestors[pindexNew] /\ cursor # pindexNew
  BY <1>1 DEF ChainInv, CursorInv
<1>4. c \in Ancestors[pindexNew] /\ c \in Block \ {Genesis} /\ hashPrevBlock[c] = cursor
  BY <1>1, <1>3, StepTowardsExists DEF NextSecondary
<1>5. mapBlockIndex = Records(pdb) /\ pindexNew \in mapBlockIndex /\ ClosedUnderParent(mapBlockIndex)
      /\ mapBlockIndex \in SUBSET Block /\ pindexBest \in mapBlockIndex
  BY <1>1 DEF ChainInv, IndexInv, TypeOK
<1>6. c \in mapBlockIndex /\ cursor \in mapBlockIndex
  <2>1. Ancestors[pindexNew] \subseteq mapBlockIndex
    BY <1>1, <1>5, AncestorsLeast
  <2> QED BY <1>3, <1>4, <2>1
<1>7. CASE /\ InnerConnects(c) /\ cursor' = c /\ postponedFailed' = postponedFailed
           /\ \/ c = pindexNew /\ pindexBest' = pindexNew /\ pc' = "idle"
              \/ c # pindexNew /\ pindexBest' = pindexBest /\ pc' = pc
  <2>1. /\ pdb' \in Database /\ pdb'.hashBestChain = c
        /\ pnext' \in [Block -> Block \cup {NULL}]
        /\ nBestInvalidTrust' \in Nat
        /\ Records(pdb') = mapBlockIndex
        /\ Linked(pnext, cursor) /\ Linked(pdb.diskindex, cursor)
             => Linked(pnext', c) /\ Linked(pdb'.diskindex, c)
    <3> HIDE DEF c
    <3> QED BY <1>1, <1>4, <1>5, <1>6, <1>7, InnerConnectsEffect
  <2> HIDE DEF c
  <2>2. TypeOK'
    BY <1>1, <1>2, <1>4, <1>7, <2>1 DEF TypeOK
  <2>3. IndexInv'
    BY <1>1, <1>2, <1>5, <1>6, <1>7, <2>1 DEF IndexInv, Busy, Walking
  <2>4. CursorInv'
    BY <1>1, <1>2, <1>3, <1>4, <1>7 DEF CursorInv, Walking
  <2>5. LinkInv'
    <3>1. ~postponedFailed => Linked(pnext', c) /\ Linked(pdb'.diskindex, c)
      BY <1>1, <2>1 DEF ChainInv, LinkInv
    <3> QED BY <1>1, <1>2, <1>7, <2>1, <3>1 DEF LinkInv, Walking
  <2> QED BY <2>2, <2>3, <2>4, <2>5 DEF ChainInv
<1>8. CASE InnerFails(c) /\ pindexBest' = pindexNew /\ pc' = "idle" /\ postponedFailed' = TRUE
           /\ cursor' = cursor
  <2>1. pdb' = pdb /\ pnext' = pnext /\ nBestInvalidTrust' \in Nat
    BY <1>1, <1>4, <1>8, InnerFailsEffect
  <2>2. TypeOK'
    BY <1>1, <1>2, <1>8, <2>1 DEF TypeOK
  <2>3. IndexInv'
    BY <1>1, <1>2, <1>5, <1>8, <2>1 DEF ChainInv, IndexInv, Busy, Walking
  <2>4. CursorInv'
    BY <1>8 DEF CursorInv, Walking
  <2>5. LinkInv'
    BY <1>8 DEF LinkInv
  <2> QED BY <2>2, <2>3, <2>4, <2>5 DEF ChainInv
<1> QED BY <1>7, <1>8, Zenon DEF ConnectSecondary, NewBestBlock

\* A crash at any of these points loses nothing that was committed.
LEMMA CrashStep ==
    ASSUME ChainInv, Crash
    PROVE  ChainInv'
<1>1. /\ TypeOK /\ pc' = "down" /\ batch' = NULL
      /\ UNCHANGED <<mapBlockIndex, pnext, pindexBest, nBestInvalidTrust, pdb, pindexNew,
                      pindexIntermediate, pfork, cursor, postponedFailed>>
  BY DEF ChainInv, Crash, control
<1>2. TypeOK'
  BY <1>1 DEF TypeOK
<1>3. IndexInv'
  BY <1>1 DEF ChainInv, IndexInv, Busy, Walking
<1>4. CursorInv'
  BY <1>1 DEF CursorInv, Walking
<1>5. LinkInv'
  BY <1>1 DEF ChainInv, LinkInv, Walking
<1> QED BY <1>2, <1>3, <1>4, <1>5 DEF ChainInv

\* LoadBlockIndex rebuilds the memory index from the records, and steps back
\* only to a block of the best chain.
LEMMA RestartStep ==
    ASSUME ChainInv, Restart
    PROVE  ChainInv'
<1>1. /\ TypeOK /\ pc = "down" /\ pdb \in Database
      /\ UNCHANGED <<nBestInvalidTrust, pdb, batch, postponedFailed>>
      /\ mapBlockIndex' = Records(pdb) /\ pindexBest' = pdb.hashBestChain
      /\ pnext' = [b \in Block |-> IF OnDisk(b) THEN pdb.diskindex[b] ELSE NULL]
  BY DEF ChainInv, Restart, TypeOK, Records, OnDisk
<1>2. /\ pdb.hashBestChain \in Block /\ pdb.diskindex \in [Block -> Block \cup {NULL, Absent}]
      /\ Absent \notin Block \cup {NULL} /\ NULL \notin Block
  BY <1>1, BlockTreeAssumption, ControlAssumption DEF Database
<1>3. ClosedUnderParent(Records(pdb)) /\ pdb.hashBestChain \in Records(pdb) /\ Records(pdb) \in SUBSET Block
  BY DEF ChainInv, IndexInv, Records
<1>4. Ancestors[pdb.hashBestChain] \subseteq Records(pdb)
  BY <1>2, <1>3, AncestorsLeast
<1>5. \/ pc' = "idle" /\ UNCHANGED control
      \/ /\ pc' = "SetBestChain" /\ pindexNew' \in Records(pdb)
         /\ UNCHANGED <<pindexIntermediate, pfork, cursor>>
  <2>1. PICK bad \in SUBSET ((Suspect \cap Ancestors[pdb.hashBestChain]) \ {Genesis}) :
          IF bad = {}
            THEN pc' = "idle" /\ UNCHANGED control
            ELSE SetBestChain(hashPrevBlock[CHOOSE b \in bad : \A c \in bad : nHeight[b] <= nHeight[c]])
    BY Zenon DEF Restart
  <2>2. CASE bad = {}
    BY <2>1, <2>2
  <2>3. CASE bad # {}
    <3> DEFINE low == CHOOSE b \in bad : \A c \in bad : nHeight[b] <= nHeight[c]
    <3>1. bad \in SUBSET Block
      BY <1>2, AncestorsClosed
    <3>2. PICK b \in bad : \A c \in bad : nHeight[b] <= nHeight[c]
      BY <2>3, <3>1, LowestBlock
    <3>3. low \in bad
      BY <3>2
    <3>4. pc' = "SetBestChain" /\ pindexNew' = hashPrevBlock[low]
          /\ UNCHANGED <<pindexIntermediate, pfork, cursor>>
      BY <2>1, <2>3 DEF SetBestChain
    <3> HIDE DEF low
    <3>5. hashPrevBlock[low] \in Ancestors[pdb.hashBestChain]
      BY <1>2, <3>3, AncestorsClosed DEF ClosedUnderParent
    <3> QED BY <1>4, <3>4, <3>5
  <2> QED BY <2>2, <2>3
<1>6. TypeOK'
  <2>1. pnext' \in [Block -> Block \cup {NULL}]
    BY <1>1, <1>2 DEF OnDisk
  <2> QED BY <1>1, <1>2, <1>3, <1>5, <2>1 DEF TypeOK, control
<1>7. IndexInv'
  BY <1>1, <1>3, <1>5 DEF IndexInv, Busy, Walking
<1>8. CursorInv'
  BY <1>5 DEF CursorInv, Walking
<1>9. LinkInv'
  <2>1. ~postponedFailed => Linked(pdb.diskindex, pdb.hashBestChain)
    BY DEF ChainInv, LinkInv
  <2>2. \A b, c \in Block : pnext'[b] = c <=> pdb.diskindex[b] = c
    BY <1>1, <1>2 DEF OnDisk
  <2>3. ~postponedFailed => Linked(pnext', pindexBest')
    BY <1>1, <2>1, <2>2 DEF Linked
  <2> QED BY <1>1, <1>5, <2>1, <2>3 DEF LinkInv, Walking
<1> QED BY <1>6, <1>7, <1>8, <1>9 DEF ChainInv

\* Everything the invariant speaks of is left alone by a loose transaction and
\* by a step that changes nothing.
LEMMA UnchangedStep ==
    ASSUME ChainInv,
           UNCHANGED <<mapBlockIndex, pnext, pindexBest, nBestInvalidTrust, pdb, batch, pc,
                       pindexNew, pindexIntermediate, pfork, cursor, postponedFailed>>
    PROVE  ChainInv'
<1>1. TypeOK'
  BY DEF ChainInv, TypeOK
<1>2. IndexInv'
  BY DEF ChainInv, IndexInv, Busy
<1>3. CursorInv'
  BY DEF ChainInv, CursorInv
<1>4. LinkInv'
  BY DEF ChainInv, LinkInv
<1> QED BY <1>1, <1>2, <1>3, <1>4 DEF ChainInv

-----------------------------------------------------------------------------
(* The invariant and what follows from it.                                 *)

\* The invariant is inductive: every step of the node keeps it.
THEOREM ChainInvHolds == Spec => []ChainInv
<1>1. ChainInv /\ [Next]_vars => ChainInv'
  <2> SUFFICES ASSUME ChainInv, [Next]_vars PROVE ChainInv'
    OBVIOUS
  <2>1. ASSUME NEW b \in Block, AcceptBlock(b) PROVE ChainInv'
    BY <2>1, AcceptBlockStep
  <2>2. ASSUME NEW b \in Block, SetBestChainToCheckpoint(b) PROVE ChainInv'
    BY <2>2, CheckpointStep
  <2>3. ASSUME NEW t \in Tx, AcceptToMemoryPool(t) PROVE ChainInv'
    BY <2>3, UnchangedStep DEF AcceptToMemoryPool, index, control
  <2>4. CASE Extend
    BY <2>4, ExtendStep
  <2>5. CASE StartReorganize
    BY <2>5, StartReorganizeStep
  <2>6. CASE ReorganizeDisconnect
    BY <2>6, DisconnectStep
  <2>7. CASE ReorganizeConnect
    BY <2>7, ConnectStep
  <2>8. CASE ReorganizeFails
    BY <2>8, FailStep
  <2>9. CASE ReorganizeCommits
    BY <2>9, CommitStep
  <2>10. CASE ConnectSecondary
    BY <2>10, SecondaryStep
  <2>11. CASE Crash
    BY <2>11, CrashStep
  <2>12. CASE Restart
    BY <2>12, RestartStep
  <2>13. CASE UNCHANGED vars
    BY <2>13, UnchangedStep DEF vars, control
  <2> QED
    BY <2>1, <2>2, <2>3, <2>4, <2>5, <2>6, <2>7, <2>8, <2>9, <2>10, <2>11, <2>12, <2>13
    DEF Next, Work
<1> QED BY <1>1, InitChainInv, PTL DEF Spec

\* Every variable of the chain state keeps its type: no pointer of the index
\* ever leaves the set of blocks, whatever is connected, aborted or reloaded.
THEOREM TypeCorrect == Spec => []TypeOK
<1>1. ChainInv => TypeOK
  BY DEF ChainInv
<1> QED BY <1>1, ChainInvHolds, PTL

\* Between two calls of SetBestChain the best block and the links in memory are
\* those on disk (Reorganize, SetBestChainInner, LoadBlockIndex).
THEOREM MemoryFollowsDiskHolds == Spec => []MemoryFollowsDisk
<1>1. ChainInv => MemoryFollowsDisk
  BY DEF ChainInv, LinkInv, MemoryFollowsDisk
<1> QED BY <1>1, ChainInvHolds, PTL

\* A crash at any moment finds a complete best chain with its links on disk.
THEOREM DiskIsConsistentHolds == Spec => []DiskIsConsistent
<1>1. ChainInv => DiskIsConsistent
  <2> SUFFICES ASSUME ChainInv, ~postponedFailed PROVE DiskIsConsistent
    BY DEF DiskIsConsistent
  <2>1. Records(pdb) \in SUBSET Block /\ pdb.hashBestChain \in Records(pdb)
        /\ ClosedUnderParent(Records(pdb))
    BY DEF ChainInv, IndexInv, Records
  <2>2. Ancestors[pdb.hashBestChain] \subseteq Records(pdb)
    BY <2>1, AncestorsLeast
  <2> QED BY <2>2 DEF ChainInv, LinkInv, DiskIsConsistent, Records, OnDisk
<1> QED BY <1>1, ChainInvHolds, PTL
=============================================================================
