-------------------------------- MODULE TxDB --------------------------------
(***************************************************************************)
(* CTxDB (txdb-leveldb.h, txdb-leveldb.cpp): short-lived handles on one    *)
(* shared leveldb.  A handle may hold an activeBatch, a log of puts and    *)
(* deletes that every write of the handle appends to and every read of the *)
(* handle scans before it looks at the database.                           *)
(*                                                                         *)
(* Keys and values are opaque; a delete is a put of NotFound in the log.   *)
(* Writes and commits may fail; reads of leveldb itself do not.            *)
(***************************************************************************)
EXTENDS SequencesExt

CONSTANTS
    Handle,     \* CTxDB objects alive at the same time
    Key, Value,
    NotFound,   \* the answer to a read of an absent key
    NULL,
    MaxBatch    \* bound: writes logged in one batch

VARIABLES
    pdb,            \* the leveldb contents
    activeBatch,    \* handle -> NULL or the sequence of logged operations
    lastRead        \* the latest Read call and its answer

vars == <<pdb, activeBatch, lastRead>>

Init ==
    /\ pdb = [k \in Key |-> NotFound]
    /\ activeBatch = [h \in Handle |-> NULL]
    /\ lastRead = NULL

-----------------------------------------------------------------------------
\* A scanner that stops at the first entry for the needle.
ScanFirst(scan, op, needle) ==
    IF op.key = needle /\ ~scan.foundEntry THEN [foundEntry |-> TRUE, val |-> op.val] ELSE scan

\* One call of CBatchScanner::Put or CBatchScanner::Delete on scan: the flag
\* foundEntry, and the value found, NotFound standing for *deleted = true.
Scan(scan, op, needle) ==
    IF op.key = needle THEN [foundEntry |-> TRUE, val |-> op.val] ELSE scan

ScanBatch(batch, k) ==
    FoldLeft(LAMBDA scan, op : Scan(scan, op, k),
             [foundEntry |-> FALSE, val |-> NotFound], batch)

\* leveldb applies the operations of a batch in the order they were logged.
Install(batch) ==
    FoldLeft(LAMBDA db, op : [db EXCEPT ![op.key] = op.val], pdb, batch)

\* What CTxDB::Read answers.
Read(h, k) ==
    IF activeBatch[h] # NULL /\ ScanBatch(activeBatch[h], k).foundEntry
      THEN ScanBatch(activeBatch[h], k).val
      ELSE pdb[k]

\* A look at the database alone.
ExistsIgnoresBatch(h, k) == pdb[k] # NotFound

\* What CTxDB::Exists answers: a pending delete falls through to the database.
Exists(h, k) ==
    \/ /\ activeBatch[h] # NULL
       /\ ScanBatch(activeBatch[h], k).foundEntry
       /\ ScanBatch(activeBatch[h], k).val # NotFound
    \/ pdb[k] # NotFound

-----------------------------------------------------------------------------
TxnBegin(h) ==
    /\ activeBatch[h] = NULL
    /\ activeBatch' = [activeBatch EXCEPT ![h] = <<>>]
    /\ UNCHANGED <<pdb, lastRead>>

\* Into the batch if there is one, else to the database, where it may fail.
Write(h, k, v) ==
    \/ /\ activeBatch[h] # NULL
       /\ Len(activeBatch[h]) < MaxBatch
       /\ activeBatch' = [activeBatch EXCEPT ![h] = Append(@, [key |-> k, val |-> v])]
       /\ UNCHANGED <<pdb, lastRead>>
    \/ /\ activeBatch[h] = NULL
       /\ pdb' \in {[pdb EXCEPT ![k] = v], pdb}
       /\ UNCHANGED <<activeBatch, lastRead>>

Erase(h, k) == Write(h, k, NotFound)

\* The batch is deleted whether or not leveldb took it.
TxnCommit(h) ==
    /\ activeBatch[h] # NULL
    /\ pdb' \in {Install(activeBatch[h]), pdb}
    /\ activeBatch' = [activeBatch EXCEPT ![h] = NULL]
    /\ UNCHANGED lastRead

\* TxnAbort, and the destructor of a handle that goes out of scope.
TxnAbort(h) ==
    /\ activeBatch[h] # NULL
    /\ activeBatch' = [activeBatch EXCEPT ![h] = NULL]
    /\ UNCHANGED <<pdb, lastRead>>

ReadKey(h, k) ==
    /\ lastRead' = <<h, k, Read(h, k)>>
    /\ UNCHANGED <<pdb, activeBatch>>

\* The process dies: every batch in memory is gone, leveldb keeps its contents.
Crash ==
    /\ activeBatch' = [h \in Handle |-> NULL]
    /\ UNCHANGED <<pdb, lastRead>>

Next ==
    \/ \E h \in Handle : TxnBegin(h) \/ TxnCommit(h) \/ TxnAbort(h)
    \/ \E h \in Handle, k \in Key :
         \/ Erase(h, k)
         \/ ReadKey(h, k)
         \/ \E v \in Value : Write(h, k, v)
    \/ Crash

Spec == Init /\ [][Next]_vars

-----------------------------------------------------------------------------
\* The overlay a batch stands for: the value of the last operation on a key.
Pending(batch) ==
    [k \in Key |->
        LET ops == {i \in DOMAIN batch : batch[i].key = k}
        IN  IF ops = {} THEN NULL ELSE batch[CHOOSE i \in ops : \A j \in ops : j <= i].val]

Abstract == INSTANCE TransactionalStore WITH
    store <- pdb,
    overlay <- [h \in Handle |-> IF activeBatch[h] = NULL THEN NULL ELSE Pending(activeBatch[h])]

\* The log-and-scan implementation of CTxDB is a transactional store: Read
\* sees exactly the handle's own pending writes over the database, and a
\* commit publishes exactly what Read was answering.
ImplementsTransactionalStore == Abstract!Spec

\* Whatever Read finds, ContainsTx finds: a transaction that a pending batch
\* has indexed is known before the batch is committed (CTxDB::Exists).
ReadableExists ==
    \A h \in Handle, k \in Key : Read(h, k) # NotFound => Exists(h, k)
=============================================================================
