# Synergy: a TLA+ verification of the node

Synergy is a proof-of-stake coin in the line Bitcoin, PPCoin, NovaCoin. This
directory holds TLA+ models of the parts of its node that decide what the block
chain is, what survives a crash, which loose transactions and blocks are kept,
which peers the node talks to, how it gets their blocks, and what the wallet
knows of its coins and keys. TLC checks them on small instances, and
TLAPS proves the main invariants for every instance. `PROJECT.json` lists the
components, the runs, the hazards, and for each definition the lines it models.

    tlc -config MCBestChainFaults.cfg MCBestChain     check one run
    tlapm BestChainProofs.tla                         check the proofs of a module

## 1. The system

| Part | State | Operations | What makes it hard |
|---|---|---|---|
| Chain database (`txdb-leveldb.*`) | one leveldb, an optional batch per handle | read, write, erase, begin, commit, abort | reads must see the batch; a commit may fail; crashes |
| Best chain (`main.cpp`) | `mapBlockIndex`, `pnext`, `pindexBest`, block records, transaction index | `SetBestChain`, `Reorganize`, `ConnectBlock`, `DisconnectBlock` | memory and disk change in several steps, any of which may fail |
| Memory pool (`main.cpp`) | `mapTx`, `mapNextTx` | accept, remove, remove conflicts | follows a chain that moves back and forth |
| Block intake (`main.cpp`) | block index, orphan blocks, stakes seen | `ProcessBlock`, `AcceptBlock`, orphan loop, `LoadBlockIndex` | blocks arrive in any order |
| Sync-checkpoints (`checkpoints.cpp`) | current, pending and invalid checkpoint, master key | message, pending, write, reset | a checkpoint moves the chain first and is written later |
| Orphan transactions (`main.cpp`) | orphan map, index by parent | add, erase, limit, the message `tx` | several parents, eviction, conflicts |
| Address manager (`addrman.*`) | tables, buckets, a random order, counters | add, good, shrink, evict, save, load | five structures that have to agree |
| Connections (`net.*`, `sync.h`) | nodes, list, pool, reference counts, semaphore | accept, connect, poll, drop, delete | three threads |
| Messages and inventory (`main.cpp`, `net.h`) | requests, known inventory | `ProcessMessage`, `SendMessages` | batches, filters for duplicates, retries, lost connections |
| Wallet (`wallet.*`) | transactions with their block and spent flags, the locator | callbacks of the chain, own transactions, rescan, repair | told before the chain commits; restored backups |
| Keys and wallet file (`wallet.*`, `keystore.*`, `walletdb.*`, `db.*`) | key pool, master keys, `wallet.dat`, use counts | reserve, keep, return, encrypt, rewrite, flush, back up | crashes between any two writes; several threads |
| Staking (`miner.cpp`, `kernel.cpp`) | the block being built, stake modifiers | build, sign, submit | the best chain moves meanwhile |
| Secure messages (`smessage.cpp`) | buckets, queues | exchange, store, send | own threads and peers |
| Alerts, scripts, RPC, names, GUI | | | |

`cs_main` serialises everything that touches the chain, the pool, the orphans
and the checkpoints; the handlers of peers' messages run under it. The chain
calls the pool when it moves; block intake calls the chain; a checkpoint calls
the chain too; every one of them commits through the database. The chain calls
the wallet for each block it connects or disconnects, before it commits. The
network threads share only the list of nodes and the address manager with the
rest.

## 2. The modules

| Module | Models | EXTENDS |
|---|---|---|
| `TransactionalStore` | what the code expects of the database (abstract) | |
| `TxDB` | `CTxDB`: batches and handles on one leveldb | |
| `BlockTree`, `Ledger` | the tree of blocks, the transactions in it | |
| `MemPool` | `CTxMemPool` | `Ledger` |
| `BestChain` | `SetBestChain` and all it calls, crash and restart | `MemPool` |
| `ChainSelection` | the promise: the node moves through valid chains of growing trust (abstract) | |
| `ChainRefinement` | the mapping from `BestChain` to `ChainSelection` | `BestChain` |
| `BlockIntake` | `ProcessBlock`, orphan blocks, checkpoints, start-up | `BlockTree` |
| `OrphanTx` | orphan transactions and the message `tx` | `MemPool` |
| `AddrMan` | `CAddrMan` | |
| `Connections` | nodes, threads, outbound semaphore | |
| `ChainSync` | version, inv, getblocks, getdata and block between nodes | `BlockTree` |
| `WalletCoins` | the wallet's transactions and spent flags on top of the chain | `BestChain` |
| `WalletFile` | key pool, encryption, `wallet.dat` and its handles | |
| `BlockTreeTheorems`, `BestChainProofs`, `BlockIntakeProofs`, `ConnectionsProofs`, `OrphanTxProofs`, `WalletFileProofs` | theorems | |
| `MC*` | instances for TLC | |

**TxDB.** `Write` and `Erase` go to the open batch of the handle or to the
database, where a single write can fail. `TxnCommit` installs the batch whole,
or not at all. `Scan` replays the batch the way `CBatchScanner` does. `Crash`
drops the handles and keeps the database. Its refinement mapping into
`TransactionalStore` takes the view of a handle to be the database with its
batch applied.

**BestChain.** The variables keep the names of the code. `pdb` is the database:
block records with their `hashNext`, `hashBestChain` and the transaction index
with its `vSpent` vectors. `batch` is the database as the open transaction of
`Reorganize` sees it. `pc` and `cursor` say how far `SetBestChain` is; the
cursor walks the tree where the code walks `vDisconnect`, `vConnect` and
`vpindexSecondary`. Between two commits, and inside a reorganisation between
two blocks, the process may die. A commit may fail. `SetBestChainToCheckpoint`
stands for the callers in `checkpoints.cpp` and may happen whenever the node is
idle. A restart reads the block index and may step back from a bad block.
BIP30, maturity, double spends inside a block and across blocks are modelled;
scripts, amounts and fees are one set of `Rejected` blocks and one set of
`Relayable` transactions. The history variable `postponedFailed` records that a
postponed reconnect has failed, which is the subject of a finding; the
properties of the faults run are about the states where it has not.

**BlockIntake.** The tree, stakes and checkpoints are constants. A message is a
block (`ProcessBlock`) or a signed checkpoint (`ProcessSyncCheckpoint`).
`SetBestChain` is one step here, with the outcomes `BestChain` shows it has.
The other steps end where the code commits: the block record
(`AcceptBlock`), the chain (`AddToBlockIndex`), the checkpoint
(`WriteSyncCheckpoint`), the master key (`WriteCheckpointPubKey`); each of these
commits may fail. A block whose record could not be committed stays in
`mapBlockIndex`; `ConnectBlock` writes the record again if it connects the block,
and `unrecorded` (history) holds the blocks whose record is missing. A start
reads the records, ends at an assertion when one lacks its parent, and may step
back from a bad block (`rewound`). The orphan loop tries one orphan per step, in
any order. The kernel check depends on the best chain of the moment, so it may
refuse any proof-of-stake block.

**OrphanTx.** `ReceiveTx` is the message `tx` and the orphan loop that follows
works through `vWorkQueue`. A parent may also come from this node
(`AcceptLocalTx`), in a block (`ConnectTx`), or out of a block: a reorganisation
is a number of steps `DisconnectTx` and then `ReconnectTx`, one for each
transaction. The chain is a set of confirmed transactions and of spent outputs.
The rate limiter may refuse any transaction. The history variable `untried` holds
the orphans whose last input came by one of these ways, after which nobody tries
them.

**AddrMan.** The state is that of the class: `mapInfo`, `mapAddr`, `vRandom`,
`vvTried`, `vvNew`, `nTried`, `nNew`, `nIdCount`. The bucket functions are
constants, random choices and times are free. `Reload` writes the tables and
reads them again.

**Connections.** A step is one hold of `cs_vNodes` or one access to a field that
no lock protects. The opening thread passes through `AcquireGrant`, `Dial`,
`ConnectNode`, `MoveGrant` and `MarkNetworkNode`; between the last three the
node is already in the list. When a peer has connected from the address that is
dialled, `ConnectNode` finds its node and adds a reference without `cs_vNodes`:
`FindExisting`, `ReadRefCount` and `WriteRefCount` are the steps of that, and
`reused` (history) the slots where it happened. A checkpoint is relayed by a walk
of `vNodes` without the lock. A thread that touches a deleted node, or a negative
count in `GetRefCount`, ends the program, which starts again. I/O results,
time-outs, bans and messages are free choices of `Poll`. The configuration is the
default one, so one thread opens connections.

**ChainSync.** Every node has its own block index, orphans and requests, and a
`CNode` for each peer; `vSend` is also the wire, so messages arrive in order and
a connection that breaks loses those under way. One step is one message handled
under `cs_main`, one call of `SendMessages`, or a retry that falls due.
`setInventoryKnown` forgets its oldest entries as an `mruset` does; `mapAskFor`,
which is sorted by time, is split into what is due and what is not. The filter
of `PushGetBlocks`, `hashContinue` and `nAskedForBlocks` are as in the code. All
nodes run this code and all blocks are valid.

**WalletCoins.** The actions of `BestChain` with the callbacks they make.
`ConnectBlock` tells the wallet before the database commits, and `wallet.dat` is
written at once: `told` separates the two, so a crash, an abort or a failed
commit can fall in between. `AddToWallet`, `WalletUpdateSpent`,
`DisableTransaction`, the scan and the two repairs are operators on `mapWallet`,
composed as the code composes them. The history variable `stale` says what the
wallet was told in vain (or what changed before it was registered, or beside a
repair); the properties are about wallets without such a mark, and the two
repairs remove it. A transaction of the wallet (`Own`) spends only what
`AvailableCoins` offers.

**WalletFile.** `dat` and `rewrite` are the records of `wallet.dat` and
`wallet.dat.rewrite`. A key made in the pool takes two writes, an encryption one
transaction, the new pool after it two writes per key, and `Rewrite` a copy, a
removal and a renaming; `pc` names the place between them, and `Stop` may happen
at any. A master key is a number; a key encrypted with another one than the
file has cannot be read. `handles`, `mapFileUseCount` and `mapDb` are the
handles that live, their count in `CDBEnv`, and whether the `Db` is open. An
encryption may be aborted and tried again. If the renaming fails the program goes
on without a `wallet.dat`, at the place `nofile`, where every opening of it
throws. `HandOut` is any use of a pool key that is kept, `GetDefaultKey` the one
of the default key when the pool is empty and locked, and `CreateNewBlock` the
use of a pool key that is returned; `given`, `again`, `defaults` and `mined`
(history) are what they used.

## 3. The runs

| Run | Instance | Shows |
|---|---|---|
| `txdb` | 2 handles, 2 keys, batches of 3 | the database implements a transactional store; `ContainsTx` finds what a batch has indexed |
| `chain_faults` | 8 blocks, 3 branches, 5 loose transactions, crashes, failing commits, checkpoints, rewinds | memory, disk, transaction index and pool stay consistent |
| `chain_honest` | 10 blocks, 4 branches, 2 of them invalid, unequal trust | the heaviest valid chain is adopted; `ChainSelection` is implemented |
| `intake` | 7 blocks in any order, 3 branches, one block invalid, one stake used twice, conflicting checkpoints, 2 master keys, crashes, failing commits (of records too), a start that steps back | the best chain and the checkpoint's are on disk; the chain stays on a checkpoint that only advances; orphans are tried when their parent comes; no stake stays taken |
| `addrman` | 4 addresses, 2 sources, 2 new buckets of 1, a tried bucket of 2 | indexes agree, buckets keep their size, tried addresses are not lost |
| `orphan_tx` | 6 transactions, three levels of parents, a conflict, room for 2 orphans, reorganisations, transactions of this node | the index is exact, no orphan whose last input came by a message is forgotten |
| `connections` | 2 nodes, 2 addresses of one group, 2 outbound peers and an inbound one at most, one found connection, the relay of a checkpoint | no node with a reference is deleted; no grant is released twice; one peer per group; a marked inbound node is deleted |
| `wallet_coins` | 5 blocks, 2 branches, a coinbase, 2 coinstakes, own and foreign loose transactions, crashes, failing commits, a backup | spent coins are marked, no coin is lost, the wallet has what the chain has |
| `wallet_file` | pool of 1 and its spare, 5 keys, one encryption and its failed attempts, a renaming that fails, 2 handles | keys survive, none but a default key is handed out twice, handles stay open, a backup covers the pool |
| `chain_sync` | 2 nodes, batches of 2, a fork, 3 blocks ahead and one more made, a broken connection | both nodes end with the best chain; nothing is sent before the handshake |

Runs that show a disagreement between the code and its comments:

| Run | Property | What happens |
|---|---|---|
| `chain_postponed` | `BestChainOnDisk` | a postponed block that fails leaves `pindexBest` ahead of the disk |
| `chain_sync_stake` | `NextBatchFollows` | among proof-of-stake blocks the inv that triggers the next batch names a block the peer has; the download stops until a new block is announced |

Eight definitions state what a comment or an assertion says, or a property
without its exception, and are refuted by their modules; to see it, add the
invariant to the cfg of the run.

| Definition | Run | What happens |
|---|---|---|
| `RecordsHaveParents` | `intake` | after a failed commit of a block's record (`main.cpp:2426`) a child of it may be recorded; the assertion at `kernel.cpp:398` then ends every start |
| `NewKeyResetsCheckpoint` | `intake` | a crash after the new master key is committed, and before the reset, loses the reset (`main.cpp:3021`) |
| `NoOrphanLeft` | `orphan_tx` | nobody tries the orphans of a transaction that comes in a block or from this node (`main.cpp:3719` is in the handler of `tx` only) |
| `AllNodesInUseExist` | `connections` | a node may be deleted while it is used without a reference: by the relay of a checkpoint (`checkpoints.cpp:185`) or by `ConnectNode`, which found it (`net.cpp:490`); the comment is at `net.cpp:708` |
| `PooledNodeReleased` | `connections` | a node dropped before `OpenNetworkConnection` has finished it keeps its reference or its grant (`net.cpp:1520`) |
| `CommitNeverRefused` | `wallet_coins` | the memory pool may refuse a transaction of the wallet after it was recorded, as when a loose transaction the wallet does not know spends the same coin (`wallet.cpp:2786`) |
| `PoolAlwaysUsable` | `wallet_file` | when the renaming in `Rewrite` fails, `EncryptWallet` does not look at the result (`wallet.cpp:410`), and the keys of the pool cannot be read any more in this process |
| `NeverUsedAgain` | `wallet_file` | a key that a block pays to goes back to the pool (`miner.cpp:137`), and the default key is given again by a locked wallet with an empty pool; the comment is at `wallet.cpp:2758` |

More were met while modelling, and the modules keep what the code does; no run
is spent on them.

- `Exists` finds a key that the open batch has deleted, because a pending delete
  falls through to the database (`txdb-leveldb.h:154`).
- The orphan children of a block that was indexed but not connected stay in
  `mapOrphanBlocks` until a restart (`main.cpp:2753`; `OrphansWaitForMissing`
  makes an exception for them, recorded in `notAdded`).
- `SelectTried` remembers the position its entry had before the swap, so another
  entry than the oldest one inspected may be evicted (`addrman.cpp:142`).
- `SyncWithWallets` gets the transaction of the message and not the orphan that
  was just accepted (`main.cpp:3733`).
- A node that gets a branch longer than a batch while it is in its initial
  download may stop asking (`main.cpp:3523`), and `nAskedForBlocks` is never
  reset, so a node that loses the peer it downloads from waits for the next
  announced block if it has others (`main.cpp:3370`). Hence one link, and a fork
  shorter than a batch, in `chain_sync`.
- A crash between the removal and the renaming in `Rewrite` (`db.cpp:431`) makes
  the next start create an empty wallet. The keys are safe in
  `wallet.dat.rewrite`; but if the new wallet is encrypted too, its copy is
  merged onto that file, where the old master key stays and the new keys cannot
  be read with it. With `MaxMasterKeys = 2` TLC finds `KeysSurvive` violated.
- The marks a wallet was told in vain stay until `repairwallet` or
  `scanforalltxns` (`main.cpp:2054`).

*Bounds.* The trees have a fork below a fork, branches that overtake each other
twice, a double spend between branches and one inside a branch, so each step of
a reorganisation happens with and without failure. A batch of three holds a
write, a delete and a second write of one key. The address tables overflow in
both kinds of buckets, and an evicted address returns to either bucket. The
orphan transactions overflow their map. Two nodes are enough for one in the pool
while another is opened or found, and for two outbound peers of one group, if the
code let them be.
In `chain_sync` the chain is longer than a batch and than what
`setInventoryKnown` remembers, and the fork makes the downloader reorganise. In
`wallet_file` the pool is emptied, refilled and replaced, with a key reserved or
in the file only when the process stops. In `wallet_coins` every kind of
transaction is spent by a loose and by a confirmed one, and disconnected again;
its constraint does not follow a behaviour beyond a postponed reconnect that
failed, after which memory and disk stay apart, nor one whose backup was taken
of a wallet that had been told in vain; its view leaves out only what neither a
property nor a later step reads.
Identifiers (`MaxId`), times (`MaxTime`), batches (`MaxBatch`), keys (`MaxKey`),
encryptions (`MaxMasterKeys`), found connections (`MaxReused`) and broken
connections (`MaxDisconnects`) are the only counters that are capped. Symmetry is used for the
handles and the keys of the database and for addresses that the bucket functions
treat alike; never in a run with a liveness property.

*Fairness.* `HeavierChainAdopted` assumes that a call of `SetBestChain` that has
begun goes on, which it does because it holds `cs_main` and waits for nothing;
nothing is assumed of the arrival of blocks. `InboundDeleted` assumes that the
loops of the two handlers go round: `select` has a time-out, and the locks that
could keep a handler waiting on a node are only tried. `AllCatchUp` and
`NextBatchFollows` assume that messages are handled and sent, retries fall due
and connections are made as long as there is something to do, which the loops of
the threads ensure; it is not assumed that blocks are made or that a connection
holds. No other property needs fairness.

*Types.* A module has one type invariant. `TypeOK` of `AddrMan` and `ChainSync`
and `WalletTypeOK` are in their runs; the others are proved for every instance
(`TypeCorrect` in section 4) and not repeated in a run, and in `TxDB` the
refinement fixes what may be stored.

*Deadlock* is checked in every run but `chain_honest` and the two of `ChainSync`,
where the nodes may rest for good once they have every block.

## 4. The theorems

| Module | Theorem | States | For every |
|---|---|---|---|
| `BestChainProofs` | `MemoryFollowsDiskHolds` | between two calls `pindexBest` and `pnext` are those on disk | tree, set of transactions, fault |
| | `DiskIsConsistentHolds` | the disk always has the whole best chain and exactly its links | |
| `BlockIntakeProofs` | `DiskReloadsHolds` | the best chain and the chain of the sync-checkpoint are on disk; elsewhere a record lacks its parent only if the commit of the parent's failed | tree, order of messages, failed commit, crash |
| | `CheckpointOnBestChainHolds` | in strict mode the best chain holds the sync-checkpoint, or is below it after a start that stepped back | |
| | `CheckpointAdvancesHolds` | the sync-checkpoint only moves to descendants | |
| | `OrphansWaitForMissingHolds` | an orphan block whose parent is indexed is not left behind | |
| | `OrphanStakesHeldHolds` | no stake is held but those of the orphans held, and every one of those that no other block is made with | |
| `OrphanTxProofs` | `OrphanIndexExactHolds` | the index by parent has the orphans held, under exactly their inputs | set of transactions, limit, order |
| | `OrphansBoundedHolds` | there are never more than the limit | |
| | `OrphansWaitForParentsHolds` | an orphan whose inputs are all there got the last of them by a block, a reorganisation or this node | |
| `ConnectionsProofs` | `RefsCoverUsersHolds` | a node has a reference for each thread that took one, unless `ConnectNode` wrote its count without the lock | number of nodes and peers |
| | `NodesInUseExistHolds` | a node to which a thread has a reference is not deleted, with the same exception | |
| | `GrantsAccountedHolds` | free grants, held grants and those moved to a deleted node add up to the limit | |
| | `OutboundBoundedHolds` | hence no more outbound nodes than the limit | |
| | `OneOutboundPerGroupHolds` | one outbound peer per group | |
| `WalletFileProofs` | `KeysSurviveHolds` | no key is lost, those of blocks and those handed out included | size of the pool, number of keys, moment of a stop; `MaxMasterKeys <= 1` |
| | `OneFormOfKeysHolds` | no file has plain and encrypted keys | the same; `MaxMasterKeys <= 1` |
| | `PoolUsableHolds` | while there is a `wallet.dat`, every key of the pool has its record and is in the wallet | the same; `MaxMasterKeys <= 1` |
| | `NeverHandedOutTwiceHolds` | the pool on disk has no key that was handed out, and none twice; only default keys are given again | the same; `MaxMasterKeys <= 1` |
| | `BackupCoversPoolHolds` | as many keys as the pool had at a backup are handed out before the first one the backup lacks | the same; `MaxMasterKeys <= 1` |
| | `HandlesAreOpenHolds` | the `Db` is never closed under a handle | the same, and any number of encryptions |
| all five | `TypeCorrect` | the state keeps its type | in `WalletFileProofs` `MaxMasterKeys <= 1` |

*Assumptions* on constants are named in the modules that declare them, and TLC
evaluates them in the runs: the blocks form a tree, finite or not, rooted at the
genesis block, along which heights grow by one and trust grows
(`BlockTreeAssumption`), transactions have outputs, the hardened checkpoints are blocks.

*Ancestors.* `Ancestors` is defined as a least closed set and not by recursion,
so that its laws (`BlockTreeTheorems`: a chain is linear, two chains share
exactly the ancestors of their fork, the step towards a descendant stays on
its chain) follow from the assumption alone.

*BestChain.* None of the invariants is inductive: in the middle of
`Reorganize` the batch belongs to neither branch. `ChainInv` adds where the
cursor is (on the old branch above the fork while disconnecting, on the new one
while connecting), that the batch has exactly the links of the chain of the
cursor, and that the memory has those of the best block. `LinkedDisconnect` and
`LinkedConnect` carry the links over one block; `RelinkLinks` shows that the two
loops over memory at the end give what the batch has.

*BlockIntake.* `IntakeInv` says that the index in memory is closed under parents,
as are the records with the blocks in `unrecorded`; that the records of the best
chain and of the chain of the checkpoint are all there (`ChainsOnDisk`, which is
kept because connecting a block writes its record); and what the call under way
has established: before the checkpoint is written the best chain already holds
it, and it descends from the old one. That is what makes a crash between the two
commits harmless. `Anchored` puts the best chain on the checkpoint, above it or,
after a start that stepped back, below it.

*OrphanTx.* `OrphanTxInv` adds that the orphans are finitely many, that a step
within the handler leaves at most one above the limit, and that an orphan whose
inputs are all there is in `untried` or one of its parents is still in the queue:
`OrphansWaitForParents` is about the moments when the queue is empty, and not
inductive without that.

*Connections.* `RefInv` adds that a handler holds a copy only while it polls,
that a node the opening thread works on is not marked as a network node yet (so
dropping it does not release its reference), and that no peer of the group being
dialled appears meanwhile, since no other thread opens connections. The slots in
`reused` are excepted throughout: there the count says nothing. `GrantInv` says
that a node that is not allocated has no grant, and that an outbound node of the
list has one or is about to get that of the opening thread.

*WalletFile.* `KeyInv` says that memory, the current file and, during an
encryption, its transaction have the same keys in the same form, and that the
copy is complete before `wallet.dat` goes. `PoolInv` adds the pool: its keys are
in the file it is in, none twice and none handed out, and indexes and keys never
exceed the number of keys made, so a key just made is in no pool. `SyncInv` says
that the pool in memory is that of the file but for a reserved key. With
`BackupInv`, that the keys a backup has are the oldest of the pool and at least
as many as it promises, the key reserved, being the oldest, is one of them.
`UseInv` says of the history that a key given again was a default key, and that
one was handed out; `MasterInv` that the file has at most the
master key of the one encryption that was committed. `HandleInv` ties the use
count to the places of the key thread. All but `HandlesAreOpenHolds` assume `MaxMasterKeys <= 1`: with a second encryption after
a crash in `Rewrite` they do not hold (section 3).

*Only model-checked:* liveness (out of TLAPS's reach); both refinements,
`TxIndexIsReplay`, `BestChainValid`, `BestIsHeaviest` and what is said of the
memory pool, the wallet's coins and the download of blocks, whose operators are
folds over sequences of transactions or blocks; the address manager.

## 5. What is left out

- In `BestChain`: money supply and the user interface; the wallet callbacks are
  in `WalletCoins`. Reads of the database succeed. A crash is one of the process;
  what leveldb has acknowledged survives.
- In `BestChain`: a failed commit of the record `AddToBlockIndex` writes first
  (`main.cpp:2426`); `BlockIntake` has it.
- In `BlockIntake`: `CheckBlock`, requests to peers and relaying, testnet and
  the weaker checkpoint modes; after a postponed reconnect has failed no more
  messages are taken. Start-up begins with the genesis block in place.
- In `OrphanTx`: the wallets, which are told of transactions; empty entries of the index by parent are not told from missing ones.
- In `AddrMan`: ports and the statistics that weigh a random choice.
- In `Connections`: sockets and buffers (a node without references has empty
  ones), `-connect`, `-addnode` and `-seednode`, shutdown. The locks tried before
  a node is deleted are free at some time. What is written to a deleted node is
  the end of the program, and not a change of other memory.
- In `ChainSync`: `getheaders`, `mempool`, `addr`, `ping`, alerts and
  checkpoints; invalid blocks and peers that do not follow the protocol; nodes
  that restart. More than one link is left out of the runs, since what is said
  in section 3 of `nAskedForBlocks` makes `AllCatchUp` fail there.
- In `WalletCoins`: amounts, the choice of coins, accounts and the address book.
  One wallet is registered.
- In `WalletFile`: a `Rewrite` that gets no cursor, an `EncryptWallet` that
  cannot begin its transaction (`wallet.cpp:353`, it returns with a master
  key that is in memory only), salvage and upgrades of the file, the scripts of the
  key store. A `Rewrite` that fails has
  copied every record or none (in a wallet that is encrypted once nothing reads
  such a copy).
  Berkeley DB is taken to make a write outside a transaction atomic
  and durable.
- Not modelled at all: the kernel of the proof of stake and the targets and
  rewards (256-bit arithmetic over thousands of blocks, without state of their
  own), the search for a stake, secure messages (a protocol of its own that
  shares only the peers), alerts, scripts, serialisation, name lookup, stealth
  addresses, RPC and the GUI. By far the most lines of the repository are vendored
  (Tor, LevelDB, the hash functions) or belong to the GUI; of the 51 800 lines
  directly in `src/src`, headers and hash functions included, the definitions of
  the modules stand for about 5 900.

## 6. Plan

1. `SecureMessages`: buckets, their exchange between peers and the thread that
   expires them.
2. `Staker`: the staking loop and the reservation of its key against a best chain
   that moves.
3. `StakeModifier`, `Retarget` and `Rewards`: the pure algorithms of `kernel.cpp`
   and `main.cpp` against reference definitions.
4. Start-up from an empty database, and shutdown.

Next proofs: `Check` of the address manager, `TxIndexIsReplay` and with it
`BestChainValid`, the refinement of `ChainSelection`, `HandshakeFirst`.
