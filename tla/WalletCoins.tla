----------------------------- MODULE WalletCoins -----------------------------
(***************************************************************************)
(* The coins of the wallet (wallet.cpp) on top of the best chain: mapWallet*)
(* with the block and the spent flags of each transaction, kept up to date *)
(* by the callbacks of ConnectBlock and DisconnectBlock, by loose          *)
(* transactions, by the wallet's own ones, by repairs, and reloaded, maybe *)
(* from a backup, after a restart.                                         *)
(*                                                                         *)
(* Every change of an entry is written to wallet.dat at once, so mapWallet *)
(* stands for the file too and a crash leaves it as it is, while what the  *)
(* database of the chain has not committed is lost.  The callbacks run     *)
(* before that commit; a step of its own (told) shows what falls between.  *)
(***************************************************************************)
EXTENDS BestChain

CONSTANTS
    Mine,               \* the outpoints that pay to a key of the wallet
    Own,                \* the transactions the wallet may make itself
    WalletOrder,        \* all transactions, parents first: the order of Reaccept
    MaturityMargin,     \* blocks GetBlocksToMaturity asks beyond nCoinbaseMaturity (5)
    Backups             \* whether the user keeps and restores a backup

ASSUME WalletAssumption ==
    /\ Mine \subseteq Tx \X Nat
    /\ Own \subseteq Relayable
    /\ Range(WalletOrder) = Tx
    /\ MaturityMargin \in Nat
    /\ Backups \in BOOLEAN

VARIABLES
    mapWallet,          \* transaction -> hashBlock and the outputs marked spent
    bestblock,          \* the block whose locator is in wallet.dat
    walletState,        \* "unloaded", "loaded" or, once re-accepted, "ready"
    told,               \* ConnectBlock has called the wallet for the block at hand
    stale,              \* history: what the wallet was told and the chain did not do
    backup              \* a copy of wallet.dat

wvars == <<mapWallet, bestblock, walletState, told, stale, backup>>
allvars == <<vars, wvars>>

WalletTx == [hashBlock : Block \cup {NULL}, vfSpent : SUBSET Nat]

\* BestChain and the wallet keep their types; only outputs that exist are
\* ever marked (MarkSpent and MarkUnspent throw otherwise), and no callback is
\* left pending between two calls of SetBestChain.
WalletTypeOK ==
    /\ TypeOK
    /\ \A t \in Tx : mapWallet[t] # NULL =>
         /\ mapWallet[t].hashBlock \in Block \cup {NULL}
         /\ mapWallet[t].vfSpent \subseteq 1..nOut[t]
    /\ bestblock \in mapBlockIndex \/ pc = "down"
    /\ walletState \in {"unloaded", "loaded", "ready"}
    /\ told => pc \in {"SetBestChain", "secondary"}
    /\ stale \subseteq {"spent", "lost", "block"}

WalletInit ==
    /\ Init
    /\ mapWallet = [t \in Tx |-> NULL]
    /\ bestblock = Genesis
    /\ walletState = "ready"
    /\ told = FALSE
    /\ stale = {}
    /\ backup = NULL

-----------------------------------------------------------------------------
(* CWallet on the entries w.                                               *)

OutputsOf(t) == {t} \X (1..nOut[t])

IsMine(t) == OutputsOf(t) \cap Mine # {}

\* GetDebit: a coin of the wallet is spent.
IsFromMe(w, t) == \E o \in vin[t] \cap Mine : w[o[1]] # NULL

\* The flag of the output after the one that is spent.
MarkSpentNext(w, coins) ==
    [t \in Tx |-> IF w[t] = NULL THEN NULL
                  ELSE [w[t] EXCEPT !.vfSpent = @ \cup {n + 1 : n \in {n \in 1..nOut[t] : <<t, n>> \in coins}}]]

MarkSpent(w, coins) ==
    [t \in Tx |-> IF w[t] = NULL THEN NULL
                  ELSE [w[t] EXCEPT !.vfSpent = @ \cup {n \in 1..nOut[t] : <<t, n>> \in coins}]]

MarkUnspent(w, coins) ==
    [t \in Tx |-> IF w[t] = NULL THEN NULL
                  ELSE [w[t] EXCEPT !.vfSpent = @ \ {n \in 1..nOut[t] : <<t, n>> \in coins}]]

\* Only the flags of new coins are set.
WalletUpdateSpentNoInputs(w, t, fBlock) ==
    IF fBlock THEN MarkUnspent(w, OutputsOf(t) \cap Mine) ELSE w

WalletUpdateSpent(w, t, fBlock) ==
    LET spent == MarkSpent(w, vin[t] \cap Mine)
    IN  IF fBlock THEN MarkUnspent(spent, OutputsOf(t) \cap Mine) ELSE spent

\* The merge forgets the new block of a transaction that was there.
AddToWalletKeepsBlock(w, t, b) ==
    LET entry == IF w[t] = NULL THEN [hashBlock |-> b, vfSpent |-> {}] ELSE w[t]
    IN  WalletUpdateSpent([w EXCEPT ![t] = entry], t, b # NULL)

\* b is the block the transaction was found in, or NULL.
AddToWallet(w, t, b) ==
    LET entry == IF w[t] = NULL THEN [hashBlock |-> b, vfSpent |-> {}]
                 ELSE [w[t] EXCEPT !.hashBlock = IF b = NULL THEN @ ELSE b]
    IN  WalletUpdateSpent([w EXCEPT ![t] = entry], t, b # NULL)

\* For a transaction that is not the wallet's WalletUpdateSpent finds nothing.
AddToWalletIfInvolvingMe(w, t, b, fUpdate) ==
    IF (w[t] # NULL /\ fUpdate) \/ (w[t] = NULL /\ (IsMine(t) \/ IsFromMe(w, t)))
      THEN AddToWallet(w, t, b) ELSE w

DisableTransactionNever(w, t) == w

\* The inputs of a coinstake that leaves the chain are given back.
DisableTransaction(w, t) ==
    IF t \in CoinStake /\ IsFromMe(w, t) THEN MarkUnspent(w, vin[t] \cap Mine) ELSE w

\* SyncWithWallets for the transactions of a block; there may be no wallet yet.
SyncBlock(w, b, fUpdate) ==
    InOrder(LAMBDA v, t : AddToWalletIfInvolvingMe(v, t, b, fUpdate), w, vtx[b])

SyncConnected(w, b) == IF walletState = "unloaded" THEN w ELSE SyncBlock(w, b, TRUE)

SyncDisconnected(w, b) ==
    IF walletState = "unloaded" THEN w ELSE InOrder(DisableTransaction, w, vtx[b])

\* ScanForWalletTransactions from a block of the best chain up.
ScanForWalletTransactions(w, from, fUpdate) ==
    LET scan[b \in Ancestors[pindexBest]] ==
            IF nHeight[b] < nHeight[from] THEN w
            ELSE SyncBlock(IF b = Genesis THEN w ELSE scan[hashPrevBlock[b]], b, fUpdate)
    IN  scan[pindexBest]

\* The coins the transaction index says are spent.
SpentInIndex(w) ==
    {o \in Mine : /\ w[o[1]] # NULL /\ pdb.txindex[o[1]] # NULL
                  /\ pdb.txindex[o[1]].vSpent[o[2]] # NULL}

\* ReacceptWalletTransactions: coins spent "by a copy of wallet.dat" are marked;
\* if there are any, their spenders are looked for.  What that finds may be
\* spent in turn, by transactions the wallet has, hence a second round.
ReacceptSkips(w, t) ==
    \/ t \in CoinBase /\ 1 \in w[t].vfSpent
    \/ t \in CoinStake /\ 2 \in w[t].vfSpent

ReacceptMarks(w) == MarkSpent(w, {o \in SpentInIndex(w) : ~ReacceptSkips(w, o[1])})

ReacceptCoins(w) ==
    IF ReacceptMarks(w) = w THEN w
    ELSE ReacceptMarks(ScanForWalletTransactions(ReacceptMarks(w), Genesis, FALSE))

\* ... and the wallet's loose transactions go back to the memory pool.
ReacceptLoose(w, pool) ==
    InOrder(LAMBDA p, t : IF w[t] # NULL /\ t \notin Generated
                                /\ MayAccept(p, t, pdb.txindex, pindexBest)
                            THEN addUnchecked(p, t) ELSE p,
            pool, WalletOrder)

-----------------------------------------------------------------------------
(* Coins that can be spent.                                                *)

\* GetDepthInMainChain.
Confirmed(t) == mapWallet[t].hashBlock # NULL /\ IsInMainChain(mapWallet[t].hashBlock)

\* IsTrusted: confirmed, or loose and the wallet's own, like all it rests on.
Trusted ==
    LET tr[t \in Tx] ==
            /\ mapWallet[t] # NULL
            /\ \/ Confirmed(t)
               \/ /\ t \in mempool.mapTx
                  /\ IsFromMe(mapWallet, t)
                  /\ \A o \in vin[t] : tr[o[1]]
    IN  {t \in Tx : tr[t]}

AvailableCoins ==
    {o \in Mine : /\ o[1] \in Trusted
                  /\ o[2] \in 1..nOut[o[1]] \ mapWallet[o[1]].vfSpent
                  /\ o[1] \in Generated =>
                       nHeight[pindexBest] - nHeight[mapWallet[o[1]].hashBlock] + 1
                         >= nCoinbaseMaturity + MaturityMargin}

-----------------------------------------------------------------------------
(* The chain moves, and calls the wallet.                                  *)

\* What the wallet was told is not in the database.
ToldInVain == stale' = IF walletState = "unloaded" THEN stale ELSE {"spent", "lost", "block"}

\* SetBestChain hands its locator to the wallets unless blocks are being caught up.
WriteBestBlock ==
    IF pindexBest' # pindexBest /\ walletState # "unloaded"
      THEN bestblock' \in {bestblock, pindexNew}
      ELSE UNCHANGED bestblock

\* The end of ConnectBlock inside SetBestChainInner, before the commit.
Tell(b) ==
    /\ ~told
    /\ Connectable(pdb, b)
    /\ told' = TRUE
    /\ mapWallet' = SyncConnected(mapWallet, b)
    /\ UNCHANGED <<vars, bestblock, walletState, stale, backup>>

TellExtend ==
    /\ pc = "SetBestChain"
    /\ hashPrevBlock[pindexNew] = pindexBest
    /\ Tell(pindexNew)

TellSecondary ==
    /\ pc = "secondary"
    /\ Tell(NextSecondary)

\* The commit, or a failure of it or of ConnectBlock before it called the wallet.
InnerReturns ==
    /\ Extend \/ ConnectSecondary
    /\ pdb' # pdb => told
    /\ told' = FALSE
    /\ IF told /\ pdb' = pdb THEN ToldInVain ELSE UNCHANGED stale
    /\ WriteBestBlock
    /\ UNCHANGED <<mapWallet, walletState, backup>>

WalletDisconnect ==
    /\ ReorganizeDisconnect
    /\ mapWallet' = SyncDisconnected(mapWallet, cursor)
    \* LoadBlockIndex rewinds before there is a wallet to tell; a copy is never told
    /\ stale' = IF walletState = "unloaded" THEN stale \cup {"lost"} ELSE stale
    /\ backup' = IF backup = NULL THEN NULL ELSE [backup EXCEPT !.stale = @ \cup {"lost"}]
    /\ UNCHANGED <<bestblock, walletState, told>>

WalletConnect ==
    /\ ReorganizeConnect
    /\ mapWallet' = SyncConnected(mapWallet, NextConnect)
    /\ UNCHANGED <<bestblock, walletState, told, stale, backup>>

WalletReorganizeFails ==
    /\ ReorganizeFails
    /\ ToldInVain
    /\ UNCHANGED <<mapWallet, bestblock, walletState, told, backup>>

WalletReorganizeCommits ==
    /\ ReorganizeCommits
    /\ WriteBestBlock
    /\ UNCHANGED <<mapWallet, walletState, told, stale, backup>>

\* Steps of the chain that do not concern the wallet.  Before the wallet is
\* loaded the node listens to nobody.
ChainOnly ==
    /\ \/ walletState # "unloaded" /\ \E b \in Block : AcceptBlock(b) \/ SetBestChainToCheckpoint(b)
       \/ StartReorganize
    /\ UNCHANGED wvars

-----------------------------------------------------------------------------
(* Transactions, repairs and restarts.                                     *)

\* The message "tx", or sendrawtransaction.
ReceiveTx(t) ==
    /\ walletState # "unloaded"
    /\ AcceptToMemoryPool(t)
    /\ mapWallet' = AddToWalletIfInvolvingMe(mapWallet, t, NULL, TRUE)
    /\ UNCHANGED <<bestblock, walletState, told, stale, backup>>

\* CreateTransaction and CommitTransaction, under one hold of both locks.
CommitTransaction(t) ==
    /\ pc = "idle" /\ walletState # "unloaded"
    /\ t \in Own /\ mapWallet[t] = NULL
    /\ vin[t] \subseteq AvailableCoins
    /\ mapWallet' = MarkSpent(AddToWallet(mapWallet, t, NULL), vin[t])
    /\ mempool' = IF MayAccept(mempool, t, pdb.txindex, pindexBest)
                    THEN addUnchecked(mempool, t) ELSE mempool
    /\ UNCHANGED <<index, pnext, pindexBest, nBestInvalidTrust, pc, control, postponedFailed,
                   bestblock, walletState, told, stale, backup>>

\* repairwallet runs without cs_main, so a block may be half-way connected; it
\* reads what is committed.
FixSpentCoins ==
    /\ pc # "down" /\ walletState = "ready"
    /\ LET indexed == {o \in Mine : mapWallet[o[1]] # NULL /\ pdb.txindex[o[1]] # NULL}
       IN  mapWallet' = MarkSpent(MarkUnspent(mapWallet, indexed), SpentInIndex(mapWallet))
    /\ stale' = IF pc = "idle" THEN stale \ {"spent", "lost"} ELSE stale \cup {"spent", "lost"}
    /\ UNCHANGED <<vars, bestblock, walletState, told, backup>>

\* ScanForWalletTransactions and ReacceptWalletTransactions: scanforalltxns.
ScanForAllTxns ==
    /\ pc = "idle" /\ walletState = "ready"
    /\ mapWallet' = ReacceptCoins(ScanForWalletTransactions(mapWallet, Genesis, TRUE))
    /\ mempool' = ReacceptLoose(mapWallet', mempool)
    /\ stale' = {}
    /\ UNCHANGED <<index, pnext, pindexBest, nBestInvalidTrust, pc, control, postponedFailed,
                   bestblock, walletState, told, backup>>

WalletCrash ==
    /\ Crash
    /\ IF told \/ batch # NULL THEN ToldInVain ELSE UNCHANGED stale
    /\ told' = FALSE
    /\ walletState' = "unloaded"
    /\ UNCHANGED <<mapWallet, bestblock, backup>>

WalletRestart == Restart /\ UNCHANGED wvars

\* LoadWallet and the rescan from the locator, if it is below the best block.
LoadWallet ==
    /\ pc = "idle" /\ walletState = "unloaded"
    /\ LET from == ForkOf(bestblock, pindexBest)
       IN  mapWallet' = IF nHeight[pindexBest] > nHeight[from]
                          THEN ScanForWalletTransactions(mapWallet, from, TRUE) ELSE mapWallet
    /\ walletState' = "loaded"
    /\ UNCHANGED <<vars, bestblock, told, stale, backup>>

ReacceptWalletTransactions ==
    /\ pc = "idle" /\ walletState = "loaded"
    /\ mapWallet' = ReacceptCoins(mapWallet)
    /\ mempool' = ReacceptLoose(mapWallet', mempool)
    /\ walletState' = "ready"
    /\ UNCHANGED <<index, pnext, pindexBest, nBestInvalidTrust, pc, control, postponedFailed,
                   bestblock, told, stale, backup>>

\* The user copies wallet.dat, and puts the copy back while the node is down.
BackupWallet ==
    /\ Backups /\ backup = NULL
    /\ pc = "idle" /\ walletState = "ready"
    /\ backup' = [mapWallet |-> mapWallet, bestblock |-> bestblock, stale |-> stale]
    /\ UNCHANGED <<vars, mapWallet, bestblock, walletState, told, stale>>

RestoreBackup ==
    /\ pc = "down" /\ backup # NULL
    /\ mapWallet' = backup.mapWallet /\ bestblock' = backup.bestblock
    /\ stale' = backup.stale
    /\ backup' = NULL
    /\ UNCHANGED <<vars, walletState, told>>

WalletNext ==
    \/ ChainOnly
    \/ TellExtend \/ TellSecondary \/ InnerReturns
    \/ WalletDisconnect \/ WalletConnect \/ WalletReorganizeFails \/ WalletReorganizeCommits
    \/ \E t \in Tx : ReceiveTx(t) \/ CommitTransaction(t)
    \/ FixSpentCoins \/ ScanForAllTxns
    \/ WalletCrash \/ WalletRestart \/ LoadWallet \/ ReacceptWalletTransactions
    \/ BackupWallet \/ RestoreBackup

WalletSpec == WalletInit /\ [][WalletNext]_allvars

-----------------------------------------------------------------------------
(* Properties.                                                             *)

Settled == pc = "idle" /\ walletState = "ready" /\ ~postponedFailed

\* The wallet never offers a coin that the best chain has spent, however the
\* chain got there and whatever was restored (WalletUpdateSpent, the rescan of
\* init.cpp and ReacceptWalletTransactions): in a wallet that was not told in
\* vain every such coin is marked.
SpentCoinsMarked ==
    Settled /\ "spent" \notin stale =>
        \A o \in SpentInIndex(mapWallet) : o[2] \in mapWallet[o[1]].vfSpent

\* No coin is lost: a coin of the best chain that is marked is spent by that
\* chain, or by a transaction the wallet has and may still confirm.  A
\* coinstake that left the chain cannot, so DisableTransaction has to have given
\* its inputs back.
NoCoinLost ==
    Settled /\ "lost" \notin stale =>
        \A t \in Tx : mapWallet[t] # NULL /\ pdb.txindex[t] # NULL =>
            \A n \in mapWallet[t].vfSpent :
                \/ <<t, n>> \in SpentInIndex(mapWallet)
                \/ \E u \in Tx \ Generated : mapWallet[u] # NULL /\ <<t, n>> \in vin[u]

\* Every transaction of the best chain that pays to the wallet or spends a coin
\* of it is in the wallet, with the block it is in; so its depth is right,
\* after reorganisations, restarts and a restored backup.
ChainIsInWallet ==
    Settled /\ "block" \notin stale =>
        \A t \in Tx : pdb.txindex[t] # NULL /\ (IsMine(t) \/ vin[t] \cap Mine # {}) =>
            mapWallet[t] # NULL /\ mapWallet[t].hashBlock = pdb.txindex[t].pos

\* wallet.cpp:2786 says of the memory pool's answer to the wallet's own new
\* transaction: "This must not fail. The transaction has already been signed and
\* recorded."
CommitNeverRefused ==
    [][\A t \in Tx : CommitTransaction(t) => t \in mempool'.mapTx]_allvars
=============================================================================
