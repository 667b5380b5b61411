----------------------------- MODULE WalletFile -----------------------------
(***************************************************************************)
(* The keys of the wallet and the file they are kept in: the key pool      *)
(* (wallet.cpp), the encryption of the wallet, the Berkeley database with  *)
(* its count of open handles, the thread that flushes it, BackupWallet and *)
(* CDB::Rewrite (db.cpp, walletdb.cpp), with a stop or a crash between any *)
(* two writes and a reload.                                                *)
(*                                                                         *)
(* One thread at a time works on the keys: it holds cs_wallet from the     *)
(* reservation of a key to its end, and all through EncryptWallet.  Other  *)
(* threads open handles of their own, for the address book or the locator. *)
(* A write outside a transaction commits by itself (DB_AUTO_COMMIT).       *)
(***************************************************************************)
EXTENDS Naturals, FiniteSets, FiniteSetsExt, Functions

CONSTANTS
    NULL,
    KeyPoolSize,        \* -keypool
    MaxKey,             \* bound: how many keys are ever made
    MaxMasterKeys       \* bound: how many times a wallet is encrypted

ASSUME WalletFileAssumption ==
    /\ KeyPoolSize \in Nat
    /\ MaxKey \in Nat /\ MaxMasterKeys \in Nat

Key == Nat \ {0}

VARIABLES
    dat,                \* wallet.dat: its records; a file that is not there reads as an empty one
    rewrite,            \* wallet.dat.rewrite, likewise
    txn,                \* the transaction of pwalletdbEncryption, or NULL
    keys,               \* mapKeys or mapCryptedKeys
    nMasterKey,         \* mapMasterKeys: the master key, 0 if there is none
    fUseCrypto, locked, \* the state of the key store
    setKeyPool,
    pc,                 \* where the thread that holds cs_wallet is
    newkey,             \* its new key, between the two records of it
    reserved,           \* its CReserveKey: index and key
    mapDb,              \* the Db of wallet.dat is open
    mapFileUseCount,
    handles,            \* the CWalletDB objects that live
    vchDefaultKey,      \* the default key, in memory and in its record; NULL if there is none
    made,               \* history: how many keys were made, and encryptions committed
    given,              \* history: the keys handed out, ...
    again,              \* ... those handed out a second time ...
    defaults,           \* ... and those that were the default key
    mined,              \* history: the keys that blocks to be mined pay to
    backup              \* history: the keys of a backup and how many are to be handed out next

store == <<keys, nMasterKey, fUseCrypto, locked>>
bdb == <<mapDb, mapFileUseCount, handles>>
uses == <<vchDefaultKey, given, again, defaults, mined>>
vars == <<dat, rewrite, txn, store, setKeyPool, pc, newkey, reserved, bdb, made, uses, backup>>

\* The records of a file: "key", "ckey" with the master key it is encrypted
\* with, "mkey" and "pool".
EmptyFile == [key |-> {}, ckey |-> {}, mkey |-> 0, pool |-> <<>>]

KeysOf(f) == f.key \cup {c[1] : c \in f.ckey}

\* The keys a load and a passphrase would bring back.
Readable(f) == f.key \cup {c[1] : c \in {c \in f.ckey : c[2] = f.mkey}}

Without(pool, n) == Restrict(pool, DOMAIN pool \ {n})
With(pool, n, k) == [i \in DOMAIN pool \cup {n} |-> IF i = n THEN k ELSE pool[i]]

\* The steps between which the thread keeps a CWalletDB open.  At "nofile" it is
\* idle as well, but there is no wallet.dat.
Writing == {"topup", "pool", "commit", "erase", "newpool", "newrecord"}
Places == Writing \cup {"down", "idle", "nofile", "reserved", "kept", "committed",
                        "rewrite", "remove", "rename"}

IsFile(f) ==
    /\ f.key \subseteq Key /\ f.ckey \subseteq Key \X (1..MaxMasterKeys)
    /\ f.mkey \in 0..MaxMasterKeys
    /\ DOMAIN f.pool \subseteq Nat /\ Range(f.pool) \subseteq Key

\* The state is well formed; keys are in memory in one form only.
TypeOK ==
    /\ IsFile(dat) /\ IsFile(rewrite) /\ (txn # NULL => IsFile(txn))
    /\ keys \subseteq Key /\ nMasterKey \in 0..MaxMasterKeys
    /\ {fUseCrypto, locked, mapDb} \subseteq BOOLEAN
    /\ locked => fUseCrypto
    /\ setKeyPool \subseteq Nat
    /\ pc \in Places
    /\ mapFileUseCount \in 0..2 /\ handles \subseteq {"keys", "other"}
    /\ given \cup mined \subseteq Key
    /\ again \subseteq given /\ defaults \subseteq given
    /\ vchDefaultKey # NULL => vchDefaultKey \in defaults

Init ==
    /\ dat = EmptyFile /\ rewrite = EmptyFile /\ txn = NULL
    /\ keys = {} /\ nMasterKey = 0 /\ fUseCrypto = FALSE /\ locked = FALSE
    /\ setKeyPool = {}
    /\ pc = "down"
    /\ newkey = NULL /\ reserved = NULL
    /\ mapDb = FALSE /\ mapFileUseCount = 0 /\ handles = {}
    /\ made = [keys |-> 0, master |-> 0]
    /\ vchDefaultKey = NULL
    /\ given = {} /\ again = {} /\ defaults = {} /\ mined = {}
    /\ backup = NULL

-----------------------------------------------------------------------------
(* CDB and CDBEnv.  The constructor, Close, CloseDb and Rewrite hold cs_db. *)

CsDbFree == pc \notin {"remove", "rename"}

Open(h) ==
    /\ mapDb' = TRUE
    /\ mapFileUseCount' = mapFileUseCount + 1
    /\ handles' = handles \cup {h}

Close(h) ==
    /\ mapFileUseCount' = mapFileUseCount - 1
    /\ handles' = handles \ {h}
    /\ UNCHANGED mapDb

\* A handle that is made and destroyed within a step leaves the Db open.
OpenAndClose == mapDb' = TRUE /\ UNCHANGED <<mapFileUseCount, handles>>

\* Another thread, in the address book or at the locator.  The constructor takes
\* its count back and throws if the file is not there, here and in all below.
OtherOpens ==
    /\ pc \notin {"down", "nofile"} /\ CsDbFree
    /\ "other" \notin handles
    /\ Open("other")
    /\ UNCHANGED <<dat, rewrite, txn, store, setKeyPool, pc, newkey, reserved, made, uses, backup>>

OtherCloses ==
    /\ CsDbFree
    /\ "other" \in handles
    /\ Close("other")
    /\ UNCHANGED <<dat, rewrite, txn, store, setKeyPool, pc, newkey, reserved, made, uses, backup>>

\* The Db is closed without regard to its users.
UnusedUnchecked == pc # "down" /\ CsDbFree

Unused == pc # "down" /\ CsDbFree /\ mapFileUseCount = 0

\* One round of the thread's loop that finds something to flush.
ThreadFlushWalletDB ==
    /\ Unused /\ mapDb
    /\ mapDb' = FALSE
    /\ UNCHANGED <<dat, rewrite, txn, store, setKeyPool, pc, newkey, reserved,
                   mapFileUseCount, handles, made, uses, backup>>

\* The file is closed and copied, by a thread that need not hold cs_wallet.  The
\* copy is worth something as long as the keys of its pool are handed out.
BackupWallet ==
    /\ pc # "nofile" /\ Unused
    /\ backup = NULL
    /\ mapDb' = FALSE
    /\ backup' = [keys |-> Readable(dat), next |-> Cardinality(DOMAIN dat.pool)]
    /\ UNCHANGED <<dat, rewrite, txn, store, setKeyPool, pc, newkey, reserved,
                   mapFileUseCount, handles, made, uses>>

-----------------------------------------------------------------------------
(* The key pool.                                                           *)

\* GenerateNewKey and AddKey: memory and file, encrypted if the wallet is.
GenerateNewKey(k) ==
    /\ keys' = keys \cup {k}
    /\ dat' = IF fUseCrypto THEN [dat EXCEPT !.ckey = @ \cup {<<k, nMasterKey>>}]
              ELSE [dat EXCEPT !.key = @ \cup {k}]
    /\ made' = [made EXCEPT !.keys = @ + 1]
    /\ newkey' = k
    /\ UNCHANGED <<rewrite, txn, nMasterKey, fUseCrypto, locked, setKeyPool, reserved,
                   uses, backup, bdb>>

WritePool(n) ==
    /\ dat' = [dat EXCEPT !.pool = With(@, n, newkey)]
    /\ setKeyPool' = setKeyPool \cup {n}
    /\ newkey' = NULL
    /\ UNCHANGED <<rewrite, txn, store, reserved, made, uses, backup, bdb>>

Full == Cardinality(setKeyPool) >= KeyPoolSize + 1

\* TopUpKeyPool, for itself or at the start of ReserveKeyFromKeyPool.
TopUpKeyPool ==
    /\ pc = "idle" /\ ~locked
    /\ made.keys + KeyPoolSize + 1 <= MaxKey + Cardinality(setKeyPool)
    /\ Open("keys")
    /\ pc' = "topup"
    /\ UNCHANGED <<dat, rewrite, txn, store, setKeyPool, newkey, reserved, made, uses, backup>>

TopUpMakesKey ==
    /\ pc = "topup" /\ ~Full
    /\ GenerateNewKey(made.keys + 1)
    /\ pc' = "pool"

TopUpWritesPool ==
    /\ pc = "pool"
    /\ WritePool(IF setKeyPool = {} THEN 1 ELSE Max(setKeyPool) + 1)
    /\ pc' = "topup"

TopUpEnds ==
    /\ pc = "topup" /\ Full
    /\ Close("keys")
    /\ pc' = "idle"
    /\ UNCHANGED <<dat, rewrite, txn, store, setKeyPool, newkey, reserved, made, uses, backup>>

NewestKey == Max(setKeyPool)

\* "Get the oldest key".
OldestKey == Min(setKeyPool)

\* Otherwise ReserveKeyFromKeyPool throws "read failed" or "unknown key in key pool".
Usable(n) == n \in DOMAIN dat.pool /\ dat.pool[n] \in keys

\* The pool was topped up, or the wallet is locked and it is used as it is.
ReserveKeyFromKeyPool ==
    /\ \/ pc = "topup" /\ Full /\ Close("keys")
       \/ pc = "idle" /\ locked /\ OpenAndClose
    /\ setKeyPool # {}
    /\ setKeyPool' = setKeyPool \ {OldestKey}
    /\ reserved' = IF Usable(OldestKey)
                     THEN [index |-> OldestKey, key |-> dat.pool[OldestKey]] ELSE NULL
    /\ pc' = IF Usable(OldestKey) THEN "reserved" ELSE "idle"
    /\ UNCHANGED <<dat, rewrite, txn, store, newkey, made, uses, backup>>

KeepKeyInFile ==
    /\ pc = "reserved"
    /\ OpenAndClose
    /\ pc' = "kept"
    /\ UNCHANGED <<dat, rewrite, txn, store, setKeyPool, newkey, reserved, made, uses, backup>>

KeepKey ==
    /\ pc = "reserved"
    /\ dat' = [dat EXCEPT !.pool = Without(@, reserved.index)]
    /\ backup' = IF backup = NULL \/ backup.next = 0 THEN backup ELSE [backup EXCEPT !.next = @ - 1]
    /\ OpenAndClose
    /\ pc' = "kept"
    /\ UNCHANGED <<rewrite, txn, store, setKeyPool, newkey, reserved, made, uses>>

\* Only now is the key an address, or change in a transaction (CommitTransaction).
\* The first one is the default key, which another may replace when it is used.
HandOut ==
    /\ pc = "kept"
    /\ given' = given \cup {reserved.key}
    /\ again' = again \cup ({reserved.key} \cap given)
    /\ vchDefaultKey' \in {reserved.key} \cup ({vchDefaultKey} \ {NULL})
    /\ defaults' = defaults \cup {vchDefaultKey'}
    /\ reserved' = NULL
    /\ pc' = "idle"
    /\ UNCHANGED <<dat, rewrite, txn, store, setKeyPool, newkey, made, mined, backup, bdb>>

\* GetKeyFromPool, if reuse is allowed, and GetReservedKey give the default key
\* when there is none in the pool.  An unlocked wallet has just topped it up.
GetDefaultKey ==
    /\ pc \in {"idle", "nofile"} /\ locked
    /\ setKeyPool = {} /\ vchDefaultKey # NULL
    /\ again' = again \cup {vchDefaultKey}
    /\ UNCHANGED <<dat, rewrite, txn, store, setKeyPool, pc, newkey, reserved, bdb, made,
                   vchDefaultKey, given, defaults, mined, backup>>

ReturnKey ==
    /\ pc = "reserved"
    /\ setKeyPool' = setKeyPool \cup {reserved.index}
    /\ reserved' = NULL
    /\ pc' = "idle"
    /\ UNCHANGED <<dat, rewrite, txn, store, newkey, made, uses, backup, bdb>>

\* CreateNewBlock pays to the key, and its CReserveKey returns it at once.
CreateNewBlock ==
    /\ pc = "reserved"
    /\ mined' = mined \cup {reserved.key}
    /\ setKeyPool' = setKeyPool \cup {reserved.index}
    /\ reserved' = NULL
    /\ pc' = "idle"
    /\ UNCHANGED <<dat, rewrite, txn, store, newkey, made, vchDefaultKey, given, again, defaults,
                   backup, bdb>>

-----------------------------------------------------------------------------
(* Encryption.                                                             *)

Lock ==
    /\ pc = "idle" /\ fUseCrypto /\ ~locked
    /\ locked' = TRUE
    /\ OpenAndClose
    /\ UNCHANGED <<dat, rewrite, txn, keys, nMasterKey, fUseCrypto, setKeyPool, pc, newkey,
                   reserved, made, uses, backup>>

Unlock ==
    /\ pc \in {"idle", "nofile"} /\ locked
    /\ locked' = FALSE
    /\ UNCHANGED <<dat, rewrite, txn, keys, nMasterKey, fUseCrypto, setKeyPool, pc, newkey,
                   reserved, made, uses, backup, bdb>>

EncryptedLosesKeys(m) == [dat EXCEPT !.mkey = m, !.key = @ \ keys]

\* WriteMasterKey, and WriteCryptedKey for every key.
Encrypted(m) == [key |-> dat.key \ keys, ckey |-> keys \X {m}, mkey |-> m, pool |-> dat.pool]

\* EncryptWallet up to TxnCommit.  The first start has made a default key.  The
\* number of the master key is taken again if the program ends before the commit.
EncryptWallet ==
    /\ pc = "idle" /\ ~fUseCrypto /\ keys # {}
    /\ made.master < MaxMasterKeys /\ made.keys + KeyPoolSize <= MaxKey
    /\ nMasterKey' = made.master + 1
    /\ fUseCrypto' = TRUE
    /\ txn' = Encrypted(nMasterKey')
    /\ Open("keys")
    /\ pc' = "commit"
    /\ UNCHANGED <<dat, rewrite, keys, locked, setKeyPool, newkey, reserved, made, uses, backup>>

\* If TxnCommit fails the program exits.
EncryptCommits ==
    /\ pc = "commit"
    /\ dat' = txn
    /\ txn' = NULL
    /\ made' = [made EXCEPT !.master = @ + 1]
    /\ Close("keys")
    /\ pc' = "committed"
    /\ UNCHANGED <<rewrite, store, setKeyPool, newkey, reserved, uses, backup>>

NewKeyPool ==
    /\ pc = "committed"
    /\ Open("keys")
    /\ pc' = "erase"
    /\ UNCHANGED <<dat, rewrite, txn, store, setKeyPool, newkey, reserved, made, uses, backup>>

\* It erases the records of the old pool, then forgets it ...
ErasePool ==
    /\ pc = "erase"
    /\ \E n \in setKeyPool \cap DOMAIN dat.pool : dat' = [dat EXCEPT !.pool = Without(@, n)]
    /\ backup' = IF backup = NULL THEN NULL ELSE [backup EXCEPT !.next = 0]
    /\ UNCHANGED <<rewrite, txn, store, setKeyPool, pc, newkey, reserved, bdb, made, uses>>

ForgetsNothing ==
    /\ pc = "erase" /\ setKeyPool \cap DOMAIN dat.pool = {}
    /\ pc' = "newpool"
    /\ UNCHANGED <<dat, rewrite, txn, store, setKeyPool, newkey, reserved, bdb, made, uses, backup>>

ForgetPool ==
    /\ pc = "erase" /\ setKeyPool \cap DOMAIN dat.pool = {}
    /\ setKeyPool' = {}
    /\ pc' = "newpool"
    /\ UNCHANGED <<dat, rewrite, txn, store, newkey, reserved, bdb, made, uses, backup>>

\* ... and makes a new one, from index 1.
NewPoolMakesKey ==
    /\ pc = "newpool" /\ Cardinality(setKeyPool) < KeyPoolSize
    /\ GenerateNewKey(made.keys + 1)
    /\ pc' = "newrecord"

NewPoolWritesPool ==
    /\ pc = "newrecord"
    /\ WritePool(Cardinality(setKeyPool) + 1)
    /\ pc' = "newpool"

NewPoolEnds ==
    /\ pc = "newpool" /\ Cardinality(setKeyPool) >= KeyPoolSize
    /\ locked' = TRUE
    /\ Close("keys")
    /\ pc' = "rewrite"
    /\ UNCHANGED <<dat, rewrite, txn, keys, nMasterKey, fUseCrypto, setKeyPool, newkey, reserved,
                   made, uses, backup>>

\* What a copy of dat onto f gives: DB_NOOVERWRITE keeps what is there.
CopyOnto(f) ==
    [key |-> f.key \cup dat.key,
     ckey |-> f.ckey \cup {c \in dat.ckey : \A d \in f.ckey : d[1] # c[1]},
     mkey |-> IF f.mkey = 0 THEN dat.mkey ELSE f.mkey,
     pool |-> [n \in DOMAIN f.pool \cup DOMAIN dat.pool |->
                   IF n \in DOMAIN f.pool THEN f.pool[n] ELSE dat.pool[n]]]

\* Rewrite waits until nobody uses the file, then copies it.  A failed copy is
\* given up, and what it has written stays.
RewriteCopies ==
    /\ pc = "rewrite" /\ Unused
    /\ \/ rewrite' = CopyOnto(rewrite) /\ pc' = "remove" /\ mapDb' = FALSE
       \/ rewrite' \in {rewrite, CopyOnto(rewrite)} /\ pc' = "idle" /\ mapDb' = TRUE
    /\ UNCHANGED <<dat, txn, store, setKeyPool, newkey, reserved, mapFileUseCount, handles,
                   made, uses, backup>>

\* If wallet.dat cannot be removed the renaming that is tried next fails too.
RewriteRemoves ==
    /\ pc = "remove"
    /\ \/ dat' = EmptyFile /\ pc' = "rename"
       \/ UNCHANGED dat /\ pc' = "idle"
    /\ UNCHANGED <<rewrite, txn, store, setKeyPool, newkey, reserved, bdb, made, uses, backup>>

\* EncryptWallet does not look at the result: if the renaming fails it goes on
\* without a wallet.dat, locked, and with the new pool in memory.
RewriteRenames ==
    /\ pc = "rename"
    /\ \/ dat' = rewrite /\ rewrite' = EmptyFile /\ pc' = "idle"
       \/ UNCHANGED <<dat, rewrite>> /\ pc' = "nofile"
    /\ UNCHANGED <<txn, store, setKeyPool, newkey, reserved, bdb, made, uses, backup>>

-----------------------------------------------------------------------------
\* The process ends, in order or not: memory and the open transaction are gone.
Stop ==
    /\ pc # "down"
    /\ pc' = "down"
    /\ txn' = NULL /\ newkey' = NULL /\ reserved' = NULL
    /\ keys' = {} /\ nMasterKey' = 0 /\ fUseCrypto' = FALSE /\ locked' = FALSE
    /\ setKeyPool' = {}
    /\ mapDb' = FALSE /\ mapFileUseCount' = 0 /\ handles' = {}
    /\ UNCHANGED <<dat, rewrite, made, uses, backup>>

\* LoadWallet opens the file with "cr+": a new one is made if it is missing, with
\* no default key.
LoadWallet ==
    /\ pc = "down"
    /\ keys' = KeysOf(dat)
    /\ nMasterKey' = dat.mkey
    /\ fUseCrypto' = (dat.ckey # {})
    /\ locked' = fUseCrypto'
    /\ setKeyPool' = DOMAIN dat.pool
    /\ mapDb' = TRUE
    /\ backup' = IF dat = EmptyFile THEN NULL ELSE backup
    /\ vchDefaultKey' = IF dat = EmptyFile THEN NULL ELSE vchDefaultKey
    /\ pc' = "idle"
    /\ UNCHANGED <<dat, rewrite, txn, newkey, reserved, mapFileUseCount, handles, made,
                   given, again, defaults, mined>>

Next ==
    \/ OtherOpens \/ OtherCloses \/ ThreadFlushWalletDB \/ BackupWallet
    \/ TopUpKeyPool \/ TopUpMakesKey \/ TopUpWritesPool \/ TopUpEnds
    \/ ReserveKeyFromKeyPool \/ KeepKey \/ HandOut \/ GetDefaultKey
    \/ ReturnKey \/ CreateNewBlock
    \/ Lock \/ Unlock \/ EncryptWallet \/ EncryptCommits
    \/ NewKeyPool \/ ErasePool \/ ForgetPool \/ NewPoolMakesKey \/ NewPoolWritesPool \/ NewPoolEnds
    \/ RewriteCopies \/ RewriteRemoves \/ RewriteRenames
    \/ Stop \/ LoadWallet

Spec == Init /\ [][Next]_vars

-----------------------------------------------------------------------------
(* Properties.                                                             *)

\* No key is lost: at every moment, in the middle of an encryption and of a
\* rewrite too, a key that was handed out, that a block may pay to or that the
\* wallet holds can be read from wallet.dat or from wallet.dat.rewrite
\* (EncryptWallet, CDB::Rewrite).
KeysSurvive == given \cup mined \cup keys \subseteq Readable(dat) \cup Readable(rewrite)

\* While there is a wallet.dat ReserveKeyFromKeyPool never throws: every index of
\* the pool in memory has its record in the file, with a key the wallet has.
PoolUsable == pc = "idle" => \A n \in setKeyPool : Usable(n)

\* The same, whatever became of the file: refuted by a renaming that fails, whose
\* result EncryptWallet ignores.
PoolAlwaysUsable == pc \in {"idle", "nofile"} => \A n \in setKeyPool : Usable(n)

\* The pool a start finds: that of wallet.dat, or, to whoever renames it, of the
\* copy while there is no wallet.dat.
PoolOnDisk == IF dat = EmptyFile THEN rewrite.pool ELSE dat.pool

\* The pool hands out no key a second time, whenever the process stops: the pool
\* on disk has forgotten a key before it is handed out (KeepKey), and no two
\* indexes of it have one key.  Only a default key is given again, in place of
\* a key of an empty pool.
NeverHandedOutTwice ==
    /\ given \cap Range(PoolOnDisk) = {} /\ IsInjective(PoolOnDisk)
    /\ again \subseteq defaults

\* "Take key pair from key pool so it won't be used again" (CommitTransaction):
\* refuted twice, by the default key and by the key of a block to be mined, which
\* goes back to the pool.
NeverUsedAgain == again = {} /\ mined \cap Range(PoolOnDisk) = {}

\* LoadKey refuses plain keys in an encrypted wallet and LoadWallet reports a
\* corrupt file: no file ever has both.
OneFormOfKeys == \A f \in {dat, rewrite} : f.key = {} \/ f.ckey = {}

\* Nobody closes the Db under a CWalletDB that lives ("Don't do this if any
\* databases are in use"): the count is the number of such objects.
HandlesAreOpen ==
    /\ mapFileUseCount = Cardinality(handles)
    /\ handles # {} => mapDb

\* What the pool is for: the keys handed out after a backup, as many as the
\* pool had, are in the backup, whatever was topped up, returned or reloaded,
\* unless the wallet was encrypted in between.
BackupCoversPool ==
    [][KeepKey /\ backup # NULL =>
         (backup.next > 0 => reserved.key \in backup.keys)]_vars
=============================================================================
