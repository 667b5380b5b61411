--------------------------- MODULE WalletFileProofs ---------------------------
(***************************************************************************)
(* For every size of the key pool and every moment of a crash: no key is   *)
(* lost, handed out twice or found without its record while a wallet is    *)
(* encrypted, once, and its file rewritten; a backup has the keys that are *)
(* handed out next; and nobody closes the database under a handle.         *)
(***************************************************************************)
EXTENDS WalletFile, FiniteSetTheorems, WellFoundedInduction, TLAPS

USE DEF uses

-----------------------------------------------------------------------------
(* Files.                                                                  *)

\* A file has its four kinds of records, ...
HasRecords(f) == f = [key |-> f.key, ckey |-> f.ckey, mkey |-> f.mkey, pool |-> f.pool]

\* ... keys in one form only, and its encrypted keys are those of its master key.
Whole(f) ==
    /\ HasRecords(f)
    /\ f.key = {} \/ f.ckey = {}
    /\ \A c \in f.ckey : c[2] = f.mkey

\* What the records of a file are.
LEMMA RecordsOf ==
    ASSUME NEW f, NEW a, NEW b, NEW c, NEW d,
           f = [key |-> a, ckey |-> b, mkey |-> c, pool |-> d]
    PROVE  HasRecords(f) /\ f.key = a /\ f.ckey = b /\ f.mkey = c /\ f.pool = d
BY DEF HasRecords

\* A change of one kind of records leaves the others alone.
LEMMA OneRecord ==
    ASSUME NEW f, HasRecords(f), NEW x
    PROVE  /\ [f EXCEPT !.pool = x] = [key |-> f.key, ckey |-> f.ckey, mkey |-> f.mkey, pool |-> x]
           /\ [f EXCEPT !.key = x] = [key |-> x, ckey |-> f.ckey, mkey |-> f.mkey, pool |-> f.pool]
           /\ [f EXCEPT !.ckey = x] = [key |-> f.key, ckey |-> x, mkey |-> f.mkey, pool |-> f.pool]
<1>1. f = [key |-> f.key, ckey |-> f.ckey, mkey |-> f.mkey, pool |-> f.pool]
  BY DEF HasRecords
<1> DEFINE a == f.key
           b == f.ckey
           c == f.mkey
           d == f.pool
<1>2. f = [key |-> a, ckey |-> b, mkey |-> c, pool |-> d]
  BY <1>1
<1> HIDE DEF a, b, c, d
<1>3. /\ [f EXCEPT !.pool = x] = [key |-> a, ckey |-> b, mkey |-> c, pool |-> x]
      /\ [f EXCEPT !.key = x] = [key |-> x, ckey |-> b, mkey |-> c, pool |-> d]
      /\ [f EXCEPT !.ckey = x] = [key |-> a, ckey |-> x, mkey |-> c, pool |-> d]
  BY <1>2
<1> QED BY <1>3 DEF a, b, c, d

\* A change of the pool changes no key.
LEMMA PoolRecord ==
    ASSUME NEW f, Whole(f), NEW x
    PROVE  LET g == [f EXCEPT !.pool = x]
           IN  /\ Whole(g) /\ KeysOf(g) = KeysOf(f)
               /\ g.key = f.key /\ g.ckey = f.ckey /\ g.mkey = f.mkey /\ g.pool = x
<1> DEFINE g == [f EXCEPT !.pool = x]
<1>1. g = [key |-> f.key, ckey |-> f.ckey, mkey |-> f.mkey, pool |-> x]
  BY OneRecord, Zenon DEF Whole
<1> HIDE DEF g
<1>2. HasRecords(g) /\ g.key = f.key /\ g.ckey = f.ckey /\ g.mkey = f.mkey /\ g.pool = x
  BY <1>1, RecordsOf
<1>3. Whole(g) /\ KeysOf(g) = KeysOf(f)
  BY <1>2 DEF Whole, KeysOf
<1> QED BY <1>2, <1>3 DEF g

\* A new key, plain among plain keys, ...
LEMMA PlainKeyRecord ==
    ASSUME NEW f, Whole(f), f.ckey = {}, NEW k
    PROVE  LET g == [f EXCEPT !.key = f.key \cup {k}]
           IN  Whole(g) /\ KeysOf(g) = KeysOf(f) \cup {k} /\ g.ckey = {} /\ g.pool = f.pool
<1> DEFINE x == f.key \cup {k}
           g == [f EXCEPT !.key = x]
<1> HIDE DEF x
<1>1. g = [key |-> x, ckey |-> f.ckey, mkey |-> f.mkey, pool |-> f.pool]
  BY OneRecord, Zenon DEF Whole
<1> HIDE DEF g
<1>2. HasRecords(g) /\ g.key = x /\ g.ckey = f.ckey /\ g.mkey = f.mkey /\ g.pool = f.pool
  BY <1>1, RecordsOf
<1>3. Whole(g)
  BY <1>2 DEF Whole
<1>4. KeysOf(g) = KeysOf(f) \cup {k}
  BY <1>2 DEF KeysOf, x
<1> QED BY <1>2, <1>3, <1>4 DEF g, x

\* ... or encrypted among encrypted ones, is one key more.
LEMMA EncryptedKeyRecord ==
    ASSUME NEW f, Whole(f), f.key = {}, NEW k
    PROVE  LET g == [f EXCEPT !.ckey = f.ckey \cup {<<k, f.mkey>>}]
           IN  /\ Whole(g) /\ KeysOf(g) = KeysOf(f) \cup {k}
               /\ g.key = {} /\ g.mkey = f.mkey /\ g.pool = f.pool
<1> DEFINE x == f.ckey \cup {<<k, f.mkey>>}
           g == [f EXCEPT !.ckey = x]
<1> HIDE DEF x
<1>1. g = [key |-> f.key, ckey |-> x, mkey |-> f.mkey, pool |-> f.pool]
  BY OneRecord, Zenon DEF Whole
<1> HIDE DEF g
<1>2. HasRecords(g) /\ g.key = f.key /\ g.ckey = x /\ g.mkey = f.mkey /\ g.pool = f.pool
  BY <1>1, RecordsOf
<1>3. Whole(g)
  BY <1>2 DEF Whole, x
<1>4. {c[1] : c \in x} = {c[1] : c \in f.ckey} \cup {k}
  <2>1. <<k, f.mkey>> \in x /\ <<k, f.mkey>>[1] = k
    BY DEF x
  <2>2. ASSUME NEW e \in {c[1] : c \in x} PROVE e \in {c[1] : c \in f.ckey} \cup {k}
    BY <2>1 DEF x
  <2>3. ASSUME NEW e \in {c[1] : c \in f.ckey} PROVE e \in {c[1] : c \in x}
    BY DEF x
  <2>4. k \in {c[1] : c \in x}
    BY <2>1, Zenon
  <2> QED BY <2>2, <2>3, <2>4
<1>5. KeysOf(g) = KeysOf(f) \cup {k}
  BY <1>2, <1>4 DEF KeysOf
<1> QED BY <1>2, <1>3, <1>5 DEF g, x

\* A file with the keys of K encrypted with master key m, and no others, is whole.
LEMMA EncryptedRecord ==
    ASSUME NEW K, NEW m, NEW p
    PROVE  LET g == [key |-> {}, ckey |-> K \X {m}, mkey |-> m, pool |-> p]
           IN  Whole(g) /\ g.key = {} /\ g.mkey = m /\ g.pool = p /\ KeysOf(g) = K
<1> DEFINE x == K \X {m}
           g == [key |-> {}, ckey |-> x, mkey |-> m, pool |-> p]
<1> HIDE DEF x
<1>1. g.key = {} /\ g.ckey = x /\ g.mkey = m /\ g.pool = p /\ HasRecords(g)
  BY RecordsOf
<1> HIDE DEF g
<1>2. Whole(g)
  BY <1>1 DEF Whole, x
<1>3. {e[1] : e \in x} = K
  <2>1. ASSUME NEW k \in K PROVE <<k, m>> \in x /\ <<k, m>>[1] = k
    BY DEF x
  <2>2. ASSUME NEW k \in K PROVE k \in {e[1] : e \in x}
    BY <2>1, Zenon
  <2>3. ASSUME NEW e \in x PROVE e[1] \in K
    BY DEF x
  <2> QED BY <2>2, <2>3
<1>4. KeysOf(g) = K
  BY <1>1, <1>3 DEF KeysOf
<1> QED BY <1>1, <1>2, <1>4 DEF g, x

\* A passphrase brings back all the keys of a whole file.
LEMMA WholeIsReadable == ASSUME NEW f, Whole(f) PROVE Readable(f) = KeysOf(f)
<1>1. {c \in f.ckey : c[2] = f.mkey} = f.ckey
  BY DEF Whole
<1> QED BY <1>1 DEF Readable, KeysOf

-----------------------------------------------------------------------------
(* The keys.                                                               *)

\* The file the memory corresponds to: the copy, once wallet.dat is removed.
Current == IF pc \in {"rename", "nofile"} THEN rewrite ELSE dat

\* Memory and file agree on the keys and on their form; the transaction of an
\* encryption has all the keys; the copy is empty until the one encryption
\* makes it, and is complete before wallet.dat is removed.
KeyInv ==
    /\ made = [keys |-> made.keys, master |-> made.master] /\ made.master \in Nat
    /\ Whole(dat) /\ Whole(rewrite)
    /\ IF pc = "down" THEN keys = {} ELSE keys = KeysOf(Current)
    /\ pc \notin {"down", "commit"} =>
         IF fUseCrypto THEN Current.key = {} /\ Current.mkey = nMasterKey ELSE Current.ckey = {}
    /\ pc = "commit" =>
         /\ fUseCrypto
         /\ Whole(txn) /\ txn.key = {} /\ txn.mkey = nMasterKey /\ KeysOf(txn) = keys
    /\ made.master = 0 \/ pc \in {"commit", "committed", "erase", "newpool", "newrecord", "rewrite"}
         => rewrite = EmptyFile
    /\ pc = "remove" =>
         rewrite.key = dat.key /\ rewrite.ckey = dat.ckey /\ rewrite.mkey = dat.mkey
    /\ pc \in {"rename", "nofile"} => dat = EmptyFile
    /\ pc \in {"committed", "erase", "newpool", "newrecord", "rewrite", "remove"}
         => made.master # 0
    /\ given \cup mined \subseteq KeysOf(dat) \cup KeysOf(rewrite)
    /\ pc \in {"reserved", "kept"} => reserved.key \in keys

\* An empty file is whole and has no keys.
LEMMA EmptyIsWhole == Whole(EmptyFile) /\ KeysOf(EmptyFile) = {} /\ EmptyFile.ckey = {}
<1>1. EmptyFile.key = {} /\ EmptyFile.ckey = {} /\ EmptyFile.mkey = 0 /\ EmptyFile.pool = <<>>
  BY DEF EmptyFile
<1>2. HasRecords(EmptyFile)
  BY <1>1 DEF HasRecords, EmptyFile
<1>3. {c[1] : c \in {}} = {}
  OBVIOUS
<1> QED BY <1>1, <1>2, <1>3 DEF Whole, KeysOf

\* The invariant holds before the first start.
LEMMA InitKeys == Init => KeyInv
<1> SUFFICES ASSUME Init PROVE KeyInv
  OBVIOUS
<1>1. Whole(dat) /\ Whole(rewrite) /\ made = [keys |-> made.keys, master |-> made.master]
      /\ made.master = 0
  BY EmptyIsWhole DEF Init
<1> QED BY <1>1 DEF Init, KeyInv

\* Steps that touch no key: the handles, the lock, the pool in memory, a backup.
LEMMA QuietKeeps ==
    ASSUME KeyInv, pc' \notin {"down", "commit", "rename", "nofile", "remove"},
           pc \notin {"down", "commit", "rename", "nofile", "remove"},
           UNCHANGED <<dat, rewrite, txn, keys, nMasterKey, fUseCrypto, made, given, mined>>,
           pc' \in {"committed", "erase", "newpool", "newrecord", "rewrite"} =>
             pc \in {"committed", "erase", "newpool", "newrecord", "rewrite"},
           pc' \in {"reserved", "kept"} => reserved'.key \in keys
    PROVE  KeyInv'
BY DEF KeyInv, Current

\* Writing or erasing a record of the pool touches no key either.
LEMMA PoolStepKeeps ==
    ASSUME KeyInv, NEW x, dat' = [dat EXCEPT !.pool = x],
           pc \in {"pool", "reserved", "erase", "newrecord"},
           pc' = CASE pc = "pool" -> "topup" [] pc = "reserved" -> "kept"
                   [] pc = "erase" -> "erase" [] pc = "newrecord" -> "newpool",
           UNCHANGED <<rewrite, txn, keys, nMasterKey, fUseCrypto, made, given, mined, reserved>>
    PROVE  KeyInv'
<1>1. Whole(dat') /\ KeysOf(dat') = KeysOf(dat) /\ dat'.key = dat.key
      /\ dat'.ckey = dat.ckey /\ dat'.mkey = dat.mkey
  BY PoolRecord DEF KeyInv
<1>2. /\ pc = "pool" => pc' = "topup"
      /\ pc = "reserved" => pc' = "kept"
      /\ pc = "erase" => pc' = "erase"
      /\ pc = "newrecord" => pc' = "newpool"
  OBVIOUS
<1> QED BY <1>1, <1>2 DEF KeyInv, Current

\* A new key gets into memory and file in the form of the others.
LEMMA GenerateNewKeyKeeps ==
    ASSUME KeyInv, NEW k, GenerateNewKey(k),
           \/ pc = "topup" /\ pc' = "pool"
           \/ pc = "newpool" /\ pc' = "newrecord"
    PROVE  KeyInv'
<1> USE DEF GenerateNewKey
<1>0. Whole(dat) /\ HasRecords(dat)
  BY DEF KeyInv, Whole
<1>1. made' = [keys |-> made'.keys, master |-> made'.master] /\ made'.master = made.master
  <2>1. made = [keys |-> made.keys, master |-> made.master]
    BY DEF KeyInv
  <2> DEFINE a == made.keys
             b == made.master
  <2>2. made = [keys |-> a, master |-> b] /\ made' = [made EXCEPT !.keys = a + 1]
    BY <2>1
  <2> HIDE DEF a, b
  <2>3. made' = [keys |-> a + 1, master |-> b]
    BY <2>2
  <2> QED BY <2>2, <2>3
<1>2. CASE fUseCrypto
  <2>1. dat' = [dat EXCEPT !.ckey = dat.ckey \cup {<<k, dat.mkey>>}] /\ dat.key = {}
    BY <1>2, Zenon DEF KeyInv, Current
  <2> DEFINE g == [dat EXCEPT !.ckey = dat.ckey \cup {<<k, dat.mkey>>}]
  <2>2. Whole(g) /\ KeysOf(g) = KeysOf(dat) \cup {k} /\ g.key = {} /\ g.mkey = dat.mkey
    BY <1>0, <2>1, EncryptedKeyRecord, Zenon
  <2> HIDE DEF g
  <2>3. dat' = g
    BY <2>1 DEF g
  <2> QED BY <1>1, <1>2, <2>1, <2>2, <2>3, Zenon DEF KeyInv, Current
<1>3. CASE ~fUseCrypto
  <2>1. dat' = [dat EXCEPT !.key = dat.key \cup {k}] /\ dat.ckey = {}
    BY <1>3 DEF KeyInv, Current
  <2> DEFINE g == [dat EXCEPT !.key = dat.key \cup {k}]
  <2>2. Whole(g) /\ KeysOf(g) = KeysOf(dat) \cup {k} /\ g.ckey = {}
    BY <1>0, <2>1, PlainKeyRecord, Zenon
  <2> HIDE DEF g
  <2>3. dat' = g
    BY <2>1, Zenon DEF g
  <2> QED BY <1>1, <1>3, <2>1, <2>2, <2>3, Zenon DEF KeyInv, Current
<1> QED BY <1>2, <1>3

\* The transaction of an encryption has every key, encrypted.
LEMMA EncryptedHasKeys ==
    ASSUME KeyInv, pc = "idle", ~fUseCrypto, NEW m
    PROVE  LET t == Encrypted(m)
           IN  Whole(t) /\ t.key = {} /\ t.mkey = m /\ t.pool = dat.pool /\ KeysOf(t) = keys
<1>1. dat.key \ keys = {}
  BY DEF KeyInv, Current, KeysOf
<1>2. Encrypted(m) = [key |-> {}, ckey |-> keys \X {m}, mkey |-> m, pool |-> dat.pool]
  BY <1>1, Zenon DEF Encrypted
<1> DEFINE g == [key |-> {}, ckey |-> keys \X {m}, mkey |-> m, pool |-> dat.pool]
<1>3. Whole(g) /\ g.key = {} /\ g.mkey = m /\ g.pool = dat.pool /\ KeysOf(g) = keys
  BY EncryptedRecord
<1> HIDE DEF g
<1>4. Encrypted(m) = g
  BY <1>2 DEF g
<1> QED BY <1>3, <1>4

\* EncryptWallet finds the copy empty, because it is the first encryption.
LEMMA EncryptWalletKeeps ==
    ASSUME KeyInv, MaxMasterKeys \in Nat, MaxMasterKeys <= 1, EncryptWallet
    PROVE  KeyInv'
<1> USE DEF EncryptWallet
<1>2. made.master \in Nat /\ made.master = 0
  BY DEF KeyInv
<1>3. rewrite = EmptyFile
  BY <1>2 DEF KeyInv
<1>4. Whole(txn') /\ txn'.key = {} /\ txn'.mkey = nMasterKey' /\ KeysOf(txn') = keys
  BY EncryptedHasKeys
<1> QED BY <1>2, <1>3, <1>4 DEF KeyInv, Current

\* What the commit does to the count of encryptions.
LEMMA CountsCommit ==
    ASSUME KeyInv, EncryptCommits
    PROVE  /\ made' = [keys |-> made'.keys, master |-> made'.master]
           /\ made'.keys = made.keys /\ made'.master = made.master + 1
<1> DEFINE a == made.keys
           b == made.master
<1>1. made = [keys |-> a, master |-> b] /\ made' = [made EXCEPT !.master = b + 1]
  BY DEF KeyInv, EncryptCommits
<1> HIDE DEF a, b
<1>2. made' = [keys |-> a, master |-> b + 1] /\ made.keys = a /\ made.master = b
  BY <1>1
<1> QED BY <1>2, Zenon

\* A copy onto an empty file has the same keys.
LEMMA CopyIsWhole ==
    ASSUME Whole(dat)
    PROVE  LET f == CopyOnto(EmptyFile)
           IN  Whole(f) /\ f.key = dat.key /\ f.ckey = dat.ckey /\ f.mkey = dat.mkey
<1> DEFINE f == CopyOnto(EmptyFile)
<1>1. EmptyFile.key = {} /\ EmptyFile.ckey = {} /\ EmptyFile.mkey = 0
  BY DEF EmptyFile
<1>2. f.key = dat.key /\ f.ckey = dat.ckey /\ f.mkey = dat.mkey /\ HasRecords(f)
  BY <1>1 DEF CopyOnto, HasRecords
<1> QED BY <1>2 DEF Whole

\* The rewrite of the file: copied, removed, renamed, or given up.
LEMMA RewriteKeeps ==
    ASSUME KeyInv, RewriteCopies \/ RewriteRemoves \/ RewriteRenames
    PROVE  KeyInv'
<1>1. CASE RewriteCopies
  <2>1. /\ rewrite = EmptyFile /\ pc = "rewrite" /\ pc' \in {"remove", "idle"}
        /\ UNCHANGED <<dat, txn, keys, nMasterKey, fUseCrypto, made, given, mined>>
    BY <1>1 DEF RewriteCopies, KeyInv, store
  <2>2. Whole(dat) /\ given \cup mined \subseteq KeysOf(dat)
    BY <2>1, EmptyIsWhole DEF KeyInv
  <2>3. CASE pc' = "remove"
    <3>1. rewrite' = CopyOnto(EmptyFile)
      BY <1>1, <2>1, <2>3 DEF RewriteCopies
    <3>2. Whole(rewrite') /\ rewrite'.key = dat.key /\ rewrite'.ckey = dat.ckey
          /\ rewrite'.mkey = dat.mkey
      BY <2>2, <3>1, CopyIsWhole
    <3> QED BY <2>1, <2>2, <2>3, <3>2 DEF KeyInv, Current
  <2>4. CASE pc' = "idle"
    <3>1. rewrite' = rewrite \/ rewrite' = CopyOnto(EmptyFile)
      BY <1>1, <2>1, <2>4 DEF RewriteCopies
    <3>2. CASE rewrite' = rewrite
      BY <2>1, <2>2, <2>4, <3>2 DEF KeyInv, Current
    <3>3. CASE rewrite' = CopyOnto(EmptyFile)
      <4>1. Whole(rewrite') /\ rewrite'.key = dat.key /\ rewrite'.ckey = dat.ckey
            /\ rewrite'.mkey = dat.mkey
        BY <2>2, <3>3, CopyIsWhole
      <4> QED BY <2>1, <2>2, <2>4, <4>1 DEF KeyInv, Current
    <3> QED BY <3>1, <3>2, <3>3
  <2> QED BY <2>1, <2>3, <2>4
<1>2. CASE RewriteRemoves
  <2>1. KeysOf(rewrite) = KeysOf(dat) /\ pc = "remove"
    BY <1>2 DEF RewriteRemoves, KeyInv, KeysOf
  <2>2. CASE dat' = EmptyFile /\ pc' = "rename"
    BY <1>2, <2>1, <2>2, EmptyIsWhole DEF RewriteRemoves, KeyInv, Current, store
  <2>3. CASE dat' = dat /\ pc' = "idle"
    BY <1>2, <2>1, <2>3 DEF RewriteRemoves, KeyInv, Current, store
  <2> QED BY <1>2, <2>2, <2>3 DEF RewriteRemoves
<1>3. CASE RewriteRenames
  BY <1>3, EmptyIsWhole DEF RewriteRenames, KeyInv, Current, store
<1> QED BY <1>1, <1>2, <1>3

\* A stop forgets the memory, a load takes it from the file.
LEMMA RestartKeeps == ASSUME KeyInv, Stop \/ LoadWallet PROVE KeyInv'
<1>1. CASE Stop
  BY <1>1 DEF Stop, KeyInv, Current
<1>2. CASE LoadWallet
  <2>1. fUseCrypto' = (dat.ckey # {}) /\ (dat.key = {} \/ dat.ckey = {})
    BY <1>2 DEF LoadWallet, KeyInv, Whole
  <2> QED BY <1>2, <2>1, Zenon DEF LoadWallet, KeyInv, Current
<1> QED BY <1>1, <1>2

\* Every step keeps the invariant of a wallet that is encrypted once.
LEMMA NextKeys == ASSUME KeyInv, MaxMasterKeys <= 1, [Next]_vars PROVE KeyInv'
<1> USE DEF store, bdb
<1>1. CASE OtherOpens \/ OtherCloses \/ ThreadFlushWalletDB \/ BackupWallet \/ Lock \/ Unlock
           \/ GetDefaultKey
  <2>1. UNCHANGED <<dat, rewrite, txn, keys, nMasterKey, fUseCrypto, made, given, mined, reserved,
                    pc>>
    BY <1>1 DEF OtherOpens, OtherCloses, ThreadFlushWalletDB, BackupWallet, Lock, Unlock,
                GetDefaultKey
  <2> QED BY <2>1 DEF KeyInv, Current
<1>2. CASE TopUpKeyPool \/ TopUpEnds \/ ReturnKey
  BY <1>2, QuietKeeps DEF TopUpKeyPool, TopUpEnds, ReturnKey
<1>3. CASE NewKeyPool \/ ForgetPool \/ NewPoolEnds
  BY <1>3, QuietKeeps DEF NewKeyPool, ForgetPool, NewPoolEnds
<1>4. CASE TopUpMakesKey
  BY <1>4, GenerateNewKeyKeeps DEF TopUpMakesKey
<1>5. CASE NewPoolMakesKey
  BY <1>5, GenerateNewKeyKeeps DEF NewPoolMakesKey
<1>6. CASE TopUpWritesPool
  BY <1>6, PoolStepKeeps DEF TopUpWritesPool, WritePool
<1>7. CASE NewPoolWritesPool
  BY <1>7, PoolStepKeeps DEF NewPoolWritesPool, WritePool
<1>8. CASE KeepKey
  BY <1>8, PoolStepKeeps DEF KeepKey
<1>9. CASE ErasePool
  BY <1>9, PoolStepKeeps DEF ErasePool
<1>10. CASE ReserveKeyFromKeyPool
  <2>1. CASE Usable(OldestKey)
    <3>1. reserved'.key \in keys /\ pc' = "reserved" /\ pc \in {"topup", "idle"}
      BY <1>10, <2>1 DEF ReserveKeyFromKeyPool, Usable
    <3> QED BY <1>10, <3>1, QuietKeeps DEF ReserveKeyFromKeyPool
  <2>2. CASE ~Usable(OldestKey)
    <3>1. pc' = "idle" /\ pc \in {"topup", "idle"}
      BY <1>10, <2>2 DEF ReserveKeyFromKeyPool
    <3> QED BY <1>10, <3>1, QuietKeeps DEF ReserveKeyFromKeyPool
  <2> QED BY <2>1, <2>2
<1>11. CASE HandOut \/ CreateNewBlock
  BY <1>11 DEF HandOut, CreateNewBlock, KeyInv, Current
<1>12. CASE EncryptWallet
  BY <1>12, EncryptWalletKeeps, WalletFileAssumption DEF WalletFileAssumption
<1>13. CASE EncryptCommits
  <2>1. given \cup mined \subseteq KeysOf(dat')
    BY <1>13, EmptyIsWhole DEF EncryptCommits, KeyInv, Current
  <2>2. made.master \in Nat /\ made'.master \in Nat /\ made'.master # 0
    BY <1>13, CountsCommit DEF KeyInv
  <2> QED BY <1>13, <2>1, <2>2, CountsCommit DEF EncryptCommits, KeyInv, Current
<1>14. CASE RewriteCopies \/ RewriteRemoves \/ RewriteRenames
  BY <1>14, RewriteKeeps
<1>15. CASE Stop \/ LoadWallet
  BY <1>15, RestartKeeps
<1>16. CASE UNCHANGED vars
  BY <1>16 DEF vars, KeyInv, Current
<1> QED BY <1>1, <1>2, <1>3, <1>4, <1>5, <1>6, <1>7, <1>8, <1>9, <1>10, <1>11, <1>12, <1>13,
           <1>14, <1>15, <1>16 DEF Next

\* The invariant says what the properties say.
LEMMA KeyInvImplies == ASSUME KeyInv PROVE KeysSurvive /\ OneFormOfKeys
<1>1. Readable(dat) = KeysOf(dat) /\ Readable(rewrite) = KeysOf(rewrite)
  BY WholeIsReadable DEF KeyInv
<1>2. KeysSurvive
  BY <1>1 DEF KeyInv, KeysSurvive, Current
<1>3. OneFormOfKeys
  BY DEF KeyInv, OneFormOfKeys, Whole
<1> QED BY <1>2, <1>3

\* In a wallet that is encrypted at most once no key is ever lost: at every
\* moment of EncryptWallet, NewKeyPool and CDB::Rewrite, and after a stop at any
\* of them, each key handed out or held can be read from wallet.dat or its copy.
THEOREM KeysSurviveHolds == ASSUME MaxMasterKeys <= 1 PROVE Spec => []KeysSurvive
<1>1. Init => KeyInv
  BY InitKeys
<1>2. KeyInv /\ [Next]_vars => KeyInv'
  BY NextKeys
<1>3. KeyInv => KeysSurvive
  BY KeyInvImplies
<1> QED BY <1>1, <1>2, <1>3, PTL DEF Spec

\* Nor does a file ever have keys in both forms, which LoadWallet would report
\* as corrupt: the transaction of EncryptWallet moves them all at once.
THEOREM OneFormOfKeysHolds == ASSUME MaxMasterKeys <= 1 PROVE Spec => []OneFormOfKeys
<1>1. Init => KeyInv
  BY InitKeys
<1>2. KeyInv /\ [Next]_vars => KeyInv'
  BY NextKeys
<1>3. KeyInv => OneFormOfKeys
  BY KeyInvImplies
<1> QED BY <1>1, <1>2, <1>3, PTL DEF Spec

-----------------------------------------------------------------------------
(* The key pool.                                                           *)

\* Two records of the pool never name the same key, nor one that was handed out.
Fresh(p) == IsInjective(p) /\ given \cap Range(p) = {}

SamePool(p, q) == DOMAIN p = DOMAIN q /\ \A n \in DOMAIN p : p[n] = q[n]

\* The keys of the pool are keys of the file; keys and indexes are bounded by
\* the keys made.
PoolOf(f) ==
    /\ KeysOf(f) \subseteq 1..made.keys
    /\ Range(f.pool) \subseteq KeysOf(f)
    /\ DOMAIN f.pool \subseteq 1..made.keys

\* The pool in memory is in the file; the key at hand is the one its place
\* says: new and in no pool, or reserved and still in the file, or kept and out
\* of it.  The copy has the pool of wallet.dat before that is removed.
PoolInv ==
    /\ made.keys \in Nat
    /\ PoolOf(dat) /\ PoolOf(rewrite)
    /\ given \subseteq 1..made.keys
    /\ setKeyPool \subseteq 1..made.keys
    /\ Fresh(dat.pool)
    /\ dat = EmptyFile => Fresh(rewrite.pool)
    /\ pc \notin {"down", "erase", "rename", "nofile"} => setKeyPool \subseteq DOMAIN dat.pool
    /\ pc \in {"rename", "nofile"} => setKeyPool \subseteq DOMAIN rewrite.pool
    /\ pc = "commit" => txn.pool = dat.pool
    /\ pc = "remove" => SamePool(rewrite.pool, dat.pool)
    /\ pc \in {"pool", "newrecord"} =>
         /\ newkey = made.keys /\ newkey \in keys
         /\ newkey \notin Range(dat.pool) /\ newkey \notin given
         /\ setKeyPool \subseteq 1..(made.keys - 1)
    /\ pc = "reserved" =>
         /\ reserved.index \in DOMAIN dat.pool /\ reserved.index \notin setKeyPool
         /\ reserved.key = dat.pool[reserved.index]
    /\ pc = "kept" => reserved.key \notin Range(dat.pool) /\ reserved.key \notin given

\* What a set of naturals has.
LEMMA LeastExists == ASSUME NEW S, S \subseteq Nat, S # {} PROVE \E x \in S : \A y \in S : x <= y
<1> DEFINE R == OpToRel(<, Nat)
<1>1. IsWellFoundedOn(R, Nat)
  BY NatLessThanWellFounded
<1>2. \A y, x \in Nat : y < x => <<y, x>> \in R
  BY DEF OpToRel
<1> HIDE DEF R
<1>3. PICK x \in S : \A y \in S : ~ (<<y, x>> \in R)
  BY <1>1, WFMin, Zenon
<1>4. ASSUME NEW y \in S PROVE x <= y
  <2>1. x \in Nat /\ y \in Nat /\ ~(y < x)
    BY <1>2, <1>3, Zenon
  <2> QED BY <2>1
<1> QED BY <1>3, <1>4

\* The oldest index of a pool is one of it.
LEMMA MinIs ==
    ASSUME NEW S, S \subseteq Nat, S # {} PROVE Min(S) \in S /\ \A y \in S : Min(S) <= y
BY LeastExists, Zenon DEF Min

\* The newest one.
LEMMA MaxIs ==
    ASSUME NEW N \in Nat, NEW S, S \subseteq 0..N, S # {}
    PROVE  Max(S) \in S /\ \A y \in S : Max(S) >= y
<1> DEFINE T == {N - x : x \in S}
<1>1. PICK s \in S : TRUE
  BY Zenon
<1>2. T \subseteq Nat /\ N - s \in T
  OBVIOUS
<1>3. PICK t \in T : \A y \in T : t <= y
  BY <1>2, LeastExists, Zenon
<1>4. PICK x \in S : t = N - x
  BY <1>3
<1>5. \A y \in S : N - x <= N - y
  BY <1>3, <1>4
<1>6. \E z \in S : \A y \in S : z >= y
  BY <1>5
<1> QED BY <1>6, Zenon DEF Max

\* One record more ...
LEMMA WithIs ==
    ASSUME NEW p, NEW n, NEW k, IsInjective(p), k \notin Range(p)
    PROVE  /\ DOMAIN With(p, n, k) = DOMAIN p \cup {n}
           /\ Range(With(p, n, k)) \subseteq Range(p) \cup {k}
           /\ IsInjective(With(p, n, k))
           /\ With(p, n, k)[n] = k
           /\ \A i \in DOMAIN p : i # n => With(p, n, k)[i] = p[i]
BY Zenon DEF With, Range, IsInjective

\* ... and one less.
LEMMA WithoutIs ==
    ASSUME NEW p, NEW n, IsInjective(p)
    PROVE  /\ DOMAIN Without(p, n) = DOMAIN p \ {n}
           /\ Range(Without(p, n)) \subseteq Range(p)
           /\ IsInjective(Without(p, n))
           /\ \A i \in DOMAIN p : i # n => Without(p, n)[i] = p[i]
           /\ n \in DOMAIN p => p[n] \notin Range(Without(p, n))
BY DEF Without, Restrict, Range, IsInjective

\* The same pool is as fresh, and has the same keys.
LEMMA SameIs ==
    ASSUME NEW p, NEW q, SamePool(p, q)
    PROVE  Range(p) = Range(q) /\ (IsInjective(p) <=> IsInjective(q))
BY DEF SamePool, Range, IsInjective

\* An empty file has no pool.
LEMMA EmptyPool ==
    /\ DOMAIN EmptyFile.pool = {} /\ Range(EmptyFile.pool) = {} /\ IsInjective(EmptyFile.pool)
<1>1. EmptyFile.pool = <<>>
  BY DEF EmptyFile
<1>2. DOMAIN <<>> = {}
  OBVIOUS
<1> QED BY <1>1, <1>2 DEF Range, IsInjective

\* Before the first start there is no pool.
LEMMA InitPool == Init => PoolInv
<1> SUFFICES ASSUME Init PROVE PoolInv
  OBVIOUS
<1>1. /\ made.keys = 0 /\ dat = EmptyFile /\ rewrite = EmptyFile /\ given = {} /\ setKeyPool = {}
      /\ pc = "down"
  BY DEF Init
<1>2. PoolOf(EmptyFile) /\ Fresh(EmptyFile.pool)
  BY <1>1, EmptyPool, EmptyIsWhole DEF PoolOf, Fresh
<1> QED BY <1>1, <1>2 DEF PoolInv

\* Steps that change neither a file nor the pool in memory.
LEMMA QuietPoolKeeps ==
    ASSUME PoolInv,
           UNCHANGED <<dat, rewrite, txn, made, given, setKeyPool, keys, newkey>>,
           \/ UNCHANGED <<pc, reserved>>
           \/ pc \notin {"down", "erase", "rename", "nofile"}
              /\ pc' \in {"idle", "topup", "committed", "erase", "newpool", "rewrite"}
    PROVE  PoolInv'
BY DEF PoolInv, PoolOf, Fresh

\* A new key leaves the pool of the file alone, and is beyond all keys before.
LEMMA MakesKeyPool ==
    ASSUME KeyInv, PoolInv, GenerateNewKey(made.keys + 1)
    PROVE  /\ dat'.pool = dat.pool
           /\ made.keys \in Nat /\ made'.keys = made.keys + 1 /\ newkey' = made.keys + 1
           /\ UNCHANGED <<rewrite, setKeyPool, backup>>
<1>1. made.keys \in Nat /\ made'.keys = made.keys + 1
  <2>1. made = [keys |-> made.keys, master |-> made.master] /\ made.keys \in Nat
    BY DEF KeyInv, PoolInv
  <2>2. made' = [made EXCEPT !.keys = made.keys + 1]
    BY DEF GenerateNewKey
  <2> QED BY <2>1, <2>2
<1>2. PICK x : dat' = [dat EXCEPT !.key = x] \/ dat' = [dat EXCEPT !.ckey = x]
  BY Zenon DEF GenerateNewKey
<1>3. \/ dat' = [key |-> x, ckey |-> dat.ckey, mkey |-> dat.mkey, pool |-> dat.pool]
      \/ dat' = [key |-> dat.key, ckey |-> x, mkey |-> dat.mkey, pool |-> dat.pool]
  BY <1>2, OneRecord, Zenon DEF KeyInv, Whole
<1>4. dat'.pool = dat.pool
  BY <1>3, RecordsOf
<1> QED BY <1>1, <1>4 DEF GenerateNewKey

\* The first half of a new key: it is in the wallet, and in no pool.
LEMMA MakesKeyKeeps ==
    ASSUME KeyInv, KeyInv', PoolInv, GenerateNewKey(made.keys + 1),
           \/ pc = "topup" /\ pc' = "pool"
           \/ pc = "newpool" /\ pc' = "newrecord"
    PROVE  PoolInv'
<1> DEFINE k == made.keys + 1
<1>1. /\ made.keys \in Nat /\ made'.keys = k
      /\ UNCHANGED <<rewrite, setKeyPool, given>> /\ newkey' = k /\ keys' = keys \cup {k}
  BY MakesKeyPool DEF GenerateNewKey
<1>2. dat'.pool = dat.pool /\ KeysOf(dat') = KeysOf(dat) \cup {k}
  <2>1. KeysOf(dat') = keys' /\ KeysOf(dat) = keys
    BY DEF KeyInv, Current
  <2> QED BY <1>1, <2>1, MakesKeyPool
<1>3. k \notin Range(dat.pool) /\ k \notin given
  BY <1>1 DEF PoolInv, PoolOf
<1>4. dat' # EmptyFile
  BY <1>2, EmptyIsWhole
<1>5. PoolOf(dat)' /\ PoolOf(rewrite)'
  BY <1>1, <1>2 DEF PoolInv, PoolOf
<1>6. Fresh(dat.pool)'
  BY <1>1, <1>2 DEF PoolInv, Fresh
<1> QED BY <1>1, <1>2, <1>3, <1>4, <1>5, <1>6 DEF PoolInv

\* ... the second one writes its record.
LEMMA WritePoolKeeps ==
    ASSUME KeyInv, KeyInv', PoolInv, NEW n \in 1..made.keys, WritePool(n),
           \/ pc = "pool" /\ pc' = "topup"
           \/ pc = "newrecord" /\ pc' = "newpool"
    PROVE  PoolInv'
<1>1. /\ UNCHANGED <<rewrite, given, made, keys>> /\ setKeyPool' = setKeyPool \cup {n}
      /\ dat' = [dat EXCEPT !.pool = With(dat.pool, n, newkey)]
  BY DEF WritePool, store
<1>2. dat'.pool = With(dat.pool, n, newkey) /\ KeysOf(dat') = KeysOf(dat)
  BY <1>1, PoolRecord DEF KeyInv
<1>3. newkey \in KeysOf(dat) /\ newkey \notin Range(dat.pool) /\ newkey \notin given
  BY DEF PoolInv, KeyInv, Current
<1>4. /\ DOMAIN dat'.pool = DOMAIN dat.pool \cup {n}
      /\ Range(dat'.pool) \subseteq Range(dat.pool) \cup {newkey}
      /\ IsInjective(dat'.pool)
  <2>1. IsInjective(dat.pool)
    BY DEF PoolInv, Fresh
  <2> DEFINE p == dat.pool
             q == With(p, n, newkey)
  <2>2. IsInjective(p) /\ newkey \notin Range(p) /\ dat'.pool = q
    BY <1>2, <1>3, <2>1
  <2> HIDE DEF p
  <2>3. DOMAIN q = DOMAIN p \cup {n} /\ Range(q) \subseteq Range(p) \cup {newkey} /\ IsInjective(q)
    BY <2>2, WithIs
  <2> HIDE DEF q
  <2> QED BY <2>2, <2>3 DEF p
<1>5. dat' # EmptyFile
  BY <1>2, <1>3, EmptyIsWhole
<1>6. PoolOf(dat)' /\ PoolOf(rewrite)'
  BY <1>1, <1>2, <1>3, <1>4 DEF PoolInv, PoolOf
<1>7. Fresh(dat.pool)'
  BY <1>1, <1>3, <1>4 DEF PoolInv, Fresh
<1> QED BY <1>1, <1>4, <1>5, <1>6, <1>7 DEF PoolInv

\* Keys and indexes are numbers up to that of the keys made.
LEMMA PoolNumbers ==
    ASSUME PoolInv
    PROVE  /\ made.keys \in Nat /\ 1..made.keys \subseteq Key /\ 1..made.keys \subseteq Nat
           /\ KeysOf(dat) \subseteq Key /\ KeysOf(rewrite) \subseteq Key
           /\ DOMAIN dat.pool \subseteq Nat /\ setKeyPool \subseteq Nat
<1>1. /\ made.keys \in Nat /\ setKeyPool \subseteq 1..made.keys
      /\ KeysOf(dat) \subseteq 1..made.keys /\ KeysOf(rewrite) \subseteq 1..made.keys
      /\ DOMAIN dat.pool \subseteq 1..made.keys
  BY Zenon DEF PoolInv, PoolOf
<1>2. ASSUME NEW k \in Nat PROVE 1..k \subseteq Key /\ 1..k \subseteq Nat
  BY DEF Key
<1> QED BY <1>1, <1>2, Zenon

\* The index a key of the pool gets is not beyond the number of keys made.
LEMMA NewIndex ==
    ASSUME KeyInv, PoolInv, pc \in {"pool", "newrecord"}
    PROVE  /\ (IF setKeyPool = {} THEN 1 ELSE Max(setKeyPool) + 1) \in 1..made.keys
           /\ Cardinality(setKeyPool) + 1 \in 1..made.keys
<1> DEFINE N == made.keys - 1
<1>1. made.keys \in Nat /\ newkey = made.keys /\ setKeyPool \subseteq 1..N
  BY DEF PoolInv
<1>2. newkey \in 1..made.keys
  BY DEF PoolInv, PoolOf, KeyInv, Current
<1>3. N \in Nat /\ made.keys = N + 1
  BY <1>1, <1>2
<1> HIDE DEF N
<1>4. ASSUME setKeyPool # {} PROVE Max(setKeyPool) + 1 \in 1..made.keys
  <2>1. Max(setKeyPool) \in setKeyPool
    <3>1. setKeyPool \subseteq 0..N
      BY <1>1
    <3> QED BY <1>3, <1>4, <3>1, MaxIs, Zenon
  <2>2. Max(setKeyPool) \in 1..N
    BY <1>1, <2>1, Zenon
  <2>3. Max(setKeyPool) + 1 \in 1..made.keys
    BY <1>3, <2>2
  <2> QED BY <1>4, <2>3
<1>5. IsFiniteSet(1..N) /\ Cardinality(1..N) = N
  BY <1>3, FS_Interval
<1>6. IsFiniteSet(setKeyPool) /\ Cardinality(setKeyPool) <= N
  BY <1>1, <1>5, FS_Subset, Zenon
<1>7. Cardinality(setKeyPool) \in Nat
  BY <1>6, FS_CardinalityType
<1>8. 1 \in 1..made.keys /\ Cardinality(setKeyPool) + 1 \in 1..made.keys
  BY <1>3, <1>6, <1>7
<1> QED BY <1>4, <1>8

\* A record that goes: of a key that is kept, or of the old pool.
LEMMA ErasesKeeps ==
    ASSUME KeyInv, KeyInv', PoolInv, NEW n \in DOMAIN dat.pool,
           dat' = [dat EXCEPT !.pool = Without(dat.pool, n)],
           UNCHANGED <<rewrite, txn, keys, made, given, setKeyPool, newkey, reserved>>,
           \/ pc = "reserved" /\ pc' = "kept" /\ n = reserved.index
           \/ pc = "erase" /\ pc' = "erase"
    PROVE  PoolInv'
<1>1. dat'.pool = Without(dat.pool, n) /\ KeysOf(dat') = KeysOf(dat)
  BY PoolRecord DEF KeyInv
<1>2. dat.pool[n] \in Range(dat.pool) /\ dat.pool[n] \in KeysOf(dat)
  BY DEF PoolInv, PoolOf, Range
<1>3. dat' # EmptyFile
  BY <1>1, <1>2, EmptyIsWhole
<1>4. /\ DOMAIN dat'.pool = DOMAIN dat.pool \ {n}
      /\ Range(dat'.pool) \subseteq Range(dat.pool)
      /\ IsInjective(dat'.pool)
      /\ dat.pool[n] \notin Range(dat'.pool)
  <2>1. IsInjective(dat.pool)
    BY DEF PoolInv, Fresh
  <2> DEFINE p == dat.pool
             q == Without(p, n)
  <2>2. IsInjective(p) /\ n \in DOMAIN p /\ dat'.pool = q
    BY <1>1, <2>1
  <2> HIDE DEF p
  <2>3. DOMAIN q = DOMAIN p \ {n} /\ Range(q) \subseteq Range(p) /\ IsInjective(q) /\ p[n] \notin Range(q)
    BY <2>2, WithoutIs, Zenon
  <2> HIDE DEF q
  <2> QED BY <2>2, <2>3 DEF p
<1>5. PoolOf(dat)' /\ PoolOf(rewrite)' /\ Fresh(dat.pool)'
  BY <1>1, <1>4 DEF PoolInv, PoolOf, Fresh
<1>6. CASE pc = "reserved"
  <2>1. pc' = "kept" /\ reserved.key = dat.pool[n] /\ reserved.key \notin given
        /\ setKeyPool \subseteq DOMAIN dat'.pool
    BY <1>2, <1>4, <1>6 DEF PoolInv, Fresh
  <2> QED BY <1>3, <1>4, <1>5, <2>1 DEF PoolInv
<1>7. CASE pc = "erase"
  BY <1>3, <1>5, <1>7 DEF PoolInv
<1> QED BY <1>6, <1>7

\* A key leaves the pool in memory, comes back, or is handed out.
LEMMA ReserveKeeps ==
    ASSUME KeyInv, PoolInv, ReserveKeyFromKeyPool \/ ReturnKey \/ CreateNewBlock \/ HandOut
    PROVE  PoolInv'
<1> USE DEF store, bdb
<1>1. CASE ReserveKeyFromKeyPool
  <2>1. /\ UNCHANGED <<dat, rewrite, txn, keys, made, given, newkey>> /\ pc \in {"topup", "idle"}
        /\ setKeyPool' = setKeyPool \ {OldestKey}
    BY <1>1 DEF ReserveKeyFromKeyPool
  <2>2. CASE Usable(OldestKey)
    <3>1. /\ pc' = "reserved" /\ reserved'.index = OldestKey
          /\ reserved'.key = dat.pool[OldestKey] /\ OldestKey \in DOMAIN dat.pool
      BY <1>1, <2>2 DEF ReserveKeyFromKeyPool, Usable
    <3> QED BY <2>1, <3>1, Zenon DEF PoolInv, PoolOf, Fresh
  <2>3. CASE ~Usable(OldestKey)
    <3>1. pc' = "idle"
      BY <1>1, <2>3 DEF ReserveKeyFromKeyPool
    <3> QED BY <2>1, <3>1, Zenon DEF PoolInv, PoolOf, Fresh
  <2> QED BY <2>2, <2>3
<1>2. CASE ReturnKey \/ CreateNewBlock
  BY <1>2, Zenon DEF ReturnKey, CreateNewBlock, PoolInv, PoolOf, Fresh
<1>3. CASE HandOut
  <2>1. /\ UNCHANGED <<dat, rewrite, txn, keys, made, newkey, setKeyPool>>
        /\ pc = "kept" /\ pc' = "idle" /\ given' = given \cup {reserved.key}
    BY <1>3 DEF HandOut
  <2>2. reserved.key \in KeysOf(dat)
    BY <2>1 DEF KeyInv, Current
  <2>3. dat # EmptyFile
    BY <2>2, EmptyIsWhole
  <2> QED BY <2>1, <2>2, <2>3, Zenon DEF PoolInv, PoolOf, Fresh
<1> QED BY <1>1, <1>2, <1>3

\* The encryption takes the pool over as it is; then it is forgotten.
LEMMA EncryptionKeeps ==
    ASSUME KeyInv, KeyInv', PoolInv, EncryptWallet \/ EncryptCommits \/ ForgetPool
    PROVE  PoolInv'
<1> USE DEF store, bdb
<1>1. CASE EncryptWallet
  <2>1. txn'.pool = dat.pool
    BY <1>1, EncryptedHasKeys DEF EncryptWallet
  <2>2. UNCHANGED <<dat, rewrite, keys, made, given, setKeyPool>> /\ pc = "idle" /\ pc' = "commit"
    BY <1>1 DEF EncryptWallet
  <2> QED BY <2>1, <2>2 DEF PoolInv, PoolOf, Fresh
<1>2. CASE EncryptCommits
  <2>1. /\ dat' = txn /\ UNCHANGED <<rewrite, keys, given, setKeyPool, newkey, reserved>>
        /\ pc = "commit" /\ pc' = "committed" /\ made'.keys = made.keys
    BY <1>2, CountsCommit DEF EncryptCommits
  <2>2. KeysOf(txn) = KeysOf(dat) /\ txn.pool = dat.pool /\ rewrite = EmptyFile
    BY <2>1 DEF KeyInv, PoolInv, Current
  <2>3. Fresh(EmptyFile.pool)
    BY EmptyPool DEF Fresh
  <2> QED BY <2>1, <2>2, <2>3 DEF PoolInv, PoolOf, Fresh
<1>3. CASE ForgetPool
  BY <1>3 DEF ForgetPool, PoolInv, PoolOf, Fresh
<1> QED BY <1>1, <1>2, <1>3

\* A copy onto an empty file has the same pool.
LEMMA CopyHasPool == SamePool(CopyOnto(EmptyFile).pool, dat.pool)
<1>1. CopyOnto(EmptyFile).pool =
          [n \in DOMAIN EmptyFile.pool \cup DOMAIN dat.pool |->
              IF n \in DOMAIN EmptyFile.pool THEN EmptyFile.pool[n] ELSE dat.pool[n]]
  BY DEF CopyOnto
<1> QED BY <1>1, EmptyPool DEF SamePool

\* The rewrite of the file.
LEMMA RewritePoolKeeps ==
    ASSUME KeyInv, KeyInv', PoolInv, RewriteCopies \/ RewriteRemoves \/ RewriteRenames
    PROVE  PoolInv'
<1> USE DEF store, bdb
<1>1. CASE RewriteCopies
  <2>1. /\ UNCHANGED <<dat, txn, keys, made, given, setKeyPool, newkey, reserved>>
        /\ pc = "rewrite" /\ pc' \in {"remove", "idle"} /\ rewrite = EmptyFile
        /\ rewrite' \in {rewrite, CopyOnto(EmptyFile)} /\ (pc' = "remove" => rewrite' = CopyOnto(EmptyFile))
    BY <1>1 DEF RewriteCopies, KeyInv
  <2>2. CASE rewrite' = CopyOnto(EmptyFile)
    <3>1. SamePool(rewrite'.pool, dat.pool)
      BY <2>2, CopyHasPool
    <3>2. KeysOf(rewrite') = KeysOf(dat)
      BY <2>2, CopyIsWhole DEF KeyInv, KeysOf
    <3>3. Range(rewrite'.pool) = Range(dat.pool) /\ IsInjective(rewrite'.pool)
          /\ DOMAIN rewrite'.pool = DOMAIN dat.pool
      BY <3>1, SameIs DEF PoolInv, Fresh, SamePool
    <3> QED BY <2>1, <3>1, <3>2, <3>3 DEF PoolInv, PoolOf, Fresh, SamePool
  <2>3. CASE rewrite' = rewrite /\ pc' = "idle"
    BY <2>1, <2>3 DEF PoolInv, PoolOf, Fresh
  <2> QED BY <2>1, <2>2, <2>3
<1>2. CASE RewriteRemoves
  <2>1. /\ UNCHANGED <<rewrite, txn, keys, made, given, setKeyPool, newkey, reserved>>
        /\ pc = "remove" 
        /\ ((dat' = EmptyFile /\ pc' = "rename") \/ (dat' = dat /\ pc' = "idle"))
    BY <1>2 DEF RewriteRemoves
  <2>2. SamePool(rewrite.pool, dat.pool)
    BY <2>1 DEF PoolInv
  <2>3. Range(rewrite.pool) = Range(dat.pool) /\ IsInjective(rewrite.pool)
        /\ DOMAIN rewrite.pool = DOMAIN dat.pool
    BY <2>2, SameIs DEF PoolInv, Fresh, SamePool
  <2>4. CASE dat' = EmptyFile /\ pc' = "rename"
    <3>1. PoolOf(dat)' /\ Fresh(dat.pool)'
      BY <2>1, <2>4, EmptyPool, EmptyIsWhole DEF PoolOf, Fresh
    <3> QED BY <2>1, <2>3, <2>4, <3>1 DEF PoolInv, PoolOf, Fresh
  <2>5. CASE dat' = dat /\ pc' = "idle"
    BY <2>1, <2>5 DEF PoolInv, PoolOf, Fresh
  <2> QED BY <2>1, <2>4, <2>5
<1>3. CASE RewriteRenames
  <2>1. UNCHANGED <<txn, keys, made, given, setKeyPool, newkey, reserved>> /\ pc = "rename"
        /\ dat = EmptyFile
    BY <1>3 DEF RewriteRenames, KeyInv
  <2>2. CASE pc' = "idle" /\ dat' = rewrite /\ rewrite' = EmptyFile
    <3>1. PoolOf(rewrite)' /\ Fresh(rewrite.pool)'
      BY <2>1, <2>2, EmptyPool, EmptyIsWhole DEF PoolOf, Fresh
    <3> QED BY <2>1, <2>2, <3>1 DEF PoolInv, PoolOf, Fresh
  <2>3. CASE pc' = "nofile" /\ UNCHANGED <<dat, rewrite>>
    BY <2>1, <2>3 DEF PoolInv, PoolOf, Fresh
  <2> QED BY <1>3, <2>2, <2>3 DEF RewriteRenames
<1> QED BY <1>1, <1>2, <1>3

\* Every step keeps the invariant of the pool.
LEMMA NextPool == ASSUME KeyInv, PoolInv, MaxMasterKeys <= 1, [Next]_vars PROVE KeyInv' /\ PoolInv'
<1>0. KeyInv'
  BY NextKeys
<1> USE DEF store, bdb
<1>1. CASE OtherOpens \/ OtherCloses \/ ThreadFlushWalletDB \/ Lock \/ Unlock \/ BackupWallet
           \/ GetDefaultKey
  BY <1>0, <1>1, QuietPoolKeeps DEF OtherOpens, OtherCloses, ThreadFlushWalletDB, Lock, Unlock,
                                    BackupWallet, GetDefaultKey
<1>2. CASE TopUpKeyPool \/ TopUpEnds \/ NewKeyPool \/ NewPoolEnds
  BY <1>0, <1>2, QuietPoolKeeps DEF TopUpKeyPool, TopUpEnds, NewKeyPool, NewPoolEnds
<1>3. CASE TopUpMakesKey \/ NewPoolMakesKey
  BY <1>0, <1>3, MakesKeyKeeps DEF TopUpMakesKey, NewPoolMakesKey
<1>4. CASE TopUpWritesPool
  BY <1>0, <1>4, NewIndex, WritePoolKeeps DEF TopUpWritesPool
<1>5. CASE NewPoolWritesPool
  BY <1>0, <1>5, NewIndex, WritePoolKeeps DEF NewPoolWritesPool
<1>6. CASE KeepKey
  <2>1. reserved.index \in DOMAIN dat.pool
    BY <1>6 DEF KeepKey, PoolInv
  <2> QED BY <1>0, <1>6, <2>1, ErasesKeeps DEF KeepKey
<1>7. CASE ErasePool
  BY <1>0, <1>7, ErasesKeeps DEF ErasePool
<1>8. CASE ReserveKeyFromKeyPool \/ ReturnKey \/ CreateNewBlock \/ HandOut
  BY <1>0, <1>8, ReserveKeeps
<1>9. CASE EncryptWallet \/ EncryptCommits \/ ForgetPool
  BY <1>0, <1>9, EncryptionKeeps
<1>10. CASE RewriteCopies \/ RewriteRemoves \/ RewriteRenames
  BY <1>0, <1>10, RewritePoolKeeps
<1>11. CASE Stop
  BY <1>0, <1>11 DEF Stop, PoolInv, PoolOf, Fresh
<1>12. CASE LoadWallet
  BY <1>0, <1>12 DEF LoadWallet, PoolInv, PoolOf, Fresh
<1>13. CASE UNCHANGED vars
  BY <1>0, <1>13, QuietPoolKeeps DEF vars
<1> QED BY <1>0, <1>1, <1>2, <1>3, <1>4, <1>5, <1>6, <1>7, <1>8, <1>9, <1>10, <1>11, <1>12,
           <1>13 DEF Next

\* The default key is a key that was handed out to be it, and nothing else is
\* handed out again.
UseInv ==
    /\ again \subseteq defaults
    /\ defaults \subseteq given
    /\ vchDefaultKey # NULL => vchDefaultKey \in defaults

\* A key that comes from the pool is a new one, since the pool is fresh.
LEMMA NextUses == ASSUME PoolInv, UseInv, [Next]_vars PROVE UseInv'
<1>1. CASE HandOut
  <2>1. reserved.key \notin given
    BY <1>1 DEF HandOut, PoolInv
  <2>2. again' = again /\ defaults' = defaults \cup {vchDefaultKey'} /\ given' = given \cup {reserved.key}
    BY <1>1, <2>1 DEF HandOut
  <2>3. vchDefaultKey' = reserved.key \/ (vchDefaultKey # NULL /\ vchDefaultKey' = vchDefaultKey)
    BY <1>1 DEF HandOut
  <2> QED BY <2>2, <2>3 DEF UseInv
<1>2. CASE GetDefaultKey
  BY <1>2 DEF GetDefaultKey, UseInv
<1>3. CASE CreateNewBlock \/ LoadWallet
  BY <1>3 DEF CreateNewBlock, LoadWallet, UseInv
<1>4. CASE UNCHANGED uses
  BY <1>4 DEF UseInv
<1>5. CASE \/ OtherOpens \/ OtherCloses \/ ThreadFlushWalletDB \/ BackupWallet \/ Lock \/ Unlock
           \/ TopUpKeyPool \/ TopUpMakesKey \/ TopUpWritesPool \/ TopUpEnds
           \/ ReserveKeyFromKeyPool \/ KeepKey \/ ReturnKey
  BY <1>4, <1>5 DEF OtherOpens, OtherCloses, ThreadFlushWalletDB, BackupWallet, Lock, Unlock,
                    TopUpKeyPool, TopUpMakesKey, TopUpWritesPool, TopUpEnds, GenerateNewKey,
                    WritePool, ReserveKeyFromKeyPool, KeepKey, ReturnKey
<1>6. CASE \/ EncryptWallet \/ EncryptCommits \/ NewKeyPool \/ ErasePool \/ ForgetPool
           \/ NewPoolMakesKey \/ NewPoolWritesPool \/ NewPoolEnds
           \/ RewriteCopies \/ RewriteRemoves \/ RewriteRenames \/ Stop
  BY <1>4, <1>6 DEF EncryptWallet, EncryptCommits, NewKeyPool, ErasePool, ForgetPool,
                    NewPoolMakesKey, NewPoolWritesPool, NewPoolEnds, GenerateNewKey, WritePool,
                    RewriteCopies, RewriteRemoves, RewriteRenames, Stop
<1>7. CASE UNCHANGED vars
  BY <1>4, <1>7 DEF vars
<1> QED BY <1>1, <1>2, <1>3, <1>5, <1>6, <1>7 DEF Next

\* In a wallet that is encrypted at most once the pool hands out no key twice:
\* wherever the process stops, the pool it finds on the next start has none that
\* ReserveKeyFromKeyPool and KeepKey have given away, and none twice; a key that
\* is given again was a default key, given in place of one of an empty pool.
THEOREM NeverHandedOutTwiceHolds == ASSUME MaxMasterKeys <= 1 PROVE Spec => []NeverHandedOutTwice
<1>1. Init => KeyInv /\ PoolInv /\ UseInv
  <2>1. Init => UseInv
    BY DEF Init, UseInv
  <2> QED BY <2>1, InitKeys, InitPool
<1>2. KeyInv /\ PoolInv /\ UseInv /\ [Next]_vars => KeyInv' /\ PoolInv' /\ UseInv'
  BY NextPool, NextUses
<1>3. PoolInv /\ UseInv => NeverHandedOutTwice
  BY DEF PoolInv, UseInv, Fresh, NeverHandedOutTwice, PoolOnDisk
<1> QED BY <1>1, <1>2, <1>3, PTL DEF Spec

\* Nor does ReserveKeyFromKeyPool find an index without its record, or with a key
\* the wallet does not have, as long as wallet.dat is there: it does not throw.
THEOREM PoolUsableHolds == ASSUME MaxMasterKeys <= 1 PROVE Spec => []PoolUsable
<1>1. Init => KeyInv /\ PoolInv
  BY InitKeys, InitPool
<1>2. KeyInv /\ PoolInv /\ [Next]_vars => KeyInv' /\ PoolInv'
  BY NextPool
<1>3. KeyInv /\ PoolInv => PoolUsable
  BY DEF KeyInv, Current, PoolInv, PoolOf, PoolUsable, Usable, Range
<1> QED BY <1>1, <1>2, <1>3, PTL DEF Spec

-----------------------------------------------------------------------------
(* The handles.                                                            *)

\* The count is right, and the thread that works on the keys has its handle
\* exactly while it writes.
HandleInv ==
    /\ HandlesAreOpen
    /\ IsFiniteSet(handles)
    /\ pc \in Writing <=> "keys" \in handles
    /\ pc = "down" => handles = {}

\* Opening a handle that is not open, and closing one that is, keep the count.
LEMMA CountKeeps ==
    ASSUME HandlesAreOpen, IsFiniteSet(handles), NEW h,
           \/ Open(h) /\ h \notin handles
           \/ Close(h) /\ h \in handles
    PROVE  HandlesAreOpen' /\ IsFiniteSet(handles')
<1>0. Cardinality(handles) \in Nat
  BY FS_CardinalityType
<1>1. CASE Open(h) /\ h \notin handles
  <2>1. Cardinality(handles \cup {h}) = Cardinality(handles) + 1 /\ IsFiniteSet(handles \cup {h})
    BY <1>1, FS_AddElement
  <2> QED BY <1>0, <1>1, <2>1 DEF Open, HandlesAreOpen
<1>2. CASE Close(h) /\ h \in handles
  <2>1. Cardinality(handles \ {h}) = Cardinality(handles) - 1 /\ IsFiniteSet(handles \ {h})
    BY <1>2, FS_RemoveElement
  <2> QED BY <1>0, <1>2, <2>1 DEF Close, HandlesAreOpen
<1> QED BY <1>1, <1>2

\* Every step keeps the invariant of the handles.
LEMMA NextHandles == ASSUME HandleInv, [Next]_vars PROVE HandleInv'
<1> USE DEF HandleInv, Writing, store, bdb
<1>1. CASE OtherOpens
  BY <1>1, CountKeeps DEF OtherOpens, Open
<1>2. CASE OtherCloses
  BY <1>2, CountKeeps DEF OtherCloses, Close
<1>3. CASE TopUpKeyPool
  BY <1>3, CountKeeps DEF TopUpKeyPool, Open
<1>4. CASE EncryptWallet \/ NewKeyPool
  BY <1>4, CountKeeps, Zenon DEF EncryptWallet, NewKeyPool, Open
<1>5. CASE TopUpEnds
  BY <1>5, CountKeeps DEF TopUpEnds, Close
<1>6. CASE NewPoolEnds \/ EncryptCommits
  BY <1>6, CountKeeps DEF NewPoolEnds, EncryptCommits, Close
<1>7. CASE ReserveKeyFromKeyPool
  <2>1. pc' \in {"reserved", "idle"}
    BY <1>7 DEF ReserveKeyFromKeyPool
  <2>2. CASE pc = "topup" /\ Close("keys")
    BY <2>1, <2>2, CountKeeps DEF Close
  <2>3. CASE pc = "idle" /\ OpenAndClose
    BY <2>1, <2>3 DEF OpenAndClose, HandlesAreOpen
  <2> QED BY <1>7, <2>2, <2>3 DEF ReserveKeyFromKeyPool
<1>8. CASE ThreadFlushWalletDB \/ BackupWallet \/ RewriteCopies
  <2>1. mapFileUseCount = 0 /\ UNCHANGED <<mapFileUseCount, handles>>
    BY <1>8 DEF ThreadFlushWalletDB, BackupWallet, RewriteCopies, Unused
  <2>2. handles = {}
    BY <2>1, FS_EmptySet, Zenon DEF HandlesAreOpen
  <2> QED BY <1>8, <2>1, <2>2, Zenon DEF ThreadFlushWalletDB, BackupWallet, RewriteCopies, HandlesAreOpen
<1>9. CASE TopUpMakesKey \/ TopUpWritesPool \/ NewPoolMakesKey \/ NewPoolWritesPool
  BY <1>9 DEF TopUpMakesKey, TopUpWritesPool, NewPoolMakesKey, NewPoolWritesPool, GenerateNewKey,
              WritePool, HandlesAreOpen
<1>10. CASE KeepKey \/ Lock
  BY <1>10 DEF KeepKey, Lock, OpenAndClose, HandlesAreOpen
<1>11. CASE HandOut \/ GetDefaultKey \/ ReturnKey \/ CreateNewBlock \/ Unlock \/ ErasePool
            \/ ForgetPool
  BY <1>11 DEF HandOut, GetDefaultKey, ReturnKey, CreateNewBlock, Unlock, ErasePool, ForgetPool,
               HandlesAreOpen
<1>12. CASE RewriteRemoves \/ RewriteRenames
  BY <1>12 DEF RewriteRemoves, RewriteRenames, HandlesAreOpen
<1>13. CASE Stop
  BY <1>13, FS_EmptySet DEF Stop, HandlesAreOpen
<1>14. CASE LoadWallet
  BY <1>14 DEF LoadWallet, HandlesAreOpen
<1>15. CASE UNCHANGED vars
  BY <1>15 DEF vars, HandlesAreOpen
<1> QED BY <1>1, <1>2, <1>3, <1>4, <1>5, <1>6, <1>7, <1>8, <1>9, <1>10, <1>11, <1>12, <1>13,
           <1>14, <1>15 DEF Next

\* ThreadFlushWalletDB, BackupWallet and Rewrite never close the database under
\* a CWalletDB that lives: mapFileUseCount counts them exactly, through every
\* order of opening, closing, encryption and rewriting.
THEOREM HandlesAreOpenHolds == Spec => []HandlesAreOpen
<1>1. Init => HandleInv
  BY FS_EmptySet DEF Init, HandleInv, HandlesAreOpen, Writing
<1>2. HandleInv /\ [Next]_vars => HandleInv'
  BY NextHandles
<1>3. HandleInv => HandlesAreOpen
  BY DEF HandleInv
<1> QED BY <1>1, <1>2, <1>3, PTL DEF Spec

-----------------------------------------------------------------------------
(* Types.                                                                  *)

\* An encrypted key names a master key that was made.
Sealed(f) == f.mkey \in 0..MaxMasterKeys /\ f.ckey \subseteq Key \X (1..MaxMasterKeys)

\* The places of an encryption at which the key store is encrypted already.
Encrypting == {"commit", "committed", "erase", "newpool", "newrecord"}

\* Master keys are numbered, and an encrypted wallet has one.
MasterInv ==
    /\ made.master \in 0..MaxMasterKeys
    /\ Sealed(dat) /\ Sealed(rewrite)
    /\ IF pc = "commit" THEN Sealed(txn) ELSE txn = NULL
    /\ pc = "commit" => made.master < MaxMasterKeys
    /\ nMasterKey \in 0..MaxMasterKeys /\ (fUseCrypto => nMasterKey # 0)
    /\ fUseCrypto \in BOOLEAN /\ locked \in BOOLEAN /\ mapDb \in BOOLEAN
    /\ locked \/ pc \in Encrypting => fUseCrypto
    /\ pc \in Places
    /\ handles \subseteq {"keys", "other"}

\* Steps that make neither a master key nor an encrypted record.
LEMMA QuietMasterKeeps ==
    ASSUME MasterInv, dat'.ckey = dat.ckey, dat'.mkey = dat.mkey,
           UNCHANGED <<rewrite, txn, nMasterKey, fUseCrypto>>, made'.master = made.master,
           mapDb' \in BOOLEAN, handles' \subseteq {"keys", "other"},
           locked' \in BOOLEAN, locked' => fUseCrypto,
           \/ pc' = pc
           \/ pc # "commit" /\ pc' \in Places \ {"commit"} /\ (pc' \in Encrypting => pc \in Encrypting)
    PROVE  MasterInv'
BY DEF MasterInv, Sealed

\* A change of the pool's records is such a step.
LEMMA PoolSeals ==
    ASSUME KeyInv, NEW x, dat' = [dat EXCEPT !.pool = x]
    PROVE  dat'.ckey = dat.ckey /\ dat'.mkey = dat.mkey
BY PoolRecord DEF KeyInv

\* A new key is encrypted with the master key there is.
LEMMA MakesKeySeals ==
    ASSUME KeyInv, PoolInv, MasterInv, GenerateNewKey(made.keys + 1),
           \/ pc = "topup" /\ pc' = "pool"
           \/ pc = "newpool" /\ pc' = "newrecord"
    PROVE  MasterInv'
<1> DEFINE k == made.keys + 1
<1>1. made.keys \in Nat /\ k \in Key
  BY DEF PoolInv, Key
<1>2. made'.master = made.master
  <2> DEFINE a == made.keys
             b == made.master
  <2>1. made = [keys |-> a, master |-> b] /\ made' = [made EXCEPT !.keys = a + 1]
    BY DEF KeyInv, GenerateNewKey
  <2> HIDE DEF a, b
  <2>2. made'.master = b /\ made.master = b
    BY <2>1
  <2> QED BY <2>2
<1>3. Sealed(dat)'
  <2> DEFINE x == dat.ckey \cup {<<k, nMasterKey>>}
  <2>0. HasRecords(dat)
    BY DEF KeyInv, Whole
  <2>1. CASE fUseCrypto
    <3>1. dat' = [dat EXCEPT !.ckey = x]
      BY <2>1 DEF GenerateNewKey
    <3>2. x \subseteq Key \X (1..MaxMasterKeys)
      <4>1. nMasterKey \in 1..MaxMasterKeys
        BY <2>1, WalletFileAssumption DEF MasterInv
      <4> QED BY <1>1, <4>1 DEF MasterInv, Sealed
    <3> HIDE DEF x
    <3>3. dat'.ckey = x /\ dat'.mkey = dat.mkey
      BY <2>0, <3>1, OneRecord, RecordsOf
    <3> QED BY <3>2, <3>3 DEF MasterInv, Sealed
  <2>2. CASE ~fUseCrypto
    <3> DEFINE y == dat.key \cup {k}
    <3>1. dat' = [dat EXCEPT !.key = y]
      BY <2>2 DEF GenerateNewKey
    <3> HIDE DEF y
    <3>2. dat'.ckey = dat.ckey /\ dat'.mkey = dat.mkey
      BY <2>0, <3>1, OneRecord, RecordsOf
    <3> QED BY <3>2 DEF MasterInv, Sealed
  <2> QED BY <2>1, <2>2
<1>4. UNCHANGED <<rewrite, txn, nMasterKey, fUseCrypto, locked, mapDb, handles>>
  BY DEF GenerateNewKey, bdb
<1> QED BY <1>2, <1>3, <1>4 DEF MasterInv, Sealed, Places, Writing, Encrypting

\* The encryption makes a master key and encrypts all keys with it.
LEMMA EncryptSeals ==
    ASSUME KeyInv, PoolInv, MasterInv, EncryptWallet
    PROVE  MasterInv'
<1> DEFINE m == made.master + 1
<1>1. m \in 1..MaxMasterKeys /\ nMasterKey' = m
  BY WalletFileAssumption DEF EncryptWallet, MasterInv
<1>2. made.master \in Nat /\ made.master < MaxMasterKeys
  BY DEF EncryptWallet, KeyInv
<1> HIDE DEF m
<1>3. txn' = [key |-> dat.key \ keys, ckey |-> keys \X {m}, mkey |-> m, pool |-> dat.pool]
  BY <1>1, Zenon DEF EncryptWallet, Encrypted
<1>4. keys \subseteq Key
  <2>1. keys = KeysOf(dat)
    BY DEF EncryptWallet, KeyInv, Current
  <2> QED BY <2>1, PoolNumbers, Zenon
<1>5. txn'.ckey = keys \X {m} /\ txn'.mkey = m
  BY <1>3, RecordsOf
<1>6. Sealed(txn)'
  BY <1>1, <1>4, <1>5 DEF Sealed
<1> QED BY <1>1, <1>2, <1>6 DEF EncryptWallet, Open, MasterInv, Sealed, Places, Writing, Encrypting

\* The rewrite of the file.
LEMMA RewriteSeals ==
    ASSUME KeyInv, MasterInv, RewriteCopies \/ RewriteRemoves \/ RewriteRenames
    PROVE  MasterInv'
<1> USE DEF store, bdb, Places, Writing, Encrypting
<1>1. Sealed(EmptyFile)
  <2>1. EmptyFile.ckey = {} /\ EmptyFile.mkey = 0
    BY DEF EmptyFile
  <2> QED BY <2>1, WalletFileAssumption DEF Sealed
<1>2. CASE RewriteCopies
  <2>1. rewrite = EmptyFile /\ rewrite' \in {rewrite, CopyOnto(EmptyFile)}
    BY <1>2 DEF RewriteCopies, KeyInv
  <2>2. CopyOnto(EmptyFile).ckey = dat.ckey /\ CopyOnto(EmptyFile).mkey = dat.mkey
    BY CopyIsWhole DEF KeyInv
  <2>3. Sealed(rewrite)'
    BY <1>1, <2>1, <2>2 DEF MasterInv, Sealed
  <2> QED BY <1>2, <2>3, Zenon DEF RewriteCopies, MasterInv, Sealed
<1>3. CASE RewriteRemoves
  BY <1>1, <1>3 DEF RewriteRemoves, MasterInv, Sealed
<1>4. CASE RewriteRenames
  BY <1>1, <1>4 DEF RewriteRenames, MasterInv, Sealed
<1> QED BY <1>2, <1>3, <1>4

\* A load finds a master key if it finds an encrypted key.
LEMMA RestartSeals == ASSUME KeyInv, MasterInv, Stop \/ LoadWallet PROVE MasterInv'
<1> USE DEF store, bdb, Places, Writing, Encrypting
<1>1. CASE Stop
  <2>1. /\ UNCHANGED <<dat, rewrite, made>> /\ pc' = "down" /\ txn' = NULL /\ handles' = {}
        /\ nMasterKey' = 0
    BY <1>1 DEF Stop
  <2>2. fUseCrypto' \in BOOLEAN /\ locked' \in BOOLEAN /\ mapDb' \in BOOLEAN
        /\ ~fUseCrypto' /\ ~locked'
    BY <1>1, Zenon DEF Stop
  <2>3. 0 \in 0..MaxMasterKeys
    BY WalletFileAssumption
  <2> QED BY <2>1, <2>2, <2>3 DEF MasterInv, Sealed
<1>2. CASE LoadWallet
  <2>1. ASSUME dat.ckey # {} PROVE dat.mkey # 0
    <3>1. PICK c \in dat.ckey : TRUE
      BY <2>1
    <3>2. c[2] = dat.mkey /\ c[2] \in 1..MaxMasterKeys
      BY DEF KeyInv, Whole, MasterInv, Sealed
    <3> QED BY <3>2, WalletFileAssumption
  <2> QED BY <1>2, <2>1, Zenon DEF LoadWallet, MasterInv, Sealed
<1> QED BY <1>1, <1>2

\* Every step keeps the invariant of the master keys.
LEMMA NextMaster == ASSUME KeyInv, PoolInv, MasterInv, [Next]_vars PROVE MasterInv'
<1> USE DEF store, bdb, Places, Writing, Encrypting
<1>1. CASE OtherOpens \/ OtherCloses \/ ThreadFlushWalletDB \/ BackupWallet \/ Lock \/ Unlock
           \/ GetDefaultKey
  <2>0. locked \in BOOLEAN /\ mapDb \in BOOLEAN /\ (locked => fUseCrypto)
    BY DEF MasterInv
  <2>1. UNCHANGED <<dat, rewrite, txn, nMasterKey, fUseCrypto, made, pc>>
    BY <1>1 DEF OtherOpens, OtherCloses, ThreadFlushWalletDB, BackupWallet, Lock, Unlock,
                GetDefaultKey
  <2>2. handles' \subseteq {"keys", "other"}
    BY <1>1, Zenon DEF OtherOpens, OtherCloses, ThreadFlushWalletDB, BackupWallet, Lock, Unlock,
                       GetDefaultKey, Open, Close, OpenAndClose, MasterInv
  <2>3. mapDb' \in BOOLEAN
    BY <1>1, <2>0, Zenon DEF OtherOpens, OtherCloses, ThreadFlushWalletDB, BackupWallet, Lock,
                             Unlock, GetDefaultKey, Open, Close, OpenAndClose
  <2>4. locked' \in BOOLEAN /\ (locked' => fUseCrypto)
    <3>1. locked' = locked \/ locked' = FALSE \/ (fUseCrypto /\ locked' = TRUE)
      BY <1>1 DEF OtherOpens, OtherCloses, ThreadFlushWalletDB, BackupWallet, Lock, Unlock,
                  GetDefaultKey
    <3>2. CASE locked' = locked
      BY <2>0, <3>2
    <3>3. CASE locked' = FALSE
      BY <3>3, Zenon
    <3>4. CASE fUseCrypto /\ locked' = TRUE
      BY <3>4
    <3> QED BY <3>1, <3>2, <3>3, <3>4, Zenon
  <2> QED BY <2>1, <2>2, <2>3, <2>4, QuietMasterKeeps
<1>2. CASE TopUpKeyPool \/ TopUpEnds \/ ReserveKeyFromKeyPool \/ HandOut \/ ReturnKey
           \/ CreateNewBlock
  <2>1. UNCHANGED <<dat, rewrite, txn, nMasterKey, fUseCrypto, made, locked>>
        /\ mapDb' \in BOOLEAN /\ handles' \subseteq {"keys", "other"}
        /\ pc # "commit" /\ pc' \in {"topup", "idle", "reserved"}
    BY <1>2, Zenon DEF TopUpKeyPool, TopUpEnds, ReserveKeyFromKeyPool, HandOut, ReturnKey,
                       CreateNewBlock, Open, Close, OpenAndClose, MasterInv
  <2>2. locked' \in BOOLEAN /\ (locked' => fUseCrypto)
    BY <2>1 DEF MasterInv
  <2> QED BY <2>1, <2>2, QuietMasterKeeps
<1>3. CASE NewKeyPool \/ ForgetPool \/ NewPoolEnds
  <2>1. UNCHANGED <<dat, rewrite, txn, nMasterKey, fUseCrypto, made>> /\ (locked' = locked \/ locked' = TRUE)
        /\ mapDb' \in BOOLEAN /\ handles' \subseteq {"keys", "other"}
        /\ pc \in Encrypting \ {"commit"} /\ pc' \in {"erase", "newpool", "rewrite"}
    BY <1>3, Zenon DEF NewKeyPool, ForgetPool, NewPoolEnds, Open, Close, MasterInv
  <2>2. fUseCrypto /\ locked' \in BOOLEAN
    BY <2>1, Zenon DEF MasterInv
  <2> QED BY <2>1, <2>2, QuietMasterKeeps
<1>4. CASE TopUpWritesPool \/ NewPoolWritesPool \/ KeepKey \/ ErasePool
  <2>1. /\ \E x : dat' = [dat EXCEPT !.pool = x]
        /\ UNCHANGED <<rewrite, txn, nMasterKey, fUseCrypto, made, locked, handles>>
        /\ mapDb' \in BOOLEAN
        /\ \/ pc' = pc
           \/ pc # "commit" /\ pc' \in {"topup", "kept"}
           \/ pc = "newrecord" /\ pc' = "newpool"
    BY <1>4, Zenon DEF TopUpWritesPool, NewPoolWritesPool, KeepKey, ErasePool, WritePool,
                      OpenAndClose, MasterInv
  <2>2. dat'.ckey = dat.ckey /\ dat'.mkey = dat.mkey
    BY <2>1, PoolSeals
  <2>3. locked' \in BOOLEAN /\ (locked' => fUseCrypto) /\ handles' \subseteq {"keys", "other"}
    BY <2>1 DEF MasterInv
  <2> QED BY <2>1, <2>2, <2>3, QuietMasterKeeps
<1>5. CASE TopUpMakesKey \/ NewPoolMakesKey
  BY <1>5, MakesKeySeals DEF TopUpMakesKey, NewPoolMakesKey
<1>6. CASE EncryptWallet
  BY <1>6, EncryptSeals
<1>7. CASE EncryptCommits
  <2>1. made'.master \in 0..MaxMasterKeys
    BY <1>7, CountsCommit, WalletFileAssumption DEF EncryptCommits, MasterInv
  <2> QED BY <1>7, <2>1 DEF EncryptCommits, Close, MasterInv, Sealed
<1>8. CASE RewriteCopies \/ RewriteRemoves \/ RewriteRenames
  BY <1>8, RewriteSeals
<1>9. CASE Stop \/ LoadWallet
  BY <1>9, RestartSeals
<1>10. CASE UNCHANGED vars
  BY <1>10 DEF vars, MasterInv, Sealed
<1> QED BY <1>1, <1>2, <1>3, <1>4, <1>5, <1>6, <1>7, <1>8, <1>9, <1>10 DEF Next

\* The types follow from the invariants.
LEMMA InvariantsImplyTypes ==
    ASSUME KeyInv, PoolInv, UseInv, MasterInv, HandleInv PROVE TypeOK
<1>1. ASSUME NEW f, KeysOf(f) \subseteq 1..made.keys, Range(f.pool) \subseteq KeysOf(f),
             DOMAIN f.pool \subseteq 1..made.keys, Sealed(f)
      PROVE  IsFile(f)
  <2>1. 1..made.keys \subseteq Key /\ 1..made.keys \subseteq Nat
    BY PoolNumbers, Zenon
  <2> QED BY <1>1, <2>1 DEF IsFile, Sealed, KeysOf
<1>2. IsFile(dat) /\ IsFile(rewrite)
  BY <1>1 DEF PoolInv, PoolOf, MasterInv
<1>3. ASSUME txn # NULL PROVE IsFile(txn)
  <2>1. pc = "commit" /\ Sealed(txn)
    BY <1>3 DEF MasterInv
  <2>2. KeysOf(txn) = KeysOf(dat) /\ txn.pool = dat.pool
    BY <2>1 DEF KeyInv, PoolInv, Current
  <2> QED BY <1>1, <2>1, <2>2 DEF PoolInv, PoolOf
<1>4. keys \subseteq Key /\ given \cup mined \subseteq Key /\ setKeyPool \subseteq Nat
  BY DEF KeyInv, Current, PoolInv, PoolOf, Key
<1>5. mapFileUseCount \in 0..2
  <2>1. IsFiniteSet({"keys", "other"}) /\ Cardinality({"keys", "other"}) = 2
    <3>1. IsFiniteSet({"keys"}) /\ Cardinality({"keys"}) = 1
      BY FS_Singleton
    <3>2. {"keys"} \cup {"other"} = {"keys", "other"} /\ "other" \notin {"keys"}
      OBVIOUS
    <3> QED BY <3>1, <3>2, FS_AddElement
  <2>2. Cardinality(handles) <= 2 /\ IsFiniteSet(handles)
    <3>1. handles \in SUBSET {"keys", "other"}
      BY DEF MasterInv
    <3> QED BY <2>1, <3>1, FS_Subset, Zenon
  <2>3. Cardinality(handles) \in Nat
    BY <2>2, FS_CardinalityType
  <2> QED BY <2>2, <2>3 DEF HandleInv, HandlesAreOpen
<1> QED BY <1>2, <1>3, <1>4, <1>5 DEF UseInv, MasterInv, TypeOK

\* The state is well formed in every run of a wallet that is encrypted at most
\* once: files name only keys and master keys that were made, the key store is
\* locked only if it is encrypted, and at most two handles are counted.
THEOREM TypeCorrect == ASSUME MaxMasterKeys <= 1 PROVE Spec => []TypeOK
<1> DEFINE I == KeyInv /\ PoolInv /\ UseInv /\ HandleInv /\ MasterInv
<1>1. Init => I
  <2> SUFFICES ASSUME Init PROVE I
    OBVIOUS
  <2>1. HandleInv
    BY FS_EmptySet DEF Init, HandleInv, HandlesAreOpen, Writing
  <2>2. EmptyFile.ckey = {} /\ EmptyFile.mkey = 0
    BY DEF EmptyFile
  <2>3. MasterInv
    <3>1. /\ dat = EmptyFile /\ rewrite = EmptyFile /\ txn = NULL /\ nMasterKey = 0
          /\ pc = "down" /\ handles = {} /\ made.master = 0
      BY DEF Init
    <3>2. fUseCrypto \in BOOLEAN /\ locked \in BOOLEAN /\ mapDb \in BOOLEAN /\ ~fUseCrypto /\ ~locked
      BY Zenon DEF Init
    <3>3. 0 \in 0..MaxMasterKeys
      BY WalletFileAssumption
    <3> QED BY <2>2, <3>1, <3>2, <3>3 DEF MasterInv, Sealed, Places, Writing, Encrypting
  <2>4. UseInv
    BY DEF Init, UseInv
  <2> QED BY <2>1, <2>3, <2>4, InitKeys, InitPool
<1>2. I /\ [Next]_vars => I'
  BY NextPool, NextUses, NextHandles, NextMaster
<1>3. I => TypeOK
  BY InvariantsImplyTypes
<1> QED BY <1>1, <1>2, <1>3, PTL DEF Spec

-----------------------------------------------------------------------------
(* The backup.                                                             *)

\* The pool in memory is the one in the file, but for a reserved key and while
\* records are erased.
SyncInv ==
    /\ pc \notin {"down", "erase", "reserved", "rename", "nofile"} => setKeyPool = DOMAIN dat.pool
    /\ pc = "erase" => DOMAIN dat.pool \subseteq setKeyPool
    /\ pc = "reserved" =>
         /\ setKeyPool = DOMAIN dat.pool \ {reserved.index}
         /\ \A n \in setKeyPool : reserved.index <= n
    /\ pc \in {"rename", "nofile"} => setKeyPool = DOMAIN rewrite.pool

\* The indexes whose keys the backup has.
Covered == {n \in DOMAIN Current.pool : Current.pool[n] \in backup.keys}

\* The backup has the oldest keys of the pool, and as many as are promised; it is
\* worth nothing once wallet.dat is not there and a new wallet is made.
BackupInv ==
    backup # NULL =>
        /\ backup = [keys |-> backup.keys, next |-> backup.next] /\ backup.next \in Nat
        /\ backup.keys \subseteq 1..made.keys
        /\ pc \in {"pool", "newrecord"} => newkey \notin backup.keys
        /\ pc \in {"newpool", "newrecord"} => backup.next = 0
        /\ backup.next # 0 /\ (pc = "down" => dat # EmptyFile) =>
             /\ Cardinality(Covered) >= backup.next
             /\ \A n \in Covered, m \in DOMAIN Current.pool \ Covered : n < m

\* The oldest key is reserved, and it has a record.
LEMMA ReservesOldest ==
    ASSUME KeyInv, PoolInv, ReserveKeyFromKeyPool
    PROVE  /\ pc' = "reserved" /\ reserved'.index = OldestKey /\ OldestKey \in setKeyPool
           /\ \A n \in setKeyPool : OldestKey <= n
           /\ setKeyPool' = setKeyPool \ {OldestKey}
<1>1. pc \in {"topup", "idle"} /\ setKeyPool # {} /\ setKeyPool \subseteq DOMAIN dat.pool
  BY DEF ReserveKeyFromKeyPool, PoolInv
<1>2. setKeyPool \subseteq Nat
  BY PoolNumbers, Zenon
<1>3. OldestKey \in setKeyPool /\ \A n \in setKeyPool : OldestKey <= n
  BY <1>1, <1>2, MinIs DEF OldestKey
<1>4. Usable(OldestKey)
  BY <1>1, <1>3 DEF Usable, KeyInv, Current, PoolInv, PoolOf, Range
<1> QED BY <1>3, <1>4 DEF ReserveKeyFromKeyPool

\* Every step keeps the two pools together.
LEMMA NextSync == ASSUME KeyInv, PoolInv, SyncInv, [Next]_vars PROVE SyncInv'
<1> USE DEF store, bdb
<1>1. CASE OtherOpens \/ OtherCloses \/ ThreadFlushWalletDB \/ Lock \/ Unlock \/ BackupWallet
           \/ GetDefaultKey
  BY <1>1, Zenon DEF OtherOpens, OtherCloses, ThreadFlushWalletDB, Lock, Unlock, BackupWallet,
                     GetDefaultKey, SyncInv
<1>2. CASE TopUpKeyPool \/ TopUpEnds \/ NewKeyPool \/ NewPoolEnds \/ EncryptWallet \/ HandOut
  BY <1>2 DEF TopUpKeyPool, TopUpEnds, NewKeyPool, NewPoolEnds, EncryptWallet, HandOut, SyncInv
<1>3. CASE TopUpMakesKey \/ NewPoolMakesKey
  BY <1>3, MakesKeyPool DEF TopUpMakesKey, NewPoolMakesKey, SyncInv
<1>4. CASE TopUpWritesPool \/ NewPoolWritesPool
  <2>1. PICK n : WritePool(n)
    BY <1>4 DEF TopUpWritesPool, NewPoolWritesPool
  <2>2. dat'.pool = With(dat.pool, n, newkey)
    BY <2>1, PoolRecord DEF KeyInv, WritePool
  <2>3. DOMAIN dat'.pool = DOMAIN dat.pool \cup {n}
    BY <2>2 DEF With
  <2> QED BY <1>4, <2>1, <2>3 DEF TopUpWritesPool, NewPoolWritesPool, WritePool, SyncInv
<1>5. CASE KeepKey \/ ErasePool
  <2>1. PICK n : dat' = [dat EXCEPT !.pool = Without(dat.pool, n)] /\ (KeepKey => n = reserved.index)
    BY <1>5 DEF KeepKey, ErasePool
  <2>2. dat'.pool = Without(dat.pool, n)
    BY <2>1, PoolRecord DEF KeyInv
  <2>3. DOMAIN dat'.pool = DOMAIN dat.pool \ {n}
    BY <2>2 DEF Without, Restrict
  <2> QED BY <1>5, <2>1, <2>3 DEF KeepKey, ErasePool, SyncInv
<1>6. CASE ReserveKeyFromKeyPool
  <2>1. pc \in {"topup", "idle"} /\ UNCHANGED dat
    BY <1>6 DEF ReserveKeyFromKeyPool
  <2> QED BY <1>6, <2>1, ReservesOldest DEF SyncInv
<1>7. CASE ReturnKey \/ CreateNewBlock
  BY <1>7 DEF ReturnKey, CreateNewBlock, SyncInv, PoolInv
<1>8. CASE EncryptCommits
  BY <1>8, SMTT(30) DEF EncryptCommits, SyncInv, PoolInv
<1>9. CASE ForgetPool
  BY <1>9, Zenon DEF ForgetPool, SyncInv
<1>10. CASE RewriteCopies \/ RewriteRemoves \/ RewriteRenames
  BY <1>10 DEF RewriteCopies, RewriteRemoves, RewriteRenames, SyncInv, PoolInv, SamePool
<1>11. CASE Stop \/ LoadWallet
  BY <1>11 DEF Stop, LoadWallet, SyncInv
<1>12. CASE UNCHANGED vars
  BY <1>12 DEF vars, SyncInv
<1> QED BY <1>1, <1>2, <1>3, <1>4, <1>5, <1>6, <1>7, <1>8, <1>9, <1>10, <1>11, <1>12,
           SMTT(30) DEF Next

\* Steps that neither change the pool in the file nor hand out a key, and those
\* that end the process when there is no file.
LEMMA QuietBackupKeeps ==
    ASSUME BackupInv, UNCHANGED backup,
           \/ SamePool(Current.pool, Current'.pool)
              /\ (pc = "down" /\ dat = EmptyFile => pc' = "down" /\ dat' = EmptyFile)
           \/ pc' = "down" /\ dat' = EmptyFile,
           made.keys \in Nat, made'.keys \in Nat, made.keys <= made'.keys,
           pc' \in {"pool", "newrecord"} =>
               newkey' = made.keys + 1 \/ (pc \in {"pool", "newrecord"} /\ newkey' = newkey),
           pc' \in {"newpool", "newrecord"} => pc \in {"newpool", "newrecord"}
    PROVE  BackupInv'
<1> SUFFICES ASSUME backup # NULL PROVE BackupInv'
  BY DEF BackupInv
<1>1. backup.keys \subseteq 1..made'.keys
  BY DEF BackupInv
<1>2. pc' \in {"pool", "newrecord"} => newkey' \notin backup.keys
  BY DEF BackupInv
<1>3. pc' \in {"newpool", "newrecord"} => backup.next = 0
  BY DEF BackupInv
<1>4. CASE pc' = "down" /\ dat' = EmptyFile
  BY <1>1, <1>2, <1>3, <1>4 DEF BackupInv
<1>5. CASE SamePool(Current.pool, Current'.pool)
           /\ (pc = "down" /\ dat = EmptyFile => pc' = "down" /\ dat' = EmptyFile)
  <2>1. Covered' = Covered /\ DOMAIN Current'.pool = DOMAIN Current.pool
    BY <1>5 DEF Covered, SamePool
  <2> QED BY <1>1, <1>2, <1>3, <1>5, <2>1 DEF BackupInv
<1> QED BY <1>4, <1>5

\* The indexes of the pool are finitely many.
LEMMA CoveredFinite == ASSUME PoolInv PROVE IsFiniteSet(Covered) /\ Cardinality(Covered) \in Nat
<1>1. Covered \in SUBSET (1..made.keys) /\ made.keys \in Nat
  BY DEF Covered, Current, PoolInv, PoolOf
<1>2. IsFiniteSet(1..made.keys)
  BY <1>1, FS_Interval
<1>3. IsFiniteSet(Covered)
  BY <1>1, <1>2, FS_Subset, Zenon
<1> QED BY <1>3, FS_CardinalityType

\* The argument: if the backup has keys of the pool at all, it has the oldest,
\* and that is the one reserved.
LEMMA ReservedIsCovered ==
    ASSUME PoolInv, SyncInv, BackupInv, pc = "reserved", backup # NULL, backup.next # 0
    PROVE  reserved.index \in Covered /\ reserved.key \in backup.keys
<1>0. Current = dat
  BY DEF Current
<1>1. Cardinality(Covered) # 0
  BY CoveredFinite DEF BackupInv
<1>2. PICK n \in Covered : TRUE
  BY <1>1, FS_EmptySet
<1>3. reserved.index \in DOMAIN dat.pool /\ reserved.key = dat.pool[reserved.index]
  BY DEF PoolInv
<1>4. n \in DOMAIN dat.pool /\ DOMAIN dat.pool \subseteq Nat
  BY <1>0, <1>2, PoolNumbers, Zenon DEF Covered
<1>5. reserved.index <= n
  BY <1>3, <1>4 DEF SyncInv
<1>6. reserved.index \in Covered
  BY <1>0, <1>3, <1>4, <1>5 DEF BackupInv
<1> QED BY <1>0, <1>3, <1>6 DEF Covered

\* A key handed out: one less in the pool, and one less to come.
LEMMA KeepKeyBackup ==
    ASSUME KeyInv, PoolInv, SyncInv, BackupInv, KeepKey, backup # NULL PROVE BackupInv'
<1> DEFINE i == reserved.index
           k == backup.keys
           x == backup.next
<1>1. /\ dat'.pool = Without(dat.pool, i) /\ UNCHANGED made /\ pc = "reserved" /\ pc' = "kept"
  BY PoolRecord DEF KeyInv, KeepKey
<1>0. Current = dat /\ Current' = dat'
  BY <1>1 DEF Current
<1>2. /\ DOMAIN dat'.pool = DOMAIN dat.pool \ {i}
      /\ \A n \in DOMAIN dat'.pool : dat'.pool[n] = dat.pool[n]
  BY <1>1 DEF Without, Restrict
<1>3. backup = [keys |-> k, next |-> x] /\ x \in Nat
  BY DEF BackupInv
<1>4. CASE x = 0
  <2>1. backup' = backup
    BY <1>4 DEF KeepKey
  <2> QED BY <1>1, <1>4, <2>1 DEF BackupInv
<1>5. CASE x # 0
  <2>0. backup' = [backup EXCEPT !.next = x - 1]
    BY <1>5 DEF KeepKey
  <2>1. i \in Covered
    BY <1>1, <1>5, ReservedIsCovered
  <2>2. Cardinality(Covered) >= x /\ \A n \in Covered, m \in DOMAIN dat.pool \ Covered : n < m
    BY <1>0, <1>1, <1>5 DEF BackupInv
  <2>3. k \subseteq 1..made.keys
    BY DEF BackupInv
  <2> HIDE DEF k, x
  <2>4. backup' = [keys |-> k, next |-> x - 1] /\ backup'.keys = k /\ backup'.next = x - 1
    BY <1>3, <2>0
  <2>5. Covered' = Covered \ {i}
    <3>1. backup.keys = k
      BY DEF k
    <3> QED BY <1>0, <1>2, <2>4, <3>1 DEF Covered
  <2>6. Cardinality(Covered \ {i}) = Cardinality(Covered) - 1
    BY <2>1, CoveredFinite, FS_RemoveElement
  <2>7. Cardinality(Covered') >= x - 1
    BY <1>3, <2>2, <2>5, <2>6, CoveredFinite
  <2>8. \A n \in Covered', m \in DOMAIN dat'.pool \ Covered' : n < m
    BY <1>2, <2>2, <2>5
  <2>9. x - 1 \in Nat /\ backup'.keys \subseteq 1..made'.keys
    BY <1>1, <1>3, <1>5, <2>3, <2>4
  <2> QED BY <1>0, <1>1, <2>4, <2>7, <2>8, <2>9 DEF BackupInv
<1> QED BY <1>4, <1>5

\* A record more, of a key the backup does not have, at the end of the pool.
LEMMA TopUpBackup ==
    ASSUME KeyInv, PoolInv, SyncInv, BackupInv, TopUpWritesPool PROVE BackupInv'
<1> DEFINE n == IF setKeyPool = {} THEN 1 ELSE Max(setKeyPool) + 1
<1> SUFFICES ASSUME backup # NULL PROVE BackupInv'
  BY DEF TopUpWritesPool, WritePool, BackupInv
<1>1. pc = "pool" /\ pc' = "topup" /\ WritePool(n) /\ UNCHANGED <<made, backup>>
  BY DEF TopUpWritesPool, WritePool
<1>0. Current = dat /\ Current' = dat'
  BY <1>1 DEF Current
<1>2. setKeyPool = DOMAIN dat.pool /\ newkey \notin backup.keys
  BY <1>1 DEF SyncInv, BackupInv
<1>3. \A m \in DOMAIN dat.pool : m < n
  <2>1. made.keys \in Nat /\ setKeyPool \subseteq 1..made.keys /\ setKeyPool \subseteq 0..made.keys
    BY DEF PoolInv
  <2>2. ASSUME NEW m \in setKeyPool PROVE m < n
    <3>1. Max(setKeyPool) \in setKeyPool /\ Max(setKeyPool) >= m
      BY <2>1, MaxIs, Zenon
    <3>2. n = Max(setKeyPool) + 1
      BY Zenon
    <3> HIDE DEF n
    <3>3. Max(setKeyPool) \in Nat /\ m \in Nat
      <4>1. setKeyPool \subseteq Nat
        BY <2>1
      <4> QED BY <3>1, <4>1, Zenon
    <3> QED BY <3>1, <3>2, <3>3
  <2> QED BY <1>2, <2>2
<1>4. n \in Nat
  <2>1. n \in 1..made.keys
    BY <1>1, NewIndex, Zenon
  <2> QED BY <2>1, PoolNumbers, Zenon
<1> HIDE DEF n
<1>5. dat'.pool = With(dat.pool, n, newkey)
  BY <1>1, PoolRecord DEF KeyInv, WritePool
<1>7. n \notin DOMAIN dat.pool
  BY <1>3, <1>4
<1>8. /\ DOMAIN dat'.pool = DOMAIN dat.pool \cup {n} /\ dat'.pool[n] = newkey
      /\ \A m \in DOMAIN dat.pool : dat'.pool[m] = dat.pool[m]
  BY <1>5, <1>7 DEF With
<1>9. Covered' = Covered
  <2>1. Covered' = {m \in DOMAIN dat'.pool : dat'.pool[m] \in backup.keys}
    BY <1>0, <1>1, Zenon DEF Covered
  <2>2. Covered = {m \in DOMAIN dat.pool : dat.pool[m] \in backup.keys}
    BY <1>0, Zenon DEF Covered
  <2> QED BY <1>2, <1>8, <2>1, <2>2, Zenon
<1>10. ASSUME NEW a \in Covered, NEW m \in DOMAIN dat'.pool \ Covered, backup.next # 0 PROVE a < m
  <2>1. CASE m = n
    BY <1>0, <1>3, <2>1 DEF Covered
  <2>2. CASE m \in DOMAIN dat.pool
    BY <1>0, <1>1, <1>10, <2>2 DEF BackupInv
  <2> QED BY <1>8, <2>1, <2>2
<1> QED BY <1>0, <1>1, <1>9, <1>10 DEF BackupInv

\* When nothing more is promised it does not matter what becomes of the file.
LEMMA NothingPromised ==
    ASSUME BackupInv, made'.keys = made.keys, pc' \notin {"pool", "newrecord"},
           backup # NULL, backup' = [keys |-> backup.keys, next |-> 0]
    PROVE  BackupInv'
<1>1. backup'.keys = backup.keys /\ backup'.next = 0
  OBVIOUS
<1> QED BY <1>1 DEF BackupInv

\* The end of a pool that an encryption replaces.
LEMMA EncryptionBackup ==
    ASSUME PoolInv, SyncInv, BackupInv, ErasePool \/ ForgetPool \/ NewPoolWritesPool
    PROVE  BackupInv'
<1> SUFFICES ASSUME backup # NULL PROVE BackupInv'
  BY DEF ErasePool, ForgetPool, NewPoolWritesPool, WritePool, BackupInv
<1> DEFINE k == backup.keys
           x == backup.next
<1>1. backup = [keys |-> k, next |-> x]
  BY DEF BackupInv
<1>2. made' = made /\ pc' \notin {"pool", "newrecord"}
  BY DEF ErasePool, ForgetPool, NewPoolWritesPool, WritePool
<1>3. CASE ErasePool
  <2>1. backup' = [backup EXCEPT !.next = 0]
    BY <1>3 DEF ErasePool
  <2> HIDE DEF k, x
  <2>2. backup' = [keys |-> k, next |-> 0]
    BY <1>1, <2>1
  <2> QED BY <1>2, <2>2, NothingPromised DEF k
<1>4. ASSUME x = 0, backup' = backup PROVE BackupInv'
  BY <1>1, <1>2, <1>4, NothingPromised
<1>5. CASE ForgetPool
  <2>1. DOMAIN dat.pool = {}
    BY <1>5 DEF ForgetPool, SyncInv
  <2>2. Covered = {}
    BY <1>5, <2>1 DEF Covered, Current, ForgetPool
  <2>3. Cardinality(Covered) = 0
    BY <2>2, FS_EmptySet
  <2>4. x = 0
    BY <1>5, <2>3 DEF BackupInv, ForgetPool
  <2> QED BY <1>4, <1>5, <2>4 DEF ForgetPool
<1>6. CASE NewPoolWritesPool
  <2>1. pc = "newrecord" /\ backup' = backup
    BY <1>6 DEF NewPoolWritesPool, WritePool
  <2> QED BY <1>4, <2>1 DEF BackupInv
<1> QED BY <1>3, <1>5, <1>6

\* The copy that takes the place of the file has its pool.
LEMMA RewriteBackup ==
    ASSUME KeyInv, PoolInv, BackupInv, RewriteCopies \/ RewriteRemoves \/ RewriteRenames
    PROVE  BackupInv'
<1>1. UNCHANGED <<made, backup>> /\ made.keys \in Nat
      /\ pc \in {"rewrite", "remove", "rename"} /\ pc' \in {"remove", "rename", "idle", "nofile"}
  BY DEF RewriteCopies, RewriteRemoves, RewriteRenames, PoolInv
<1>2. SamePool(Current.pool, Current'.pool)
  <2>1. CASE RewriteCopies
    BY <2>1 DEF RewriteCopies, Current, SamePool
  <2>2. CASE RewriteRemoves
    BY <2>2 DEF RewriteRemoves, Current, SamePool, PoolInv
  <2>3. CASE RewriteRenames
    BY <2>3 DEF RewriteRenames, Current, SamePool
  <2> QED BY <2>1, <2>2, <2>3
<1> QED BY <1>1, <1>2, QuietBackupKeeps

\* A backup has all the keys of the pool.  It is not made between the two records
\* of a new key, nor while a new pool is: a handle is open then.
LEMMA BackupWalletMakes == ASSUME KeyInv, PoolInv, HandleInv, BackupWallet PROVE BackupInv'
<1>0. pc \notin Writing /\ Current = dat /\ Current' = dat' /\ pc # "down"
  <2>1. mapFileUseCount = 0
    BY DEF BackupWallet, Unused
  <2>2. handles = {}
    BY <2>1, FS_EmptySet, Zenon DEF HandleInv, HandlesAreOpen
  <2> QED BY <2>2 DEF BackupWallet, Unused, CsDbFree, HandleInv, Current
<1> DEFINE k == Readable(dat)
           x == Cardinality(DOMAIN dat.pool)
<1>1. k = KeysOf(dat)
  BY WholeIsReadable DEF KeyInv
<1>2. backup' = [keys |-> k, next |-> x] /\ UNCHANGED <<dat, made, pc>>
  BY DEF BackupWallet
<1>3. k \subseteq 1..made.keys
  BY <1>1 DEF PoolInv, PoolOf
<1>4. \A n \in DOMAIN dat.pool : dat.pool[n] \in k
  BY <1>1 DEF PoolInv, PoolOf, Range
<1>5. DOMAIN dat.pool \in SUBSET (1..made.keys) /\ made.keys \in Nat
  BY DEF PoolInv, PoolOf
<1>6. x \in Nat
  <2>1. IsFiniteSet(1..made.keys)
    BY <1>5, FS_Interval
  <2>2. IsFiniteSet(DOMAIN dat.pool)
    BY <1>5, <2>1, FS_Subset
  <2> QED BY <2>2, FS_CardinalityType
<1> HIDE DEF k
<1>7. DOMAIN dat.pool = Covered'
  BY <1>0, <1>2, <1>4 DEF Covered
<1>8. Cardinality(Covered') = x
  BY <1>7
<1> HIDE DEF x
<1> QED BY <1>0, <1>2, <1>3, <1>6, <1>7, <1>8 DEF BackupInv, Writing

\* Every step keeps the invariant of the backup.
LEMMA NextBackup ==
    ASSUME KeyInv, PoolInv, SyncInv, HandleInv, BackupInv, [Next]_vars PROVE BackupInv'
<1> USE DEF store, bdb
<1>0. made.keys \in Nat
  BY DEF PoolInv
<1>1. CASE OtherOpens \/ OtherCloses \/ ThreadFlushWalletDB \/ Lock \/ Unlock \/ GetDefaultKey
           \/ UNCHANGED vars
  <2>1. UNCHANGED <<dat, rewrite, made, pc, newkey, backup>>
    BY <1>1 DEF OtherOpens, OtherCloses, ThreadFlushWalletDB, Lock, Unlock, GetDefaultKey, vars
  <2>2. SamePool(Current.pool, Current'.pool)
    BY <2>1 DEF Current, SamePool
  <2> QED BY <1>0, <2>1, <2>2, QuietBackupKeeps
<1>2. CASE TopUpKeyPool \/ TopUpEnds \/ ReserveKeyFromKeyPool \/ HandOut \/ ReturnKey
           \/ CreateNewBlock \/ NewKeyPool \/ NewPoolEnds \/ EncryptWallet
  <2>1. UNCHANGED <<dat, made, backup>> /\ pc \notin {"down", "rename", "nofile"}
        /\ pc' \in {"topup", "idle", "reserved", "erase", "rewrite", "commit"}
    BY <1>2 DEF TopUpKeyPool, TopUpEnds, ReserveKeyFromKeyPool, HandOut, ReturnKey, CreateNewBlock,
                NewKeyPool, NewPoolEnds, EncryptWallet
  <2>2. SamePool(Current.pool, Current'.pool)
    BY <2>1 DEF Current, SamePool
  <2> QED BY <1>0, <2>1, <2>2, QuietBackupKeeps
<1>3. CASE TopUpMakesKey \/ NewPoolMakesKey
  <2>1. GenerateNewKey(made.keys + 1) /\ (pc' = "newrecord" => pc = "newpool")
        /\ pc' \in {"pool", "newrecord"} /\ pc \in {"topup", "newpool"}
    BY <1>3 DEF TopUpMakesKey, NewPoolMakesKey
  <2>2. /\ dat'.pool = dat.pool /\ backup' = backup
        /\ made'.keys = made.keys + 1 /\ newkey' = made.keys + 1
    BY <2>1, MakesKeyPool
  <2>3. made'.keys \in Nat /\ made.keys <= made'.keys
    BY <1>0, <2>2
  <2>4. SamePool(Current.pool, Current'.pool)
    BY <2>1, <2>2 DEF Current, SamePool
  <2> QED BY <1>0, <2>1, <2>2, <2>3, <2>4, QuietBackupKeeps
<1>4. CASE TopUpWritesPool
  BY <1>4, TopUpBackup
<1>5. CASE KeepKey
  <2>1. CASE backup = NULL
    BY <1>5, <2>1 DEF KeepKey, BackupInv
  <2> QED BY <1>5, <2>1, KeepKeyBackup
<1>6. CASE EncryptCommits
  <2>1. dat'.pool = dat.pool /\ UNCHANGED backup /\ made'.keys = made.keys
        /\ pc = "commit" /\ pc' = "committed"
    BY <1>6, CountsCommit DEF EncryptCommits, PoolInv
  <2>2. SamePool(Current.pool, Current'.pool)
    BY <2>1 DEF Current, SamePool
  <2> QED BY <1>0, <2>1, <2>2, QuietBackupKeeps
<1>7. CASE ErasePool \/ ForgetPool \/ NewPoolWritesPool
  BY <1>7, EncryptionBackup
<1>8. CASE RewriteCopies \/ RewriteRemoves \/ RewriteRenames
  BY <1>8, RewriteBackup
<1>9. CASE Stop
  <2>1. UNCHANGED <<dat, made, backup>> /\ pc # "down" /\ pc' = "down"
    BY <1>9 DEF Stop
  <2>2. CASE pc \in {"rename", "nofile"}
    <3>1. dat' = EmptyFile
      BY <2>1, <2>2 DEF KeyInv
    <3> QED BY <1>0, <2>1, <3>1, QuietBackupKeeps
  <2>3. CASE pc \notin {"rename", "nofile"}
    <3>1. SamePool(Current.pool, Current'.pool)
      BY <2>1, <2>3 DEF Current, SamePool
    <3> QED BY <1>0, <2>1, <3>1, QuietBackupKeeps
  <2> QED BY <2>2, <2>3
<1>10. CASE LoadWallet
  <2>1. /\ UNCHANGED <<dat, made>> /\ pc = "down" /\ pc' = "idle"
        /\ IF dat = EmptyFile THEN backup' = NULL ELSE backup' = backup
    BY <1>10 DEF LoadWallet
  <2>2. CASE dat = EmptyFile
    BY <2>1, <2>2 DEF BackupInv
  <2>3. CASE dat # EmptyFile
    <3>1. SamePool(Current.pool, Current'.pool)
      BY <2>1 DEF Current, SamePool
    <3> QED BY <1>0, <2>1, <2>3, <3>1, QuietBackupKeeps
  <2> QED BY <2>2, <2>3
<1>11. CASE BackupWallet
  BY <1>11, BackupWalletMakes
<1> QED BY <1>1, <1>2, <1>3, <1>4, <1>5, <1>6, <1>7, <1>8, <1>9, <1>10, <1>11,
           SMTT(30) DEF Next

\* As many keys as the pool had when the wallet was backed up are handed out
\* before the first one that the backup does not have, whatever is topped up,
\* reserved and returned, and wherever the process stops in between.  This is
\* what "keypool" promises of a backup, for every size of the pool, in a wallet
\* that is encrypted at most once.
THEOREM BackupCoversPoolHolds == ASSUME MaxMasterKeys <= 1 PROVE Spec => BackupCoversPool
<1> DEFINE I == KeyInv /\ PoolInv /\ SyncInv /\ HandleInv /\ BackupInv
           A == KeepKey /\ backup # NULL => (backup.next > 0 => reserved.key \in backup.keys)
<1>1. Init => I
  <2>1. Init => SyncInv /\ BackupInv
    BY DEF Init, SyncInv, BackupInv
  <2>2. Init => HandleInv
    BY FS_EmptySet DEF Init, HandleInv, HandlesAreOpen, Writing
  <2> QED BY <2>1, <2>2, InitKeys, InitPool
<1>2. I /\ [Next]_vars => I'
  BY NextPool, NextSync, NextHandles, NextBackup
<1>3. I => A
  BY ReservedIsCovered DEF KeepKey
<1>4. I /\ [Next]_vars => [A]_vars
  BY <1>3
<1>5. Spec => []I /\ [][Next]_vars
  BY <1>1, <1>2, PTL DEF Spec
<1>6. []I /\ [][Next]_vars => [][A]_vars
  BY <1>4, PTL
<1> QED BY <1>5, <1>6 DEF BackupCoversPool

=============================================================================
