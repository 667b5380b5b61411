------------------------------- MODULE MemPool -------------------------------
(***************************************************************************)
(* CTxMemPool (main.h, main.cpp): mapTx, the loose transactions, and       *)
(* mapNextTx, which tells for every outpoint the loose transaction that    *)
(* spends it.  Operators on a pool; BestChain holds the pool.              *)
(***************************************************************************)
EXTENDS Ledger

CONSTANT Relayable      \* transactions that pass CheckTransaction, IsStandard and the fee rules

ASSUME RelayableAssumption == Relayable \subseteq Tx \ Generated

Pool == [mapTx : SUBSET Tx, mapNextTx : SUBSET (OutPoint \X Tx)]

EmptyPool == [mapTx |-> {}, mapNextTx |-> {}]

\* The loose transaction mapNextTx knows to spend o, if any.
SpenderOf(pool, o) == {e[2] : e \in {f \in pool.mapNextTx : f[1] = o}}

addUnchecked(pool, t) ==
    [mapTx     |-> pool.mapTx \cup {t},
     mapNextTx |-> {e \in pool.mapNextTx : e[1] \notin vin[t]} \cup (vin[t] \X {t})]

\* mapTx and mapNextTx without the transactions of S.
Erase(pool, S) ==
    [mapTx     |-> pool.mapTx \ S,
     mapNextTx |-> {e \in pool.mapNextTx : \A t \in S : e[1] \notin vin[t]}]

\* The transactions a recursive remove of t takes out: t and, through
\* mapNextTx, all that spend an output of one of them.
Dependents(pool, t) ==
    {u \in pool.mapTx :
        \A S \in SUBSET pool.mapTx :
            t \in S /\ (\A e \in pool.mapNextTx : e[1][1] \in S => e[2] \in S) => u \in S}

\* A remove that does not release the outputs the transaction spent.
removeKeepsSpends(pool, t) == [pool EXCEPT !.mapTx = @ \ {t}]

remove(pool, t) == IF t \in pool.mapTx THEN Erase(pool, {t}) ELSE pool

Conflicts(pool, t) == (UNION {SpenderOf(pool, o) : o \in vin[t]}) \ {t}

\* removeConflicts that takes the conflicting transaction for the one at hand.
removeConflictsNone(pool, t) == pool

removeConflicts(pool, t) == Erase(pool, UNION {Dependents(pool, c) : c \in Conflicts(pool, t)})

\* The part of accept that looks only at the pool; replacement is disabled.
NoConflictInPool(pool, t) ==
    /\ t \in Relayable
    /\ t \notin pool.mapTx
    /\ \A o \in vin[t] : SpenderOf(pool, o) = {}

\* accept with fCheckInputs = false: nothing is asked of the inputs.
acceptUnchecked(pool, t) == IF NoConflictInPool(pool, t) THEN addUnchecked(pool, t) ELSE pool

\* ConnectInputs' walk back from pindexBlock: the coins of a generated
\* transaction at pos are still young in a block on top of, or at, tip.
ImmatureOffByOne(tip, pos) == pos \in Ancestors[tip] /\ nHeight[tip] - nHeight[pos] <= nCoinbaseMaturity

Immature(tip, pos) == pos \in Ancestors[tip] /\ nHeight[tip] - nHeight[pos] < nCoinbaseMaturity

\* accept with fCheckInputs = true, against the transaction index and the tip.
\* An input is an output of an indexed transaction, unspent and mature, or of
\* another loose one.
MayAccept(pool, t, txindex, tip) ==
    /\ NoConflictInPool(pool, t)
    /\ txindex[t] = NULL
    /\ \A o \in vin[t] :
         /\ o[2] \in 1..nOut[o[1]]
         /\ IF txindex[o[1]] = NULL
              THEN o[1] \in pool.mapTx
              ELSE /\ txindex[o[1]].vSpent[o[2]] = NULL
                   /\ o[1] \in Generated => ~Immature(tip, txindex[o[1]].pos)

\* The end of Reorganize: resurrect what the disconnected branch held, then
\* drop what the connected branch holds and what conflicts with it.
Resurrect(pool, txs) == InOrder(acceptUnchecked, pool, txs)

\* A SetBestChainInner that forgets the loose copies.
RemoveConnectedNone(pool, txs) == pool

RemoveConnected(pool, txs) == InOrder(remove, pool, txs)

RemoveConnectedAndConflicts(pool, txs) ==
    InOrder(LAMBDA p, t : removeConflicts(remove(p, t), t), pool, txs)
=============================================================================
