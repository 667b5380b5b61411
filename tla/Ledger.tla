------------------------------- MODULE Ledger -------------------------------
(***************************************************************************)
(* The contents of the blocks: transactions that spend outputs of earlier  *)
(* ones.                                                                   *)
(*                                                                         *)
(* A transaction is identified with its hash.  What ConnectBlock and       *)
(* CheckBlock decide from the block's contents alone or from amounts,      *)
(* scripts and rewards is the set Rejected; what they decide from the      *)
(* state of the transaction index is computed by the modules that use this *)
(* one.  Outputs are numbered from 1.                                      *)
(***************************************************************************)
EXTENDS BlockTree, Sequences, Functions

CONSTANTS
    vtx,                \* block -> sequence of its transactions
    Tx,
    vin,                \* transaction -> set of outpoints <<transaction, n>>
    nOut,               \* transaction -> number of outputs
    CoinBase, CoinStake,\* the transactions that create coins
    Rejected,           \* blocks that fail a check on amounts, scripts or rewards
    nCoinbaseMaturity   \* blocks before the coins of a coinbase can be spent

ASSUME TransactionAssumption ==
    /\ NULL \notin Tx
    /\ vtx \in [Block -> Seq(Tx)]
    /\ vin \in [Tx -> SUBSET (Tx \X Nat)]
    /\ nOut \in [Tx -> Nat]
    /\ nCoinbaseMaturity \in Nat
    /\ CoinBase \subseteq Tx /\ CoinStake \subseteq Tx /\ Rejected \subseteq Block
    /\ \A t \in Tx : vin[t] = {} <=> t \in CoinBase
    \* CheckBlock: no transaction twice in a block
    /\ \A b \in Block : IsInjective(vtx[b])
    \* AcceptBlock: the coinbase starts with the height, so it is the block's own
    /\ \A t \in CoinBase, a, b \in Block :
         nHeight[a] # nHeight[b] => ~(t \in Range(vtx[a]) /\ t \in Range(vtx[b]))

-----------------------------------------------------------------------------
\* The transactions of those blocks of the chain of tip that are in S, in order.
TransactionsOf(S, tip) ==
    LET txs[b \in Ancestors[tip]] ==
            (IF b = Genesis THEN <<>> ELSE txs[hashPrevBlock[b]])
              \o (IF b \in S THEN vtx[b] ELSE <<>>)
    IN  txs[tip]

\* op applied to the transactions of txs one after the other.  SequencesExt has
\* such a fold too, but the provers are slow with all of it in sight.
InOrder(op(_, _), base, txs) ==
    LET after[n \in 0..Len(txs)] == IF n = 0 THEN base ELSE op(after[n - 1], txs[n])
    IN  after[Len(txs)]

OutPoint == UNION {vin[t] : t \in Tx}

-----------------------------------------------------------------------------
(* What it means for a chain to be valid, said without any index.          *)

\* A place <<b, i>> holds the i-th transaction of block b.  The coins of
\* Genesis are never indexed and cannot be spent.
Places(tip) == UNION {{b} \X DOMAIN vtx[b] : b \in Ancestors[tip] \ {Genesis}}

TxAt(p) == vtx[p[1]][p[2]]

Before(p, q) == nHeight[p[1]] < nHeight[q[1]] \/ (p[1] = q[1] /\ p[2] < q[2])

Generated == CoinBase \cup CoinStake

\* Every transaction is there once and spends mature outputs that an earlier
\* one of the chain created and that no other one spends.
ChainValid(tip) ==
    /\ (Ancestors[tip] \ {Genesis}) \cap Rejected = {}
    /\ \A p, q \in Places(tip) : TxAt(p) = TxAt(q) => p = q
    /\ \A q \in Places(tip) : \A o \in vin[TxAt(q)] :
         /\ o[2] \in 1..nOut[o[1]]
         /\ \E p \in Places(tip) :
              /\ TxAt(p) = o[1] /\ Before(p, q)
              /\ o[1] \in Generated => nHeight[q[1]] - nHeight[p[1]] >= nCoinbaseMaturity
         /\ \A r \in Places(tip) \ {q} : o \notin vin[TxAt(r)]
=============================================================================
