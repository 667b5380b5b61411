------------------------------- MODULE MCTxDB -------------------------------
(* Two handles, two keys, one value besides NotFound, batches of three writes. *)
EXTENDS TxDB

Symmetric == Permutations(Handle) \cup Permutations(Key)
=============================================================================
