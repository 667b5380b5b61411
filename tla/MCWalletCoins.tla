---------------------------- MODULE MCWalletCoins ----------------------------
(***************************************************************************)
(* G - P - A2                                                              *)
(*      \                                                                  *)
(*       B2 - B3                                                           *)
(* The wallet owns both outputs of cP.  s (in A2) and r (in B3) are its    *)
(* coinstakes, made with the first one.  a spends the second one and       *)
(* leaves change, which b spends, and c too where it can be made.  Both    *)
(* branches hold a, in different blocks.                                   *)
(***************************************************************************)
EXTENDS WalletCoins

Prev == [b \in Block |->
    CASE b = "P" -> "G" [] b \in {"A2", "B2"} -> "P" [] b = "B3" -> "B2" [] OTHER -> NULL]

Height == [b \in Block |->
    CASE b = "G" -> 0 [] b = "P" -> 1 [] b \in {"A2", "B2"} -> 2 [] OTHER -> 3]

Trust == [b \in Block |-> IF b \in {"B2", "B3"} THEN Height[b] + 1 ELSE Height[b]]

Contents == [b \in Block |->
    CASE b = "P" -> <<"cP">> [] b = "A2" -> <<"s", "a">> [] b = "B2" -> <<"a">>
      [] b = "B3" -> <<"r">> [] OTHER -> <<>>]

Order == <<"cP", "s", "r", "a", "b", "c">>
Txs == Range(Order)

Inputs == [t \in Txs |->
    CASE t \in {"s", "r"} -> {<<"cP", 1>>} [] t = "a" -> {<<"cP", 2>>}
      [] t \in {"b", "c"} -> {<<"a", 1>>} [] OTHER -> {}]

Outputs == [t \in Txs |-> IF t \in {"b", "c"} THEN 1 ELSE 2]

Keys == {<<"cP", 1>>, <<"cP", 2>>, <<"s", 2>>, <<"r", 2>>, <<"a", 1>>}

\* Two states that differ only in what no later step reads are one: the locals
\* of SetBestChain once it has returned, what a crash has wiped, and the
\* warning about invalid chains.
Live == <<pdb, batch, pc, mapWallet, bestblock, walletState, told, stale, backup, postponedFailed,
          IF pc = "down" THEN <<>> ELSE <<mapBlockIndex, pnext, pindexBest, mempool>>,
          IF pc \in {"idle", "down"} THEN <<>>
          ELSE IF pc = "SetBestChain" THEN <<pindexNew>> ELSE <<control>>>>

\* Runs are not followed beyond a failure that leaves memory and disk apart
\* for good, nor with a copy of a wallet that was already wrong.
Followed == ~postponedFailed /\ (backup # NULL => "block" \notin backup.stale)
=============================================================================
