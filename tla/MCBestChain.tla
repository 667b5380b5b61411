----------------------------- MODULE MCBestChain -----------------------------
(***************************************************************************)
(*           E3 - E4                                                       *)
(*          /                                                              *)
(* G - P - A2 - A3                                                         *)
(*      \                                                                  *)
(*       B2 - B3 - B4                                                      *)
(*              \                                                          *)
(*               D4                                                        *)
(* t and u spend the same output of P; v spends t, w spends v.  A2 holds   *)
(* t, A3 holds v, B3 holds u, E3 holds v and w.  D4 holds t, a double      *)
(* spend of what B3 spends; E4 spends its own coinbase.                    *)
(***************************************************************************)
EXTENDS ChainRefinement

Prev == [b \in Block |->
    CASE b = "P" -> "G" [] b \in {"A2", "B2"} -> "P" [] b \in {"A3", "E3"} -> "A2"
      [] b = "B3" -> "B2" [] b \in {"B4", "D4"} -> "B3" [] b = "E4" -> "E3" [] OTHER -> NULL]

Height == [b \in Block |->
    CASE b = "G" -> 0 [] b = "P" -> 1 [] b \in {"A2", "B2"} -> 2
      [] b \in {"A3", "B3", "E3"} -> 3 [] OTHER -> 4]

\* A2, B3 and B4 are proof-of-stake blocks, which weigh more than the others.
Weighted == [b \in Block |->
    CASE b = "A2" -> 4 [] b \in {"A3", "E3"} -> 5 [] b = "E4" -> 6 [] b = "B4" -> 7
      [] b = "D4" -> 6 [] b = "B3" -> 4 [] OTHER -> Height[b]]

Contents == [b \in Block |->
    CASE b = "G" -> <<>> [] b = "P" -> <<"cP">>
      [] b = "A2" -> <<"cA2", "t">> [] b = "A3" -> <<"cA3", "v">>
      [] b = "B2" -> <<"cB2">> [] b = "B3" -> <<"cB3", "u">>
      [] b = "B4" -> <<"cB4">> [] b = "D4" -> <<"cD4", "t">>
      [] b = "E3" -> <<"cE3", "v", "w">> [] b = "E4" -> <<"cE4", "x">>]

Loose == {"t", "u", "v", "w", "x"}

CoinBases == {"cP", "cA2", "cA3", "cB2", "cB3", "cB4", "cD4", "cE3", "cE4"}

Txs == CoinBases \cup Loose

Inputs == [x \in Txs |->
    CASE x \in {"t", "u"} -> {<<"cP", 1>>} [] x = "v" -> {<<"t", 1>>} [] x = "w" -> {<<"v", 1>>}
      [] x = "x" -> {<<"cE4", 1>>} [] OTHER -> {}]

Outputs == [x \in Txs |-> 1]
=============================================================================
