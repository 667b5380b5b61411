---------------------------- MODULE MCChainSync ----------------------------
(***************************************************************************)
(* G - 1 - 2 - 3 - 4                                                       *)
(*  \                                                                      *)
(*   b                                                                     *)
(* Node x connects to y, which is ahead and may make block 4.              *)
(***************************************************************************)
EXTENDS ChainSync

Prev == [b \in Block |-> CASE b \in {"1", "b"} -> "G" [] b = "2" -> "1" [] b = "3" -> "2"
                           [] b = "4" -> "3" [] OTHER -> NULL]

Height == [b \in Block |-> CASE b \in {"1", "b"} -> 1 [] b = "2" -> 2 [] b = "3" -> 3
                             [] b = "4" -> 4 [] OTHER -> 0]

Pair == {<<"x", "y">>}
Start == [n \in Node |-> IF n = "x" THEN {"G", "b"} ELSE {"G", "1", "2", "3"}]
=============================================================================
