------------------------------ MODULE MCOrphanTx ------------------------------
(***************************************************************************)
(* The coins c have three outputs.  p and q spend one each; o spends an    *)
(* output of p and one of q; r spends the same output of p as o does; s    *)
(* spends an output of o, and t one of s and the third one of c.           *)
(***************************************************************************)
EXTENDS OrphanTx

Inputs == [x \in Tx |->
    CASE x = "c" -> {}
      [] x = "p" -> {<<"c", 1>>}
      [] x = "q" -> {<<"c", 2>>}
      [] x = "o" -> {<<"p", 1>>, <<"q", 1>>}
      [] x = "r" -> {<<"p", 1>>}
      [] x = "s" -> {<<"o", 1>>}
      [] x = "t" -> {<<"s", 1>>, <<"c", 3>>}]

Outputs == [x \in Tx |-> IF x = "c" THEN 3 ELSE 1]

\* No block matters here.
NoParent == [b \in Block |-> NULL]
Zero == [b \in Block |-> 0]
NoTx == [b \in Block |-> <<>>]
=============================================================================
