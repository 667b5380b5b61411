--------------------------- MODULE ChainSelection ---------------------------
(***************************************************************************)
(* What the choice of a best chain promises: the chain on disk is valid    *)
(* and only ever gives way to a valid chain with more trust.               *)
(***************************************************************************)
EXTENDS Ledger

VARIABLE best

Init == best = Genesis

Adopt(b) ==
    /\ ChainValid(b)
    /\ nChainTrust[b] > nChainTrust[best]
    /\ best' = b

Next == \E b \in Block : Adopt(b)

Spec == Init /\ [][Next]_best
=============================================================================
