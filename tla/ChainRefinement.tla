--------------------------- MODULE ChainRefinement ---------------------------
(***************************************************************************)
(* BestChain implements ChainSelection, the chain on disk being the best   *)
(* chain of the abstract specification.                                    *)
(***************************************************************************)
EXTENDS BestChain

Selection == INSTANCE ChainSelection WITH best <- pdb.hashBestChain

\* What SetBestChain commits, block by block and batch by batch, is a sequence
\* of valid chains of ever greater trust.
ImplementsChainSelection == Selection!Spec
=============================================================================
