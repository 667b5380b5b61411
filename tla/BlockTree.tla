------------------------------ MODULE BlockTree ------------------------------
(***************************************************************************)
(* The block tree (main.h: CBlockIndex): blocks that name their parent,    *)
(* with height and accumulated trust.  A block is identified with its      *)
(* hash; the tree never changes, only the part of it the node knows does.  *)
(***************************************************************************)
EXTENDS Naturals

CONSTANTS
    NULL,
    Block, Genesis,
    hashPrevBlock,      \* block -> its parent (Genesis -> NULL)
    nHeight,            \* block -> height
    nChainTrust         \* block -> accumulated trust

ASSUME BlockTreeAssumption ==
    /\ NULL \notin Block
    /\ Genesis \in Block
    /\ hashPrevBlock \in [Block -> Block \cup {NULL}]
    /\ hashPrevBlock[Genesis] = NULL
    /\ nHeight \in [Block -> Nat]
    /\ nHeight[Genesis] = 0
    /\ nChainTrust \in [Block -> Nat]
    /\ \A b \in Block \ {Genesis} :
         /\ hashPrevBlock[b] \in Block
         /\ nHeight[b] = nHeight[hashPrevBlock[b]] + 1
         /\ nChainTrust[b] > nChainTrust[hashPrevBlock[b]]

ClosedUnderParent(S) == \A b \in S \ {Genesis} : hashPrevBlock[b] \in S

\* The blocks reached from b by following pprev, b and Genesis included.
Ancestors ==
    [b \in Block |->
        {a \in Block : \A S \in SUBSET Block : b \in S /\ ClosedUnderParent(S) => a \in S}]

\* The blocks of the branch that ends in b and leaves the chain of a.
Branch(a, b) == Ancestors[b] \ Ancestors[a]

\* The highest block the chains of a and b share.
ForkOf(a, b) ==
    CHOOSE f \in Ancestors[a] \cap Ancestors[b] :
        \A g \in Ancestors[a] \cap Ancestors[b] : nHeight[g] <= nHeight[f]

\* The block after a on the way to its descendant b.
StepTowards(a, b) == CHOOSE c \in Ancestors[b] \ {Genesis} : hashPrevBlock[c] = a
=============================================================================
