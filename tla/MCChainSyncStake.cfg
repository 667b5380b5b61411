SPECIFICATION Spec
CHECK_DEADLOCK FALSE
CONSTANTS
    NULL = NULL
    Block = {"G", "1", "2", "3", "4", "b"}
    Genesis = "G"
    hashPrevBlock <- Prev
    nHeight <- Height
    nChainTrust <- Height
    Node = {"x", "y"}
    Link <- Pair
    Indexed <- Start
    ProofOfWork = {"G"}
    nLimit = 2
    nMaxSize = 4
    MaxDisconnects = 0
PROPERTY NextBatchFollows
