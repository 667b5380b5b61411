SPECIFICATION Spec
CONSTANTS
    NULL = NULL
    Block = {"G"}
    Genesis = "G"
    hashPrevBlock <- NoParent
    nHeight <- Zero
    nChainTrust <- Zero
    vtx <- NoTx
    Tx = {"c", "p", "q", "o", "r", "s", "t"}
    vin <- Inputs
    nOut <- Outputs
    CoinBase = {"c"}
    CoinStake = {}
    Rejected = {}
    nCoinbaseMaturity = 1
    Relayable = {"p", "q", "o", "r", "s", "t"}
    Coins = {"c"}
    Large = {"r"}
    MAX_ORPHAN_TRANSACTIONS = 2
INVARIANTS
    OrphanIndexExact
    OrphansBounded
    OrphansWaitForParents
