SPECIFICATION WalletSpec
CONSTANTS
    NULL = NULL
    Absent = Absent
    Block = {"G", "P", "A2", "B2", "B3"}
    Genesis = "G"
    hashPrevBlock <- Prev
    nHeight <- Height
    nChainTrust <- Trust
    vtx <- Contents
    Tx <- Txs
    vin <- Inputs
    nOut <- Outputs
    CoinBase = {"cP"}
    CoinStake = {"s", "r"}
    nCoinbaseMaturity = 1
    Relayable = {"a", "b"}
    TotalBlocksEstimate = 0
    Rejected = {}
    Checkpointed = {}
    Suspect = {"A2"}
    Crashes = TRUE
    IOFaults = TRUE
    Mine <- Keys
    Own = {"a", "b"}
    WalletOrder <- Order
    MaturityMargin = 1
    Backups = TRUE
VIEW Live
CONSTRAINT Followed
INVARIANTS
    WalletTypeOK
    SpentCoinsMarked
    NoCoinLost
    ChainIsInWallet
