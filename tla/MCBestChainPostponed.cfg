SPECIFICATION Spec
CONSTANTS
    NULL = NULL
    Absent = Absent
    Block = {"G", "P", "A2", "A3", "B2", "B3", "B4", "D4"}
    Genesis = "G"
    hashPrevBlock <- Prev
    nHeight <- Height
    nChainTrust <- Height
    vtx <- Contents
    Tx <- Txs
    vin <- Inputs
    nOut <- Outputs
    CoinBase <- CoinBases
    CoinStake = {}
    nCoinbaseMaturity = 1
    Relayable <- Loose
    TotalBlocksEstimate = 0
    Rejected = {}
    Checkpointed = {}
    Suspect = {}
    Crashes = TRUE
    IOFaults = FALSE
INVARIANT BestChainOnDisk
