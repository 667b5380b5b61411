SPECIFICATION FairSpec
CONSTANTS
    NULL = NULL
    Absent = Absent
    Block = {"G", "P", "A2", "A3", "B2", "B3", "B4", "D4", "E3", "E4"}
    Genesis = "G"
    hashPrevBlock <- Prev
    nHeight <- Height
    nChainTrust <- Weighted
    vtx <- Contents
    Tx <- Txs
    vin <- Inputs
    nOut <- Outputs
    CoinBase <- CoinBases
    CoinStake = {}
    nCoinbaseMaturity = 1
    Relayable <- Loose
    TotalBlocksEstimate = 0
    Rejected = {"A3"}
    Checkpointed = {}
    Suspect = {}
    Crashes = FALSE
    IOFaults = FALSE
CHECK_DEADLOCK FALSE
INVARIANTS
    BestIsHeaviest
PROPERTIES
    ImplementsChainSelection
    HeavierChainAdopted
