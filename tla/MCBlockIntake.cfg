SPECIFICATION Spec
CONSTANTS
    NULL = NULL
    Block = {"G", "A1", "A2", "A3", "B1", "B2", "C2"}
    Genesis = "G"
    hashPrevBlock <- Prev
    nHeight <- Height
    nChainTrust <- Trust
    proof <- Stake
    Hardened = {"G", "A3"}
    Signed = {"A1", "A2", "B2"}
    Unacceptable = {}
    Cheap = {"B1"}
    Invalid = {"C2"}
    Suspect = {"A2"}
    Keys = {"k", "l"}
    Strict = TRUE
    Crashes = TRUE
    IOFaults = TRUE
INVARIANTS
    DiskReloads
    OrphansWaitForMissing
    OrphanStakesHeld
    CheckpointOnBestChain
PROPERTY CheckpointAdvances
