SPECIFICATION Spec
CONSTANTS
    NULL = NULL
    KeyPoolSize = 1
    MaxKey = 5
    MaxMasterKeys = 1
INVARIANTS
    KeysSurvive
    PoolUsable
    NeverHandedOutTwice
    HandlesAreOpen
PROPERTY
    BackupCoversPool
