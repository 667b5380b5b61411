SPECIFICATION Spec
SYMMETRY Alike
CONSTANTS
    NULL = NULL
    a1 = a1
    a2 = a2
    a3 = a3
    a4 = a4
    s1 = s1
    s2 = s2
    CNetAddr <- FourAddresses
    Sources <- TwoSources
    GetNewBucket <- NewBucketOf
    GetTriedBucket <- TriedBucketOf
    NewBuckets = {1, 2}
    TriedBuckets = {1}
    NEW_BUCKET_SIZE = 1
    TRIED_BUCKET_SIZE = 2
    NEW_BUCKETS_PER_ADDRESS = 2
    TRIED_ENTRIES_INSPECT_ON_EVICT = 2
    GETADDR_MAX_PCT = 50
    GETADDR_MAX = 1
    MaxId = 4
    MaxTime = 1
INVARIANTS
    TypeOK
    Check
    BucketsBounded
PROPERTIES
    TriedNeverDeleted
