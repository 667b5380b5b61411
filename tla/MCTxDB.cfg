SPECIFICATION Spec
CONSTANTS
    Handle = {h1, h2}
    Key = {k1, k2}
    Value = {v1}
    NotFound = NotFound
    NULL = NULL
    MaxBatch = 3
SYMMETRY Symmetric
INVARIANTS
    ReadableExists
PROPERTY ImplementsTransactionalStore
