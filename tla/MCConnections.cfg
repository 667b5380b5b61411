SPECIFICATION Spec
CONSTANTS
    NULL = NULL
    Slots = {n1, n2}
    Addresses = {"a1", "a2"}
    GetGroup <- Groups
    MAX_OUTBOUND_CONNECTIONS = 2
    MaxInbound = 1
    MaxReused = 1
INVARIANTS
    NodesInUseExist
    GrantsAccounted
    OneOutboundPerGroup
PROPERTY InboundDeleted
