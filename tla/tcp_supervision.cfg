CONSTANTS
    Reqs = {r1, r2, r3}
    MaxInvokeId = 2
    None = None
    Clients = {k1, k2}
    Sups = {s1, s2}
    Conns = {c1, c2}
    QuietClose = TRUE
SPECIFICATION AloneSpec
SYMMETRY Symmetry
INVARIANTS
    TypeOK
    OwnResponse
    NoOrphanedRequest
    SingleConnection
    OneConnector
    DisconnectLeavesNothing
    QueuedFindsStream
    ReopensAtOnce
    WrittenWhereAccepted
PROPERTIES
    ClosedStaysClosed
    RemoteSpec
