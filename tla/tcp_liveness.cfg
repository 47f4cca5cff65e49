CONSTANTS
    Reqs = {r1, r2}
    MaxInvokeId = 2
    None = None
    Clients = {k1}
    Sups = {s1, s2}
    Conns = {c1, c2}
    QuietClose = TRUE
SPECIFICATION FairSpec

PROPERTIES
    LossIsReported
    DisconnectCompletes
    KeepsReconnecting
