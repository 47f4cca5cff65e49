CONSTANTS
    Reqs = {r1, r2}
    MaxInvokeId = 2
    None = None
    Clients = {k1, k2}
    Nodes = {n1}
    Self = Self
    Libraries = {"aiomqtt", "gmqtt"}
    Careful = {TRUE, FALSE}
    MaxInfos = 1
SPECIFICATION Spec
SYMMETRY Symmetry
INVARIANTS
    TypeOK
    ConnectIsUsable
    AnswerAwaited
    RemotesFollowBroker
    DiscoveryComes
PROPERTIES
    RemoteSpec
CHECK_DEADLOCK FALSE
