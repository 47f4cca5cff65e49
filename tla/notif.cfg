CONSTANTS
    Subs = {s1, s2}
    Frames = {f1, f2}
    Handles = {h1, h2}
    MaxSubs = 1
    None = None
    Transports = {"tcp", "aiomqtt", "gmqtt"}
    EarlySamples = FALSE
    ReuseHeld = FALSE
    Shifts = FALSE
SPECIFICATION FairSpec
INVARIANTS
    TypeOK
    ActiveIsSubscribed
    DeliveredToOwner
    CallbackInScope
PROPERTIES
    UnknownRemoved
    ExitCompletes
    CleanupAnswered
CHECK_DEADLOCK FALSE
