CONSTANTS
    Names = {a, b}
    Readers = {r1, r2}
    BatchSize = 1
    Offload = TRUE
    VersionMod = 4
    MaxChanges = 1
    Monitor = Monitor
    None = None
SPECIFICATION FairSpec
INVARIANTS
    TypeOK
    NoStaleWatchedEntry
PROPERTIES
    StaleIsDropped
    ReadCompletes
    StopCompletes
