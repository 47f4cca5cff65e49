CONSTANTS
    Names = {a}
    Readers = {r1}
    BatchSize = 1
    Offload = TRUE
    VersionMod = 4
    MaxChanges = 1
    Monitor = Monitor
    None = None
SPECIFICATION Spec
INVARIANT NoStaleEntry
