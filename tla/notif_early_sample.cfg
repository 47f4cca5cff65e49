CONSTANTS
    Subs = {s1}
    Frames = {f1}
    Handles = {h1}
    MaxSubs = 1
    None = None
    Transports = {"tcp"}
    EarlySamples = TRUE
    ReuseHeld = FALSE
    Shifts = FALSE
SPECIFICATION Spec
INVARIANT ActiveIsSubscribed
