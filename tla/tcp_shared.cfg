CONSTANTS
    Reqs = {r1, r2}
    MaxInvokeId = 2
    None = None
    Clients = {k1, k2}
    Sups = {s1, s2}
    Conns = {c1, c2}
    QuietClose = FALSE
SPECIFICATION Spec
SYMMETRY Symmetry
CONSTRAINT QuietEnvironment
INVARIANTS
    RegisteredWhileOutstanding
