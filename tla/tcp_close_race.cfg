CONSTANTS
    Reqs = {r1}
    MaxInvokeId = 2
    None = None
    Clients = {k1}
    Sups = {s1, s2}
    Conns = {c1, c2}
    QuietClose = FALSE
SPECIFICATION Spec
PROPERTIES
    ClosedStaysClosed
