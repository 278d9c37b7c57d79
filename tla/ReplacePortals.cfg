SPECIFICATION Spec
CONSTANTS
    a = a
    b = b
    c = c
    Nodes = {a, b, c}
    InitHosts <- TwoHosts
    Auth = TRUE
    Requests <- ThereAndBack
    FaultKinds = {}
    MaxFaults = 0
INVARIANT PortalsFollow
