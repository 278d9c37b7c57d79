SPECIFICATION Spec
CONSTANTS
    h1 = h1
    h2 = h2
    Hosts = {h1, h2}
    Sizes = {1, 2}
    InitSize = 1
    Requests <- GrowRequests
    FaultKinds = {}
    MaxFaults = 0
    MaxPasswords = 2
    Wrap = 16
    Reserve = 2
    FreeSpace = 8
SYMMETRY HostSymmetry
INVARIANTS DisableResult
