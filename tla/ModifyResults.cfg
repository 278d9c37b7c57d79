SPECIFICATION Spec
CONSTANTS
    h1 = h1
    h2 = h2
    Hosts = {h1, h2}
    Sizes = {1, 2, 3}
    InitSize = 1
    Requests <- EnableRequests
    FaultKinds = {"connect", "exec", "lost"}
    MaxFaults = 3
    MaxPasswords = 4
    Wrap = 16
    Reserve = 2
    FreeSpace = 8
SYMMETRY HostSymmetry
INVARIANTS EnableResult SizeResult RetryAccepted ShrinkResult
