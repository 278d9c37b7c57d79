SPECIFICATION Spec
CONSTANTS
    h1 = h1
    h2 = h2
    Hosts = {h1, h2}
    Sizes = {1, 2, 3}
    InitSize = 1
    Requests <- GrowRequests
    FaultKinds = {"crash", "meta", "read", "connect", "storage", "exec", "lost", "timeout"}
    MaxFaults = 2
    MaxPasswords = 2
    Wrap = 16
    Reserve = 2
    FreeSpace = 8
SYMMETRY HostSymmetry
INVARIANTS TypeOK DevWithinFile StatusSound
