SPECIFICATION Spec
CONSTANTS
    h1 = h1
    h2 = h2
    c1 = c1
    c2 = c2
    Hosts = {h1, h2}
    Coords = {c1, c2}
    CreateArgs <- HaTwoAuth
    DeleteArgs <- AnyDelete
    FaultKinds = {"crash", "meta", "lock", "storage", "read", "connect", "exec", "lost", "timeout", "unlink", "xattr", "unload"}
    MaxFaults = 1
    MaxCreates = 2
SYMMETRY Symmetry
INVARIANTS TypeOK MutualExclusion JournalSound EntrySound LifecycleInv
