SPECIFICATION Spec
CONSTANTS
    h1 = h1
    h2 = h2
    c1 = c1
    c2 = c2
    Hosts = {h1, h2}
    Coords = {c1, c2}
    CreateArgs <- HaTwo
    DeleteArgs <- NoForce
    FaultKinds = {"lock", "storage", "read", "connect", "exec", "lost"}
    MaxFaults = 3
    MaxCreates = 2
SYMMETRY Symmetry
INVARIANTS NoOrphanTarget Untouched DeleteFinishes CreateResult OrderlyInv ResultInv
PROPERTY Refines
