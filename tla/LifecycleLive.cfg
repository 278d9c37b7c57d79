SPECIFICATION FairSpec
CONSTANTS
    h1 = h1
    h2 = h2
    c1 = c1
    c2 = c2
    Hosts = {h1, h2}
    Coords = {c1, c2}
    CreateArgs <- HaTwo
    DeleteArgs <- NoForce
    FaultKinds = {"crash", "meta", "access", "connect", "lost"}
    MaxFaults = 1
    MaxCreates = 1
PROPERTIES RequestAnswered
