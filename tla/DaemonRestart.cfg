SPECIFICATION Spec
CONSTANTS
    d1 = d1
    d2 = d2
    Instances = {d1, d2}
    NoOne = NoOne
    MaxKills = 1
SYMMETRY Symmetry
INVARIANTS TypeOK OneDaemon PortFree
CHECK_DEADLOCK FALSE
