SPECIFICATION Spec
CONSTANTS
    h1 = h1
    h2 = h2
    Hosts = {h1, h2}
    Requests <- AnyRequest
    MaxFaults = 1
    MaxRebuilds = 1
SYMMETRY HostSymmetry
INVARIANTS TypeOK Supported RefusedRightly FallsBack
