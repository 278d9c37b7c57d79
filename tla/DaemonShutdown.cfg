SPECIFICATION FairSpec
CONSTANTS
    d1 = d1
    d2 = d2
    Instances = {d1}
    NoOne = NoOne
    MaxKills = 2
PROPERTY Shutdown
CHECK_DEADLOCK FALSE
