SPECIFICATION Spec
CONSTANTS
    a = a
    b = b
    c = c
    Nodes = {a, b, c}
    InitHosts <- TwoHosts
    Auth = TRUE
    Requests <- OneWay
    FaultKinds = {"crash", "meta", "read", "connect", "exec", "lost", "timeout", "down", "reboot"}
    MaxFaults = 2
INVARIANTS TypeOK ArgsFit ReplaceJournal ReplaceResult ForceCompletes ReloadResult
