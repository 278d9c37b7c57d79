SPECIFICATION FairSpec
CONSTANTS
    v1 = v1
    v2 = v2
    v3 = v3
    d1 = d1
    d2 = d2
    Torn = Torn
    Volumes = {v1, v2, v3}
    Configs <- AllConfigs
    LogFiles = {d1, d2}
    LRU_COUNT_MAX = 2
    Failures = {"glfs", "alloc", "logdir", "logging"}
INVARIANTS TypeOK CacheSound RecencyOrder LogdirFollows
PROPERTIES CacheBounded ThreadsProgress
