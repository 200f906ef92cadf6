SPECIFICATION AnySpec
CONSTANTS
    c1 = c1
    c2 = c2
    s1 = s1
    s2 = s2
    j1 = j1
    j2 = j2
    Containers <- TwoContainers
    LogMaxBytes = 1
    MaxBytes = 1
    MaxFaults = 1
    MaxStuck = 0
    MaxCrashes = 0
    Judges <- OneJudge
    Tids = {"t1", "t2"}
    Paths = {"p"}
    CacheMax = 2
    NoFile = 20
    FD_HEADROOM = 2
    MaxGen = 2
    MaxCalls = 2
    LogLimit = 2
    MaxFailures = 0
    MaxPollErrors = 0
    CrunConnects = TRUE
    Openat <- AllFlags
    Openat2 <- PairsOfFlags
    Resolve <- ResolveWords
SYMMETRY Symmetry
CHECK_DEADLOCK FALSE
INVARIANTS
    
    
    
    OpensConfined
PROPERTIES
    KeepsContract
