SPECIFICATION Spec
CONSTANTS
    g = g
    t1 = t1
    a2 = a2
    a3 = a3
    b2 = b2
    b3 = b3
    b4 = b4
    c2 = c2
    d3 = d3
    d4 = d4
    Block <- NestedHeavy
    Genesis = g
    Parent <- MCParent
    Number <- MCNumber
    Work <- MCWork
    HashRank <- MCHashRank
    Ancestor <- MCAncestor
    TotalWork <- MCTotalWork
    BadHeader <- OnlyB3
    BadBody <- OnlyD3
    MaxOrphans = 2
    MaxCandidates = 3
    MaxSuffix = 2
    DrainPasses = 2
    BatchSize = 1
    SnapshotEvery = 1
    FinalityDepth = 1
    RpcEnabled = FALSE
    MayRestart = TRUE
INVARIANTS
    TypeOK
    CanonicalIsOneSoundChain
    CandidateWorkIsExact
    PoolsBounded
PROPERTY
    WorkNeverDecreases
