SPECIFICATION FairSpec
CONSTANTS
    g = g
    t1 = t1
    a2 = a2
    a3 = a3
    b2 = b2
    b3 = b3
    b4 = b4
    c2 = c2
    d3 = d3
    d4 = d4
    Block <- OneLong
    Genesis = g
    Parent <- MCParent
    Number <- MCNumber
    Work <- MCWork
    HashRank <- MCHashRank
    Ancestor <- MCAncestor
    TotalWork <- MCTotalWork
    BadHeader <- NoBlocks
    BadBody <- NoBlocks
    MaxOrphans = 2
    MaxCandidates = 4
    MaxSuffix = 3
    DrainPasses = 2
    BatchSize = 1
    SnapshotEvery = 1
    FinalityDepth = 1
    RpcEnabled = TRUE
    MayRestart = FALSE
INVARIANT AccountsMatchTip
PROPERTY EveryCallReturns
