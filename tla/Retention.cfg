SPECIFICATION FairSpec
CONSTANTS
    g = g
    a1 = a1
    a2 = a2
    a3 = a3
    a4 = a4
    a5 = a5
    a6 = a6
    b2 = b2
    b3 = b3
    MaxHeight = 2
    Block <- MCBlock
    Genesis = g
    Parent <- MCParent
    Number <- MCNumber
    Work <- MCWork
    HashRank <- MCHashRank
    Ancestor <- MCAncestor
    TotalWork <- MCTotalWork
    None = None
    Damaged = Damaged
    Root = Root
    MaxId = 6
    Pruning = TRUE
    Depth = 1
    Interval = 1
    Window = 1
    Layouts <- Grown
    Heights <- One
    MaxEvent = 3
INVARIANTS
    ServedIsWhole
PROPERTIES
    NoRollback
    RootIsLastResort
    RestartSucceeds
