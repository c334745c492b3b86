SPECIFICATION Spec
CONSTANTS
    g = g
    a1 = a1
    a2 = a2
    a3 = a3
    b1 = b1
    b2 = b2
    b3 = b3
    c2 = c2
    Block <- MCBlock
    Genesis = g
    Parent <- MCParent
    Number <- MCNumber
    Work <- MCWork
    HashRank <- MCHashRank
    Ancestor <- MCAncestor
    TotalWork <- MCTotalWork
    None = None
    Torn = Torn
INVARIANTS
    TypeOK
    ManifestVouchesForState
    SettledStore
    RejectedOnlyAfterTornInsert
PROPERTIES
    RejectionIsFinal
    OpeningCostsNothing
