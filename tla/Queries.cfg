SPECIFICATION FairSpec
CONSTANTS
    g = g
    a1 = a1
    a2 = a2
    a3 = a3
    a4 = a4
    a5 = a5
    a6 = a6
    b2 = b2
    b3 = b3
    x = x
    y = y
    t1 = t1
    t2 = t2
    Block <- MCBlock
    Genesis = g
    Parent <- MCParent
    Number <- MCNumber
    Work <- MCWork
    HashRank <- MCHashRank
    Ancestor <- MCAncestor
    TotalWork <- MCTotalWork
    None = None
    Mixed = Mixed
    Latest = Latest
    Wild = Wild
    Tx <- MCTx
    TxsOf <- MCTxsOf
    LogsOf <- MCLogsOf
    First = a4
    Rpc <- MCRpc
    Asks <- MCAsks
    MaxConnections = 2
    MaxFilters = 1
    MaxPeers = 1
    MaxRemote = 1
    MaxRange = 4
    MaxReplay = 1
    Interval = 2
    Floor = 0
    MaxEvent = 3
CHECK_DEADLOCK FALSE
INVARIANTS
    IndexesMatchChain
    AnchoredAnswers
    LogsAreExact
    StateOfOneBlock
    NothingSkipped
PROPERTIES
    CallsReturn
    
