SPECIFICATION FairSpec
CONSTANTS
    r1 = r1
    r2 = r2
    h1 = h1
    i1 = i1
    Route = {r1, r2}
    Host = {h1}
    Identity = {i1}
    NoIdentity = NoIdentity
    Owner <- AliasOwners
    Speaker <- OneSpeaker
    Preference <- AliasPreference
    Bootstrap = {r2}
    SessionLimit = 2
    Reserve = 1
    MaxInbound = 1
    MaxWorkers = 3
    MaxSaved = 1
    MaxRoutes = 1
    MaxScore = 1
    BanThreshold <- NegThreshold
    Penalty = 2
    Malformed = 2
    MaxFaults = 2
INVARIANTS LeasesAreExact
PROPERTIES ReserveIsKept PeersAreReached
