SPECIFICATION FairSpec
CONSTANTS
    Base = 4
    Width = 4
    Window = 3
    Activation = 3
    Issuance = 6001
    GasLimit = 4
    Offers <- MCOffers
    Rivals <- MCRivals
    StartTarget <- MCStart
    Checkpoint = 2
    Depth = 1
    NoJob = NoJob
    MaxHeight = 4
    MaxEvent = 2
INVARIANTS TargetsAreExact IndexIsExact CirculatingIsHeld
PROPERTIES StartsAgain CandidatesArePublished
