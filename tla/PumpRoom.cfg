CONSTANTS
    Peers = {m, seed}
    Seeds = {seed}
    BusCap = 3
    MaxNews = 3
    Kinds <- MembersAndAdapter
    SoloChoices = {TRUE, FALSE}
    ApiChoices = {TRUE}
    ConvergesInTime = TRUE
SPECIFICATION FairSpec
INVARIANTS
    AdapterFateReported
    NobodyLockedOut
PROPERTY
    CatchesUp
CHECK_DEADLOCK FALSE
