CONSTANTS
    Peers = {m}
    Seeds = {}
    BusCap = 1
    MaxNews = 3
    Kinds <- OneOfEach
    SoloChoices = {TRUE, FALSE}
    ApiChoices = {TRUE, FALSE}
    ConvergesInTime = FALSE
SPECIFICATION FairSpec
INVARIANTS
    TypeOK
    NewsNotLost
    LobbyLeaksNothing
    PumpOutlivesLag
PROPERTY
    NewsIsHeard
CHECK_DEADLOCK FALSE
