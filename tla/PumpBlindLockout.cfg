CONSTANTS
    Peers = {m}
    Seeds = {}
    BusCap = 4
    MaxNews = 4
    Kinds <- MembersAndAdapter
    SoloChoices = {FALSE}
    ApiChoices = {FALSE}
    ConvergesInTime = TRUE
SPECIFICATION Spec
INVARIANT
    NobodyLockedOut
CHECK_DEADLOCK FALSE
