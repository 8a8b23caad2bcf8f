CONSTANTS
    Peers = {m, seed}
    Seeds = {seed}
    BusCap = 1
    MaxNews = 4
    Kinds <- MembersAndAdapter
    SoloChoices = {FALSE}
    ApiChoices = {TRUE}
    ConvergesInTime = TRUE
SPECIFICATION Spec
INVARIANT
    NobodyLockedOut
CHECK_DEADLOCK FALSE
