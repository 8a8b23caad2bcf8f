CONSTANTS
    NoSecret = NoSecret
    Refused = Refused
    Guests = {g1, g2}
    MaxIds = 2
    MaxTime = 3
    MaxRooms = 2
    MaxRequests = 4
    Pipeline = 3
    Lifetimes = {0, 1, 2}
SPECIFICATION FairSpec
INVARIANTS
    TypeOK
    ToldIsHeld
    GoneIsFinal
    KickIsOnePerson
PROPERTIES
    LifeSpec
    DoorCloses
CHECK_DEADLOCK FALSE
