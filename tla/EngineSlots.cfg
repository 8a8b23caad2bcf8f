CONSTANTS
    MaxLines = 4
    MaxEvents = 0
    Mtus = {1200, 1380}
    DEFAULT_MTU = 1380
    NoMtu = NoMtu
    DaemonLines <- SlotLines
    TeardownInGrace = TRUE
SPECIFICATION Spec
INVARIANTS
    TypeOK
    LogStarted
    NoOrphan
    CleanExit
    OkMeansStarted
    OkCallHadRoom
    ReplacementWaits
    MtuUnlessRefused
PROPERTY
    RoomSurvivesLobby
