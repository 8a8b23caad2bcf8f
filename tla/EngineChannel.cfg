CONSTANTS
    MaxLines = 3
    MaxEvents = 1
    Mtus = {1200, 1380}
    DEFAULT_MTU = 1380
    NoMtu = NoMtu
    DaemonLines <- ChannelLines
    TeardownInGrace = FALSE
SPECIFICATION FairSpec
INVARIANTS
    AnswersInOrder
    EveryLineAnswered
PROPERTIES
    ChannelSpec
    Exits
    NeverSilent
