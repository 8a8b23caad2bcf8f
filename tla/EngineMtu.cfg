CONSTANTS
    MaxLines = 3
    MaxEvents = 0
    Mtus = {1200, 1380}
    DEFAULT_MTU = 1380
    NoMtu = NoMtu
    DaemonLines <- MtuLines
    TeardownInGrace = TRUE
SPECIFICATION Spec
INVARIANT
    MtuTruth
