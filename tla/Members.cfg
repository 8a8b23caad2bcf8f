CONSTANTS
    Peers = {m, seed}
    Seeds = {seed}
    Me = me
    OwnLatencies = {400, 6000, 9000}
    FarLatencies = {0, 7}
    MaxInt = 7
    NoRtt = NoRtt
    NoList = NoList
    NoAddress = NoAddress
    MaxChanges = 1
SPECIFICATION Spec
INVARIANTS
    TypeOK
    RttIsMeasured
    SilenceIsEvidence
    DaemonParses
PROPERTY
    SnapshotSpec
