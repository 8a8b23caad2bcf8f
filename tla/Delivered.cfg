CONSTANTS
    NoSecret = NoSecret
    Refused = Refused
    Branches = {main, topic}
    Machines <- MCMachines
    Locks <- MCLocks
    Unreadable = Unreadable
    NoTag = NoTag
    NoLib = NoLib
    MaxCommits = 2
    MaxBuilds = 3
    MaxEdits = 2
    Messages <- MCMessages
    StartArgs <- MCStartArgs
    UpstreamDefaults <- MCUpstreamDefaults
    MaxEvents = 2
SPECIFICATION Spec
SYMMETRY MCSymmetry
INVARIANTS
    TypeOK
    IdNamesCommit
    LibIsLocked
    SecretsStayOut
    LogIsWhole
    NothingForbidden
CHECK_DEADLOCK FALSE
