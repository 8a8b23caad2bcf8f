CONSTANTS
    Branches = {main}
    Machines <- MCMachines
    Locks <- MCLocks
    Unreadable = Unreadable
    NoTag = NoTag
    NoLib = NoLib
    MaxCommits = 2
    MaxBuilds = 1
    MaxEdits = 1
SPECIFICATION BuildSpec
INVARIANT CleanIsThatCommit
CHECK_DEADLOCK FALSE
