\* Four installs of two versions over two seconds, with two faults.
CONSTANTS
    LastVersion = 2
    Partial = Partial
    None = None
    Unreadable = Unreadable
    MaxNow = 1
    MaxInstalls = 4
    MaxFaults = 2
SPECIFICATION Spec
INVARIANT TypeOK
INVARIANT NothingLost
INVARIANT ManifestTellsTheTree
\* The bounds end every behaviour: commands, seconds and faults run out.
CHECK_DEADLOCK FALSE
