\* Two processes upload the same spool at once.
CONSTANTS
    Attempts = {1, 2}
    Procs = {p1, p2}
    Nobody = Nobody
    NoReply = NoReply
    BatchLimit = 2
    MaxTries = 3
    MaxReceipts = 3
    MaxGaps = 0
    MaxFaults = 1
    MaxRefused = 0
    MaxVague = 0
    MaxCrashes = 1
SYMMETRY ProcSymmetry
SPECIFICATION Spec
INVARIANT RetiredIsSettled
\* The bounds end every behaviour: once all is retired nothing is left to do.
CHECK_DEADLOCK FALSE
