\* One process whose requests fail and are late; the registry answers in the end.
CONSTANTS
    Attempts = {1, 2}
    Procs = {p1}
    Nobody = Nobody
    NoReply = NoReply
    BatchLimit = 2
    MaxTries = 2
    MaxReceipts = 3
    MaxGaps = 1
    MaxFaults = 2
    MaxRefused = 1
    MaxVague = 1
    MaxCrashes = 1
\* Any three of the mishaps.
CONSTRAINT ThreeMishaps
SPECIFICATION FairSpec
INVARIANT TypeOK
INVARIANT RetiresWhatIsPending
INVARIANT BatchesLeaveNoGap
PROPERTY SpoolDrains
\* The bounds end every behaviour: once all is retired nothing is left to do.
CHECK_DEADLOCK FALSE
