\* Automatic activation, with a crash or a failing append, a failing adapter call and a drift.
CONSTANTS
    Packs = {k1, k2}
    Procs = {p1}
    AutoModes = {TRUE}
    Replay = FALSE
    MaxEpoch = 2
    MaxStops = 1
    MaxFaults = 1
    MaxDrifts = 1
    MaxStarts = 0
SPECIFICATION FairSpec
PROPERTY NewestSettles
\* Once every document is dealt with nothing happens until the next is published.
CHECK_DEADLOCK FALSE
