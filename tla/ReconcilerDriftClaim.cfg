\* The active files are changed between the attestation and the look for drift.
CONSTANTS
    Packs = {k1, k2}
    Procs = {p1}
    AutoModes = {TRUE, FALSE}
    Replay = FALSE
    MaxEpoch = 1
    MaxStops = 0
    MaxFaults = 0
    MaxDrifts = 1
    MaxStarts = 1
SPECIFICATION Spec
INVARIANT DriftClaimsOtherInventory
\* Once every document is dealt with nothing happens until the next is published.
CHECK_DEADLOCK FALSE
