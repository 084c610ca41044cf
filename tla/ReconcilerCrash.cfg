\* One process; two documents of two packs; one crash or failing append, one
\* failing adapter call, drift and idle start; older documents are delivered again.
CONSTANTS
    Packs = {k1, k2}
    Procs = {p1}
    AutoModes = {TRUE, FALSE}
    Replay = TRUE
    MaxEpoch = 2
    MaxStops = 1
    MaxFaults = 1
    MaxDrifts = 1
    MaxStarts = 1
\* Any three of the four mishaps.
CONSTRAINT ThreeMishaps
SPECIFICATION Spec
INVARIANT TypeOK
INVARIANT MilestonesReached
INVARIANT NoRepeatedAttestation
INVARIANT RecordedMeansReported
INVARIANT FailureClosesAll
PROPERTY ActivationFollowsInstall
PROPERTY ImplementsAttempt
PROPERTY LowerEpochsFailClosed
\* Once every document is dealt with nothing happens until the next is published.
CHECK_DEADLOCK FALSE
