\* Two inventories one after the other, two hooks at once, and one mishap: the
\* agent is killed, a move or a write fails, or another hand changes the files.
CONSTANTS
    Docs <- TwoDocs
    InventoryOf <- Upgrade
    Hooks = {h1, h2}
    v1 = v1
    v2 = v2
    Missing = Missing
    Foreign = Foreign
    None = None
    MaxActivations = 2
    MaxSessions = 2
    MaxMishaps = 1
SYMMETRY HookSymmetry
SPECIFICATION Spec
INVARIANT TypeOK
INVARIANT FailedActivationUndone
INVARIANT AttestationSound
INVARIANT CurrentIsRecorded
PROPERTY ImplementsAdapter
\* The bounds end every behaviour: sessions, activations and documents run out.
CHECK_DEADLOCK FALSE
