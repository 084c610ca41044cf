\* Three control loops at once, one of which may belong to another installation.
CONSTANTS
    Procs = {p1, p2, p3}
    Installations = {i1, i2}
    NoAgent = NoAgent
    None = None
    MaxUUIDs = 3
    MaxFaults = 2
SYMMETRY IdentitySymmetry
SPECIFICATION Spec
INVARIANT TypeOK
INVARIANT OneAgentRegistered
PROPERTY IdentityIsKept
