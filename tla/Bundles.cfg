\* One manager, one publisher and one gateway at once; a stopped command.
CONSTANTS
    Upstreams = {u1}
    Tools = {t1, t2}
    Names = {base, child}
    KeyIds = {k1}
    Materials = {m1, m2}
    SigningKeys <- OneSigner
    Deadlines = {None, 1}
    Requests = {None, base}
    Managers = {a1}
    u1 = u1
    t1 = t1
    t2 = t2
    base = base
    child = child
    k1 = k1
    m1 = m1
    m2 = m2
    Any = Any
    None = None
    Missing = Missing
    Audiences = {Here, There}
    Here = Here
    MaxExtendsDepth = 2
    Contents <- SomeContents
    RawFiles <- SomeRawFiles
    Lifetime = 1
    Skew = 0
    MaxNow = 1
    MaxBundles = 2
    MaxStops = 1
SPECIFICATION Spec
INVARIANT TypeOK
INVARIANT RevokedIsRefused
INVARIANT RevocationsExplained
INVARIANT SidecarsDescribeTheBundle
INVARIANT GrantsOnlyNarrow
