\* One upstream that can be started, of which nothing is assumed.
CONSTANTS
    first = first
    hidden = hidden
    second = second
    tool = tool
    Upstreams = {first, hidden, second}
    Order <- GatewayOrder
    Tools = {tool}
    Spawnable = {first}
    Visible <- GatewayVisible
    Callable <- GatewayCallable
    MaxCalls = 1
    MaxSpawns = 1
    MaxLines = 1
CHECK_DEADLOCK FALSE
SPECIFICATION FairSpec
PROPERTY CallEnds
