\* Two upstreams behind the gateway, each of which may be replaced once, and one
\* that the profile hides; two calls before the shutdown. One upstream at a time
\* has lines to read.
CONSTANTS
    first = first
    hidden = hidden
    second = second
    tool = tool
    Upstreams = {first, hidden, second}
    Order <- GatewayOrder
    Tools = {tool}
    Spawnable = {first, hidden, second}
    Visible <- GatewayVisible
    Callable <- GatewayCallable
    MaxCalls = 2
    MaxSpawns = 2
    MaxLines = 1
CHECK_DEADLOCK FALSE
SPECIFICATION PoliteSpec
CONSTRAINT OneQueueAtATime
INVARIANT TypeOK
INVARIANT OneProcessPerUpstream
INVARIANT AnswerIsForTheCall
INVARIANT CalledToolWasListed
PROPERTY CallEnds
