\* The build for processors with enough RAM: a reply always fits in the buffer.
CONSTANTS
    Clients = {c1}
    NoClient = NoClient
    SocketMax = 2
    MTU = 2
    TCP_SIZE = 2
    Segments = {1, 2}
    SlowConnect = TRUE
    FlushFirst = FALSE
    StopsFirst = FALSE
    StreamLength = 5
    MaxSessions = 3
    MaxLosses = 0
SPECIFICATION Spec
INVARIANT ConnectedIsReal
CHECK_DEADLOCK FALSE
