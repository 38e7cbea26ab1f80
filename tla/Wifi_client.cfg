\* The build for processors with enough RAM: a reply always fits in the buffer.
CONSTANTS
    Clients = {c1}
    NoClient = NoClient
    SocketMax = 2
    MTU = 2
    TCP_SIZE = 2
    Segments = {1, 2}
    SlowConnect = FALSE
    FlushFirst = FALSE
    StopsFirst = FALSE
    StreamLength = 5
    MaxSessions = 3
    MaxLosses = 1
SPECIFICATION Spec
INVARIANTS WritesBehindUnread OneRecv StreamIntact AllDelivered ConnectedIsReal HandlerRegistered
PROPERTY LossClosesClients
CHECK_DEADLOCK FALSE
