\* The build for AVR processors (LIMITED_RAM_DEVICE): replies come in chunks.
CONSTANTS
    Clients = {c1}
    NoClient = NoClient
    SocketMax = 2
    MTU = 2
    TCP_SIZE = 4
    Segments = {1, 2, 3, 5}
    SlowConnect = FALSE
    FlushFirst = TRUE
    StopsFirst = FALSE
    StreamLength = 6
    MaxSessions = 2
    MaxLosses = 0
SPECIFICATION Spec
INVARIANT StreamIntact
CHECK_DEADLOCK FALSE
