\* Two clients share two sockets, which are used again; connections may be slow
\* or refused, replies come in chunks, and a client is stopped after its stream
\* and before the other one connects.
CONSTANTS
    Clients = {c1, c2}
    NoClient = NoClient
    SocketMax = 2
    MTU = 1
    TCP_SIZE = 2
    Segments = {3}
    SlowConnect = TRUE
    FlushFirst = TRUE
    StopsFirst = TRUE
    StreamLength = 3
    MaxSessions = 3
    MaxLosses = 0
SPECIFICATION FairSpec
INVARIANT PumpAlive
PROPERTY ConnectEnds
