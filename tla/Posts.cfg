\* The build for AVR processors, as on the board: replies come in chunks.
CONSTANTS
    MaxDistance = 5
    Wall = 5
    Bodies = {2}
    EchoLost = FALSE
    Hurry = TRUE
    MaxPassages = 1
    client = c1
    NoClient = NoClient
    SocketMax = 1
    MTU = 1
    TCP_SIZE = 2
    Segments = {1, 3}
    SlowConnect = FALSE
    FlushFirst = TRUE
    StreamLength = 3
    MaxSessions = 2
    MaxLosses = 0
    PINGS = 3
    VALUES = 2
    FIRST = 1
    MARGIN = 1
    DOOR = 4
    NUM_SENSORS = 2
SPECIFICATION FairSpec
INVARIANTS TypeOK SocketFree OneRecv PumpAlive OwnPlace
PROPERTIES NeverOvercounts KeepsDiscipline PostEnds
CHECK_DEADLOCK FALSE
