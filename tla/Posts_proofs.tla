---------------------------- MODULE Posts_proofs ----------------------------
(***************************************************************************)
(* Theorems about Posts, for every scene and every size of the library and *)
(* of the bounds: the sketches keep to the discipline WifiClient_proofs    *)
(* asks for, so what is proved there of a single client holds of them.     *)
(***************************************************************************)
EXTENDS Posts, TLAPS

----------------------------------------------------------------------------
(* The scene in front of the sensor *)

\* The steps of the scene keep its type.
LEMMA SceneInitType == SceneInit => SceneTypeOK
<1>1. SceneInit => body \in Bodies \union {Nobody} /\ passages \in 0 .. MaxPassages
  BY SceneAssumption DEF SceneInit, SceneAssumption
<1>2. SceneInit => sampled \in BOOLEAN
  BY Zenon DEF SceneInit
<1>3. QED
  BY <1>1, <1>2 DEF SceneTypeOK

LEMMA LookedType == SceneTypeOK /\ Looked => SceneTypeOK'
<1>1. Looked => sampled' \in BOOLEAN
  BY Zenon DEF Looked
<1>2. QED
  BY <1>1 DEF SceneTypeOK, Looked

LEMMA MoveType ==
    ASSUME NEW b \in Bodies \union {Nobody}, NEW threshold,
           SceneTypeOK, Move(b, threshold)
    PROVE  SceneTypeOK'
<1>1. sampled' \in BOOLEAN
  BY Zenon DEF Move
<1>2. passages' \in 0 .. MaxPassages
  BY DEF Move, SceneTypeOK
<1>3. QED
  BY <1>1, <1>2 DEF SceneTypeOK, Move

----------------------------------------------------------------------------
(* The library of the sketch is the one the proofs are about *)

\* The library with the client of the sketch, and what is proved of it.
Lib == INSTANCE WifiClient_proofs WITH Clients <- {client}, StopsFirst <- FALSE

LEMMA SameLibrary ==
    /\ Wifi!Init <=> Lib!Init
    /\ Wifi!Next <=> Lib!Next
    /\ Wifi!Handling <=> Lib!Handling
    /\ Wifi!TypeOK <=> Lib!TypeOK
    /\ Wifi!OneRecv <=> Lib!OneRecv
    /\ Wifi!PumpAlive <=> Lib!PumpAlive
<1> USE DEF Wifi!Sockets, Lib!Sockets, Wifi!NoSocket, Lib!NoSocket,
            Wifi!Sessions, Lib!Sessions, Wifi!Places, Lib!Places, Wifi!Bytes, Lib!Bytes,
            Wifi!NoByte, Lib!NoByte, Wifi!NoXfer, Lib!NoXfer, Wifi!Joined, Lib!Joined,
            Wifi!ClosedSocket, Lib!ClosedSocket, Wifi!NewClient, Lib!NewClient,
            Wifi!NoConnection, Lib!NoConnection, Wifi!host, Lib!host,
            Wifi!Cardinality, Lib!Cardinality
<1>1. Wifi!Init <=> Lib!Init
  BY DEF Wifi!Init, Lib!Init
<1>2. Wifi!TypeOK <=> Lib!TypeOK
  BY DEF Wifi!TypeOK, Lib!TypeOK, Wifi!Requests, Lib!Requests, Wifi!Replies, Lib!Replies
<1>3. Wifi!OneRecv <=> Lib!OneRecv
  BY DEF Wifi!OneRecv, Lib!OneRecv, Wifi!Underway, Lib!Underway
<1>4. Wifi!PumpAlive <=> Lib!PumpAlive
  BY DEF Wifi!PumpAlive, Lib!PumpAlive
<1> USE DEF Wifi!AfterRecv, Lib!AfterRecv, Wifi!RecvRequest, Lib!RecvRequest,
            Wifi!Closed, Lib!Closed, Wifi!CloseRequest, Lib!CloseRequest,
            Wifi!ClosedAll, Lib!ClosedAll, Wifi!CloseRequests, Lib!CloseRequests,
            Wifi!PumpOpen, Lib!PumpOpen, Wifi!available, Lib!available,
            Wifi!Stopped, Lib!Stopped
<1>5. Wifi!Calls(client) <=> Lib!Calls(client)
  BY DEF Wifi!Calls, Lib!Calls, Wifi!connected, Lib!connected, Wifi!Fresh, Lib!Fresh,
         Wifi!FreeFrom, Lib!FreeFrom, Wifi!StartConnect, Lib!StartConnect,
         Wifi!NoSocketFree, Lib!NoSocketFree, Wifi!Consumed, Lib!Consumed,
         Wifi!Read, Lib!Read, Wifi!Flushed, Lib!Flushed, Wifi!Stop, Lib!Stop
<1>6. Wifi!Connecting <=> Lib!Connecting
  BY DEF Wifi!Connecting, Lib!Connecting, Wifi!Held, Lib!Held,
         Wifi!ConnectReturns, Lib!ConnectReturns, Wifi!PumpStuck, Lib!PumpStuck,
         Wifi!TimedOut, Lib!TimedOut, Wifi!ConnectTimeout, Lib!ConnectTimeout
<1>7. Wifi!Handling <=> Lib!Handling
  BY DEF Wifi!OnConnected, Lib!OnConnected, Wifi!OnConnectFailed, Lib!OnConnectFailed,
         Wifi!OnEof, Lib!OnEof, Wifi!More, Lib!More, Wifi!Fits, Lib!Fits,
         Wifi!OnData, Lib!OnData, Wifi!Replied, Lib!Replied,
         Wifi!OnReceived, Lib!OnReceived, Wifi!OnDisconnected, Lib!OnDisconnected,
         Wifi!CallbackSafe, Lib!CallbackSafe, Wifi!Pump, Lib!Pump,
         Wifi!PumpChunk, Lib!PumpChunk, Wifi!Handling, Lib!Handling
<1>8. Wifi!Firmware <=> Lib!Firmware
  BY DEF Wifi!FwRequest, Lib!FwRequest, Wifi!FwReplies, Lib!FwReplies,
         Wifi!FwConnects, Lib!FwConnects, Wifi!FwData, Lib!FwData,
         Wifi!FwEof, Lib!FwEof, Wifi!Firmware, Lib!Firmware
<1>9. /\ Wifi!LoseNetwork <=> Lib!LoseNetwork
      /\ Wifi!Rejoin <=> Lib!Rejoin
      /\ Wifi!Reset <=> Lib!Reset
  BY DEF Wifi!LoseNetwork, Lib!LoseNetwork, Wifi!Rejoin, Lib!Rejoin, Wifi!Reset, Lib!Reset
<1>10. Wifi!Next <=> Lib!Next
  BY <1>5, <1>6, <1>7, <1>8, <1>9 DEF Wifi!Next, Lib!Next
<1>11. QED
  BY <1>1, <1>2, <1>3, <1>4, <1>7, <1>10

LEMMA SameAssumption == Lib!WifiAssumption /\ Lib!StopsAssumption
  BY LibraryAssumption DEF Wifi!WifiAssumption, Lib!WifiAssumption, Lib!StopsAssumption

----------------------------------------------------------------------------
(* What each point of setup() and loop() knows *)

Points == {"setup", "count", "measure", "post", "connecting", "waiting",
           "reading", "flushing", "restart"}
Calling == {"connecting", "waiting", "reading", "flushing"}

\* What a post leaves to the next one: the client has no socket between two
\* posts, and connect() waits only where the sketch called it.
ClientInv ==
    /\ calling = IF pc = "connecting" THEN client ELSE NoClient
    /\ pc \notin Calling => cl[client].socket = Wifi!NoSocket

\* The values of the weather station and their places, and those of the others.
ValuesInv ==
    /\ sketch \in {"elevator", "door", "box"} /\ pc \in Points
    /\ value \in Nat \ {0} /\ sensorsIndex \in Nat
    /\ sketch = "box" =>
         /\ pc \notin {"count", "waiting"} /\ value <= NUM_SENSORS
         /\ IF pc \in {"setup", "measure"} THEN sensorsIndex = value - 1
                                           ELSE sensorsIndex = NUM_SENSORS /\ value = 1
         /\ pc = "setup" => value = 1
    /\ sketch # "box" =>
         /\ pc \notin {"measure", "restart"} /\ value <= VALUES /\ sensorsIndex = 0

\* The site of the stations: no ping of loop() is lost, and no threshold is
\* behind the wall, whoever stands in the way when the shaft is measured.
Site ==
    /\ ~EchoLost
    /\ DOOR <= Wall
    /\ \A b \in Bodies : b - MARGIN <= Wall

\* A count that is pending is owed to the person in front of the sensor, or to
\* a passage that is not counted yet.
DebtInv ==
    /\ SceneTypeOK
    /\ nb_people \in Nat /\ FIRST <= nb_people /\ state \in {0, 1} /\ dist_mur \in Nat
    /\ Threshold <= Wall
    /\ nb_people - FIRST + state <=
         passages + (IF state = 1 /\ InFront(body, Threshold) THEN 1 ELSE 0)
    /\ sketch = "elevator" /\ pc = "setup" => state = 0

----------------------------------------------------------------------------
(* Each sketch takes the steps of PostStation *)

LEMMA SameElevator ==
    /\ Elevator!Connect <=> Connect
    /\ \A next : /\ Elevator!ConnectOk(next) <=> ConnectOk(next)
                 /\ Elevator!ConnectFailed(next) <=> ConnectFailed(next)
                 /\ Elevator!NameUnknown(next) <=> NameUnknown(next)
    /\ \A point, next : Elevator!ReadByte(point, next) <=> ReadByte(point, next)
    /\ Elevator!StopClient <=> StopClient
    /\ \A t : Elevator!Ping(t) <=> Ping(t)
    /\ Elevator!Wifi!connected(client) <=> Wifi!connected(client)
  BY DEF Goto, From, scene, counter, values, wifi, Connect, ConnectOk,
         ConnectFailed, NameUnknown, ReadByte, StopClient, ReadLine, Flushed,
         Flushing, StopAfterFlush, NO_ECHO, Nobody, Surface, getDistance, Looked,
         Counter, Ping,
         Wifi!Sockets, Wifi!NoSocket, Wifi!Sessions, Wifi!Places, Wifi!NoByte,
         Wifi!NoXfer, Wifi!ClosedSocket, Wifi!NewClient, Wifi!Cardinality,
         Wifi!Closed, Wifi!CloseRequest, Wifi!ClosedAll, Wifi!CloseRequests,
         Wifi!PumpOpen, Wifi!available, Wifi!connected, Wifi!AfterRecv,
         Wifi!RecvRequest, Wifi!Fresh, Wifi!FreeFrom, Wifi!StartConnect, Wifi!Held,
         Wifi!ConnectReturns, Wifi!PumpStuck, Wifi!TimedOut, Wifi!ConnectTimeout,
         Wifi!Consumed, Wifi!Read, Wifi!Flushed, Wifi!Stopped, Wifi!Stop,
         Elevator!Goto, Elevator!From, Elevator!scene, Elevator!counter,
         Elevator!values, Elevator!wifi, Elevator!Connect, Elevator!ConnectOk,
         Elevator!ConnectFailed, Elevator!NameUnknown, Elevator!ReadByte,
         Elevator!StopClient, Elevator!ReadLine, Elevator!Flushed,
         Elevator!Flushing, Elevator!StopAfterFlush, Elevator!NO_ECHO,
         Elevator!Nobody, Elevator!Surface, Elevator!getDistance, Elevator!Looked,
         Elevator!Counter, Elevator!Ping,
         Elevator!Wifi!Sockets, Elevator!Wifi!NoSocket, Elevator!Wifi!Sessions,
         Elevator!Wifi!Places, Elevator!Wifi!NoByte, Elevator!Wifi!NoXfer,
         Elevator!Wifi!ClosedSocket, Elevator!Wifi!NewClient,
         Elevator!Wifi!Cardinality, Elevator!Wifi!Closed,
         Elevator!Wifi!CloseRequest, Elevator!Wifi!ClosedAll,
         Elevator!Wifi!CloseRequests, Elevator!Wifi!PumpOpen,
         Elevator!Wifi!available, Elevator!Wifi!connected, Elevator!Wifi!AfterRecv,
         Elevator!Wifi!RecvRequest, Elevator!Wifi!Fresh, Elevator!Wifi!FreeFrom,
         Elevator!Wifi!StartConnect, Elevator!Wifi!Held,
         Elevator!Wifi!ConnectReturns, Elevator!Wifi!PumpStuck,
         Elevator!Wifi!TimedOut, Elevator!Wifi!ConnectTimeout,
         Elevator!Wifi!Consumed, Elevator!Wifi!Read, Elevator!Wifi!Flushed,
         Elevator!Wifi!Stopped, Elevator!Wifi!Stop

LEMMA SameDoor ==
    /\ Door!Connect <=> Connect
    /\ \A next : /\ Door!ConnectOk(next) <=> ConnectOk(next)
                 /\ Door!ConnectFailed(next) <=> ConnectFailed(next)
                 /\ Door!NameUnknown(next) <=> NameUnknown(next)
    /\ \A point, next : Door!ReadByte(point, next) <=> ReadByte(point, next)
    /\ Door!ReadLine <=> ReadLine
    /\ Door!Flushing <=> Flushing
    /\ Door!StopAfterFlush <=> StopAfterFlush
    /\ \A t : Door!Ping(t) <=> Ping(t)
  BY DEF Goto, From, scene, counter, values, wifi, Connect, ConnectOk,
         ConnectFailed, NameUnknown, ReadByte, StopClient, ReadLine, Flushed,
         Flushing, StopAfterFlush, NO_ECHO, Nobody, Surface, getDistance, Looked,
         Counter, Ping,
         Wifi!Sockets, Wifi!NoSocket, Wifi!Sessions, Wifi!Places, Wifi!NoByte,
         Wifi!NoXfer, Wifi!ClosedSocket, Wifi!NewClient, Wifi!Cardinality,
         Wifi!Closed, Wifi!CloseRequest, Wifi!ClosedAll, Wifi!CloseRequests,
         Wifi!PumpOpen, Wifi!available, Wifi!connected, Wifi!AfterRecv,
         Wifi!RecvRequest, Wifi!Fresh, Wifi!FreeFrom, Wifi!StartConnect, Wifi!Held,
         Wifi!ConnectReturns, Wifi!PumpStuck, Wifi!TimedOut, Wifi!ConnectTimeout,
         Wifi!Consumed, Wifi!Read, Wifi!Flushed, Wifi!Stopped, Wifi!Stop,
         Door!Goto, Door!From, Door!scene, Door!counter, Door!values, Door!wifi,
         Door!Connect, Door!ConnectOk, Door!ConnectFailed, Door!NameUnknown,
         Door!ReadByte, Door!StopClient, Door!ReadLine, Door!Flushed,
         Door!Flushing, Door!StopAfterFlush, Door!NO_ECHO, Door!Nobody,
         Door!Surface, Door!getDistance, Door!Looked, Door!Counter, Door!Ping,
         Door!Wifi!Sockets, Door!Wifi!NoSocket, Door!Wifi!Sessions,
         Door!Wifi!Places, Door!Wifi!NoByte, Door!Wifi!NoXfer,
         Door!Wifi!ClosedSocket, Door!Wifi!NewClient, Door!Wifi!Cardinality,
         Door!Wifi!Closed, Door!Wifi!CloseRequest, Door!Wifi!ClosedAll,
         Door!Wifi!CloseRequests, Door!Wifi!PumpOpen, Door!Wifi!available,
         Door!Wifi!connected, Door!Wifi!AfterRecv, Door!Wifi!RecvRequest,
         Door!Wifi!Fresh, Door!Wifi!FreeFrom, Door!Wifi!StartConnect,
         Door!Wifi!Held, Door!Wifi!ConnectReturns, Door!Wifi!PumpStuck,
         Door!Wifi!TimedOut, Door!Wifi!ConnectTimeout, Door!Wifi!Consumed,
         Door!Wifi!Read, Door!Wifi!Flushed, Door!Wifi!Stopped, Door!Wifi!Stop

LEMMA SameBox ==
    /\ Box!Connect <=> Connect
    /\ \A next : /\ Box!ConnectOk(next) <=> ConnectOk(next)
                 /\ Box!ConnectFailed(next) <=> ConnectFailed(next)
                 /\ Box!NameUnknown(next) <=> NameUnknown(next)
    /\ \A point, next : Box!ReadByte(point, next) <=> ReadByte(point, next)
    /\ Box!ReadLine <=> ReadLine
    /\ Box!Flushing <=> Flushing
    /\ Box!StopAfterFlush <=> StopAfterFlush
    /\ Box!StopClient <=> StopClient
    /\ Box!Wifi!connected(client) <=> Wifi!connected(client)
    /\ Box!Wifi!Reset <=> Wifi!Reset
  BY DEF Goto, From, scene, counter, values, wifi, Connect, ConnectOk,
         ConnectFailed, NameUnknown, ReadByte, StopClient, ReadLine, Flushed,
         Flushing, StopAfterFlush,
         Wifi!Sockets, Wifi!NoSocket, Wifi!Sessions, Wifi!Places, Wifi!NoByte,
         Wifi!NoXfer, Wifi!ClosedSocket, Wifi!NewClient, Wifi!Cardinality,
         Wifi!Closed, Wifi!CloseRequest, Wifi!ClosedAll, Wifi!CloseRequests,
         Wifi!PumpOpen, Wifi!available, Wifi!connected, Wifi!AfterRecv,
         Wifi!RecvRequest, Wifi!Fresh, Wifi!FreeFrom, Wifi!StartConnect, Wifi!Held,
         Wifi!ConnectReturns, Wifi!PumpStuck, Wifi!TimedOut, Wifi!ConnectTimeout,
         Wifi!Consumed, Wifi!Read, Wifi!Flushed, Wifi!Stopped, Wifi!Stop,
         Wifi!Joined, Wifi!NoConnection, Wifi!Reset,
         Box!Goto, Box!From, Box!scene, Box!counter, Box!values, Box!wifi,
         Box!Connect, Box!ConnectOk, Box!ConnectFailed, Box!NameUnknown,
         Box!ReadByte, Box!StopClient, Box!ReadLine, Box!Flushed, Box!Flushing,
         Box!StopAfterFlush,
         Box!Wifi!Sockets, Box!Wifi!NoSocket, Box!Wifi!Sessions, Box!Wifi!Places,
         Box!Wifi!NoByte, Box!Wifi!NoXfer, Box!Wifi!ClosedSocket,
         Box!Wifi!NewClient, Box!Wifi!Cardinality, Box!Wifi!Closed,
         Box!Wifi!CloseRequest, Box!Wifi!ClosedAll, Box!Wifi!CloseRequests,
         Box!Wifi!PumpOpen, Box!Wifi!available, Box!Wifi!connected,
         Box!Wifi!AfterRecv, Box!Wifi!RecvRequest, Box!Wifi!Fresh,
         Box!Wifi!FreeFrom, Box!Wifi!StartConnect, Box!Wifi!Held,
         Box!Wifi!ConnectReturns, Box!Wifi!PumpStuck, Box!Wifi!TimedOut,
         Box!Wifi!ConnectTimeout, Box!Wifi!Consumed, Box!Wifi!Read,
         Box!Wifi!Flushed, Box!Wifi!Stopped, Box!Wifi!Stop, Box!Wifi!Joined,
         Box!Wifi!NoConnection, Box!Wifi!Reset

----------------------------------------------------------------------------
(* What a sketch does with the library, at each point *)

\* The firmware answers a connect request in time, and no paused transfer is
\* cut: the client is flushed, as by every sketch, or no reply is cut up.
Prompt == ~SlowConnect /\ (FlushFirst \/ \A n \in Segments : n <= MTU)

\* Points where the client may be connected, and connect() does not wait.
Serving == Calling \ {"connecting"}

ClientStep ==
    \/ UNCHANGED wifi /\ pc # "connecting" /\ pc' \in Points \ {"connecting"}
         /\ (pc \in Calling => pc' \in Calling)
    \/ pc = "post" /\ pc' = "connecting" /\ Wifi!StartConnect(client)
    \/ pc = "post" /\ pc' = "post" /\ Wifi!connected(client) /\ StopClient
    \/ pc = "connecting" /\ pc' \in Serving /\ Wifi!ConnectReturns
    \/ pc = "connecting" /\ pc' \in Serving \union {"restart"} /\ Wifi!ConnectTimeout
    \/ pc \in Serving /\ pc' \in Serving /\ Wifi!Read(client)
    \/ pc \in Serving /\ pc' \in Points \ Calling /\ StopClient
         /\ (Flushed \/ ~Wifi!connected(client))
    \/ pc = "restart" /\ pc' = "setup" /\ Wifi!Reset

LEMMA ElevatorClient == ASSUME pc \in Points, Elevator!Next PROVE ClientStep
<1> USE DEF ClientStep, Points, Calling, Serving, Goto, From
<1>1. CASE Elevator!Setup \/ Elevator!Count \/ Elevator!CountingOver
  BY <1>1, SameElevator DEF Elevator!Setup, Elevator!Count, Elevator!CountingOver,
                            Elevator!From, Elevator!Goto, Elevator!wifi, Ping, wifi
<1>2. CASE Connect \/ NameUnknown("waiting")
  BY <1>2 DEF Connect, NameUnknown
<1>3. CASE ConnectOk("waiting") \/ ConnectFailed("waiting")
  BY <1>3 DEF ConnectOk, ConnectFailed
<1>4. CASE ReadByte("waiting", "waiting")
  BY <1>4 DEF ReadByte
<1>5. CASE Elevator!Disconnect
  BY <1>5, SameElevator DEF Elevator!Disconnect, Elevator!ResponseOver, Elevator!Goto
<1>6. QED
  BY <1>1, <1>2, <1>3, <1>4, <1>5, SameElevator DEF Elevator!Next

LEMMA ReadLineClient ==
    ASSUME ReadLine \/ Flushing PROVE ClientStep
  BY DEF ReadLine, Flushing, ReadByte, From, Goto, ClientStep, Points, Calling, Serving

LEMMA DoorClient == ASSUME pc \in Points, Door!Next PROVE ClientStep
<1> USE DEF ClientStep, Points, Calling, Serving, Goto, From
<1>1. CASE Door!Setup \/ Door!Count \/ Door!CountingOver
  BY <1>1, SameDoor DEF Door!Setup, Door!Count, Door!CountingOver,
                        Door!From, Door!Goto, Door!wifi, Ping, wifi
<1>2. CASE Connect \/ NameUnknown("reading")
  BY <1>2 DEF Connect, NameUnknown
<1>3. CASE ConnectOk("reading") \/ ConnectFailed("reading")
  BY <1>3 DEF ConnectOk, ConnectFailed
<1>4. CASE Door!Disconnect
  BY <1>4, SameDoor DEF Door!Disconnect, Door!Goto, StopAfterFlush
<1>5. QED
  BY <1>1, <1>2, <1>3, <1>4, SameDoor, ReadLineClient DEF Door!Next

LEMMA BoxClient == ASSUME pc \in Points, Box!Next PROVE ClientStep
<1> USE DEF ClientStep, Points, Calling, Serving, Goto, From
<1>1. CASE Box!Setup \/ Box!AddValue
  BY <1>1 DEF Box!Setup, Box!AddValue, Box!From, Box!Goto, Box!wifi, wifi
<1>2. CASE Box!Submit
  <2>1. CASE Wifi!connected(client)
    BY <1>2, <2>1, SameBox DEF Box!Submit, Box!From, Box!Goto
  <2>2. CASE ~Wifi!connected(client)
    BY <1>2, <2>2, SameBox DEF Box!Submit, Connect
  <2>3. QED
    BY <2>1, <2>2
<1>3. CASE ConnectOk("reading") \/ ConnectFailed("restart")
  BY <1>3 DEF ConnectOk, ConnectFailed
<1>4. CASE Box!Restart
  BY <1>4, SameBox DEF Box!Restart, Box!From, Box!Goto
<1>5. CASE Box!Disconnect
  BY <1>5, SameBox DEF Box!Disconnect, Box!Goto, StopAfterFlush
<1>6. QED
  BY <1>1, <1>2, <1>3, <1>4, <1>5, SameBox, ReadLineClient DEF Box!Next

----------------------------------------------------------------------------
(* The discipline *)

LEMMA BaseFacts ==
    ASSUME Lib!Base(client)
    PROVE  /\ client # NoClient /\ Wifi!NoSocket \notin Wifi!Sockets
           /\ cl[client].socket \in Wifi!Sockets \union {Wifi!NoSocket}
           /\ cl[client].socket = Wifi!NoSocket => ~Wifi!connected(client)
           /\ ~Wifi!connected(client) => Wifi!Flushed(client)
<1> USE DEF Wifi!NoSocket, Lib!NoSocket, Wifi!Sockets, Lib!Sockets
<1>1. client # NoClient
  BY LibraryAssumption DEF Wifi!WifiAssumption
<1>2. Wifi!NoSocket \notin Wifi!Sockets
  BY SameAssumption, Lib!Ranges
<1>3. /\ cl \in [{client} -> Lib!Client]
      /\ cl[client].connected =>
           cl[client].socket \in Lib!Sockets /\ sk[cl[client].socket].used
      /\ cl[client].tail < cl[client].head
           \/ (cl[client].head = 0 /\ cl[client].tail = 0)
      /\ xfer # Lib!NoXfer => cl[client].connected
  BY DEF Lib!Base, Lib!Types, Lib!SocketInv, Lib!Open
<1>4. cl[client] \in Lib!Client
  BY <1>3
<1>5. /\ cl[client].socket \in Lib!Sockets \union {Lib!NoSocket}
      /\ cl[client].head \in Nat /\ cl[client].tail \in Nat
      /\ cl[client].connected \in BOOLEAN
  BY SameAssumption, <1>4, Lib!Ranges DEF Lib!Client
<1>6. cl[client].socket = Wifi!NoSocket => ~Wifi!connected(client)
  BY <1>2, <1>3 DEF Wifi!connected, Wifi!available
<1>7. ~Wifi!connected(client) => Wifi!Flushed(client)
  BY <1>3, <1>5 DEF Wifi!connected, Wifi!available, Wifi!Flushed, Wifi!NoXfer, Lib!NoXfer
<1>8. QED
  BY <1>1, <1>2, <1>5, <1>6, <1>7

\* stop() leaves the client without a socket, and connect() not waiting.
LEMMA StopDoes ==
    ASSUME Lib!Base(client), StopClient, calling = NoClient,
           Wifi!Flushed(client)
    PROVE  /\ Wifi!Next \/ UNCHANGED wifi
           /\ cl'[client].socket = Wifi!NoSocket /\ calling' = calling
<1>1. CASE cl[client].socket = Wifi!NoSocket
  BY <1>1 DEF StopClient, wifi
<1>2. CASE cl[client].socket # Wifi!NoSocket
  <2>1. Wifi!Stop(client)
    BY <1>2 DEF StopClient
  <2>2. Wifi!Next
    BY <2>1 DEF Wifi!Next, Wifi!Calls
  <2>3. cl[client] \in Lib!Client
    BY DEF Lib!Base, Lib!Types
  <2>4. cl'[client] = [cl[client] EXCEPT !.socket = Wifi!NoSocket, !.connected = FALSE,
                                         !.full = FALSE]
    BY <2>1 DEF Wifi!Stop, Wifi!Stopped
  <2>5. cl'[client].socket = Wifi!NoSocket
    BY <2>3, <2>4 DEF Lib!Client
  <2>6. QED
    BY <2>1, <2>2, <2>5 DEF Wifi!Stop
<1>3. QED
  BY <1>1, <1>2

\* A step of a sketch is one of a sketch that keeps to the discipline.
LEMMA ClientStepKeeps ==
    ASSUME Lib!Base(client), ClientInv, pc \in Points, ClientStep
    PROVE  /\ Wifi!Next \/ UNCHANGED wifi
           /\ ClientInv'
<1> USE BaseFacts DEF ClientInv, Points, Calling, Serving
<1>1. CASE /\ UNCHANGED wifi /\ pc # "connecting" /\ pc' \in Points \ {"connecting"}
           /\ pc \in Calling => pc' \in Calling
  BY <1>1 DEF wifi
<1>2. CASE pc = "post" /\ pc' = "connecting" /\ Wifi!StartConnect(client)
  <2>1. Wifi!Next
    BY <1>2 DEF Wifi!Next, Wifi!Calls
  <2>2. QED
    BY <1>2, <2>1 DEF Wifi!StartConnect
<1>3. CASE pc = "post" /\ pc' = "post" /\ Wifi!connected(client) /\ StopClient
  BY <1>3
<1>4. CASE pc = "connecting" /\ pc' \in Serving /\ Wifi!ConnectReturns
  <2>1. Wifi!Next
    BY <1>4 DEF Wifi!Next, Wifi!Connecting
  <2>2. QED
    BY <1>4, <2>1 DEF Wifi!ConnectReturns
<1>5. CASE pc = "connecting" /\ pc' \in Serving \union {"restart"} /\ Wifi!ConnectTimeout
  <2>1. Wifi!Next
    BY <1>5 DEF Wifi!Next, Wifi!Connecting
  <2>2. calling = client /\ calling' = NoClient
    BY <1>5 DEF Wifi!ConnectTimeout
  <2>3. cl[client] \in Lib!Client /\ cl \in [{client} -> Lib!Client]
    BY DEF Lib!Base, Lib!Types
  <2>4. cl'[client].socket = Wifi!NoSocket
    BY <1>5, <2>2, <2>3 DEF Wifi!ConnectTimeout, Lib!Client
  <2>5. QED
    BY <1>5, <2>1, <2>2, <2>4
<1>6. CASE pc \in Serving /\ pc' \in Serving /\ Wifi!Read(client)
  <2>1. Wifi!Next
    BY <1>6 DEF Wifi!Next, Wifi!Calls
  <2>2. QED
    BY <1>6, <2>1 DEF Wifi!Read
<1>7. CASE /\ pc \in Serving /\ pc' \in Points \ Calling /\ StopClient
           /\ Flushed \/ ~Wifi!connected(client)
  BY <1>7, StopDoes DEF Flushed
<1>8. CASE pc = "restart" /\ pc' = "setup" /\ Wifi!Reset
  <2>1. Wifi!Next
    BY <1>8 DEF Wifi!Next
  <2>2. cl'[client].socket = Wifi!NoSocket /\ calling' = NoClient
    BY <1>8 DEF Wifi!Reset, Wifi!NewClient
  <2>3. QED
    BY <1>8, <2>1, <2>2
<1>9. QED
  BY <1>1, <1>2, <1>3, <1>4, <1>5, <1>6, <1>7, <1>8 DEF ClientStep

----------------------------------------------------------------------------
(* The values and their places *)

\* Steps that wait for the response leave the values where they are.
LEMMA ReadLineValues ==
    ASSUME ReadLine \/ Flushing
    PROVE  /\ pc \in {"reading", "flushing"} /\ pc' \in {"reading", "flushing"}
           /\ UNCHANGED <<sketch, value, sensorsIndex>>
  BY DEF ReadLine, Flushing, ReadByte, From, Goto, values

LEMMA ElevatorValues == ASSUME sketch = "elevator", ValuesInv, Elevator!Next PROVE ValuesInv'
<1> USE DEF ValuesInv, Points, Goto, From, values, Elevator!Goto, Elevator!From,
            Elevator!values
<1> USE PostAssumption DEF PostAssumption
<1>1. CASE Elevator!Setup \/ Elevator!Count \/ Elevator!CountingOver
  BY <1>1, SameElevator DEF Elevator!Setup, Elevator!Count, Elevator!CountingOver, Ping
<1>2. CASE Connect \/ NameUnknown("waiting")
  BY <1>2 DEF Connect, NameUnknown
<1>3. CASE ConnectOk("waiting") \/ ConnectFailed("waiting") \/ ReadByte("waiting", "waiting")
  BY <1>3 DEF ConnectOk, ConnectFailed, ReadByte
<1>4. CASE Elevator!Disconnect
  BY <1>4 DEF Elevator!Disconnect
<1>5. QED
  BY <1>1, <1>2, <1>3, <1>4, SameElevator DEF Elevator!Next

LEMMA DoorValues == ASSUME sketch = "door", ValuesInv, Door!Next PROVE ValuesInv'
<1> USE DEF ValuesInv, Points, Goto, From, values, Door!Goto, Door!From, Door!values
<1>1. CASE Door!Setup \/ Door!Count \/ Door!CountingOver
  BY <1>1, SameDoor DEF Door!Setup, Door!Count, Door!CountingOver, Ping
<1>2. CASE Connect \/ NameUnknown("reading")
  BY <1>2 DEF Connect, NameUnknown
<1>3. CASE ConnectOk("reading") \/ ConnectFailed("reading")
  BY <1>3 DEF ConnectOk, ConnectFailed
<1>4. CASE Door!Disconnect
  BY <1>4 DEF Door!Disconnect
<1>5. CASE ReadLine \/ Flushing
  BY <1>5, ReadLineValues
<1>6. QED
  BY <1>1, <1>2, <1>3, <1>4, <1>5, SameDoor DEF Door!Next

LEMMA BoxValues == ASSUME sketch = "box", ValuesInv, Box!Next PROVE ValuesInv'
<1> USE DEF ValuesInv, Points, Goto, From, values, Box!Goto, Box!From, Box!values
<1> USE PostsAssumption DEF PostsAssumption
<1>1. CASE Box!Setup \/ Box!AddValue
  BY <1>1 DEF Box!Setup, Box!AddValue
<1>2. CASE Box!Submit
  BY <1>2, SameBox DEF Box!Submit, Connect
<1>3. CASE ConnectOk("reading") \/ ConnectFailed("restart")
  BY <1>3 DEF ConnectOk, ConnectFailed
<1>4. CASE Box!Restart \/ Box!Disconnect
  BY <1>4, SameBox DEF Box!Restart, Box!Disconnect, Box!Emptied, StopAfterFlush
<1>5. CASE ReadLine \/ Flushing
  BY <1>5, ReadLineValues
<1>6. QED
  BY <1>1, <1>2, <1>3, <1>4, <1>5, SameBox DEF Box!Next

LEMMA ValuesKept ==
    ASSUME ValuesInv, UNCHANGED program
    PROVE  ValuesInv'
  BY DEF ValuesInv, program, values

LEMMA ValuesAlways == Spec => []ValuesInv
<1>1. Init => ValuesInv
  BY PostAssumption, PostsAssumption
     DEF Init, ValuesInv, Points, PostAssumption, PostsAssumption
<1>2. ValuesInv /\ [Next]_vars => ValuesInv'
  <2> SUFFICES ASSUME ValuesInv, [Next]_vars PROVE ValuesInv'
    OBVIOUS
  <2>1. CASE Sketch
    BY <2>1, ElevatorValues, DoorValues, BoxValues DEF Sketch
  <2>2. CASE Pumping \/ Firmware \/ People \/ UNCHANGED vars
    BY <2>2, ValuesKept DEF Pumping, Firmware, People, vars
  <2>3. QED
    BY <2>1, <2>2 DEF Next
<1>3. QED
  BY <1>1, <1>2, PTL DEF Spec

\* Whatever happened to the posts before, a restart in the middle of one
\* included, the weather station stores each value at the place of its sensor.
THEOREM PlaceCorrect == Spec => []OwnPlace
<1>1. ValuesInv => OwnPlace
  BY DEF ValuesInv, OwnPlace
<1>2. QED
  BY <1>1, ValuesAlways, PTL

----------------------------------------------------------------------------
(* The library under every step *)

LEMMA LibraryStep ==
    ASSUME Lib!Base(client), ClientInv, ValuesInv, [Next]_vars
    PROVE  /\ Wifi!Next \/ UNCHANGED wifi
           /\ ClientInv'
<1>1. pc \in Points
  BY DEF ValuesInv
<1>2. CASE Sketch
  <2>1. ClientStep
    BY <1>1, <1>2, ElevatorClient, DoorClient, BoxClient DEF Sketch
  <2>2. QED
    BY <1>1, <2>1, ClientStepKeeps
<1>3. CASE Pumping
  <2>1. Wifi!Handling /\ UNCHANGED pc
    BY <1>3 DEF Pumping, program
  <2>2. Wifi!Next
    BY <2>1 DEF Wifi!Next
  <2>3. /\ calling' = calling
        /\ cl'[client].socket = cl[client].socket \/ cl'[client].socket = Lib!NoSocket
    BY <2>1, SameLibrary, SameAssumption, Lib!HandlingHas
  <2>4. QED
    BY <2>1, <2>2, <2>3 DEF ClientInv, Wifi!NoSocket, Lib!NoSocket
<1>4. CASE Firmware
  <2>1. Wifi!Firmware /\ UNCHANGED pc
    BY <1>4 DEF Firmware, program
  <2>2. Wifi!Next
    BY <2>1 DEF Wifi!Next
  <2>3. UNCHANGED <<cl, calling>>
    BY <2>1 DEF Wifi!Firmware, Wifi!FwRequest, Wifi!FwConnects, Wifi!FwData, Wifi!FwEof,
                Wifi!FwReplies, Wifi!host
  <2>4. QED
    BY <2>1, <2>2, <2>3 DEF ClientInv
<1>5. CASE People \/ UNCHANGED vars
  <2>1. UNCHANGED wifi /\ UNCHANGED pc
    BY <1>5 DEF People, vars, program
  <2>2. QED
    BY <2>1 DEF ClientInv, wifi
<1>6. QED
  BY <1>2, <1>3, <1>4, <1>5 DEF Next

LEMMA LibraryAlways ==
    ASSUME Prompt
    PROVE  Spec => [](Lib!Base(client) /\ ClientInv /\ ValuesInv)
<1>1. Lib!Alone(client)
  BY DEF Prompt, Lib!Alone, Lib!Whole
<1>2. Init => Lib!Base(client) /\ ClientInv
  <2> SUFFICES ASSUME Init PROVE Lib!Base(client) /\ ClientInv
    OBVIOUS
  <2>1. Wifi!Init
    BY DEF Init
  <2>2. Lib!Base(client)
    BY <2>1, SameLibrary, SameAssumption, Lib!InitBase
  <2>3. ClientInv
    BY <2>1 DEF Init, ClientInv, Wifi!Init, Wifi!NewClient
  <2>4. QED
    BY <2>2, <2>3
<1>3. Lib!Base(client) /\ ClientInv /\ ValuesInv /\ [Next]_vars
        => Lib!Base(client)' /\ ClientInv'
  <2> SUFFICES ASSUME Lib!Base(client), ClientInv, ValuesInv, [Next]_vars
      PROVE  Lib!Base(client)' /\ ClientInv'
    OBVIOUS
  <2>1. ClientInv' /\ (Lib!Next \/ UNCHANGED wifi)
    BY LibraryStep, SameLibrary
  <2>2. [Lib!Next]_(Lib!vars)
    BY <2>1 DEF wifi, Lib!vars
  <2>3. Lib!Base(client)'
    BY <1>1, <2>2, SameAssumption, Lib!NextKeeps
  <2>4. QED
    BY <2>1, <2>3
<1>4. Spec => []ValuesInv
  BY ValuesAlways
<1>5. QED
  BY <1>2, <1>3, <1>4, PTL DEF Spec

\* Every sketch, in every interleaving with the firmware, takes the steps of
\* WifiClient: it connects a client that is not connected, and stops one that
\* has been flushed.
THEOREM DisciplineKept ==
    ASSUME Prompt
    PROVE  Spec => KeepsDiscipline
<1>1. Init => Wifi!Init
  BY DEF Init
<1>2. Lib!Base(client) /\ ClientInv /\ ValuesInv /\ [Next]_vars => [Wifi!Next]_(Wifi!vars)
  BY LibraryStep DEF wifi, Wifi!vars
<1>3. Spec => [](Lib!Base(client) /\ ClientInv /\ ValuesInv)
  BY LibraryAlways
<1>4. QED
  BY <1>1, <1>2, <1>3, PTL DEF Spec, KeepsDiscipline, Wifi!Spec

\* However the posts before went, a socket is free when the sketch connects.
THEOREM SocketCorrect ==
    ASSUME Prompt
    PROVE  Spec => []SocketFree
<1>1. Lib!Base(client) /\ ClientInv => SocketFree
  <2> SUFFICES ASSUME Lib!Base(client), ClientInv, pc = "post"
      PROVE  \E s \in Wifi!Sockets : ~sk[s].used
    BY DEF SocketFree
  <2>1. cl[client].socket = Wifi!NoSocket
    BY DEF ClientInv, Calling
  <2>2. \A s \in Wifi!Sockets : sk[s].used => s = cl[client].socket
    BY DEF Lib!Base, Lib!SocketInv, Wifi!Sockets, Lib!Sockets
  <2>3. 0 \in Wifi!Sockets
    BY SameAssumption, Lib!Ranges DEF Wifi!Sockets, Lib!Sockets
  <2>4. QED
    BY <2>1, <2>2, <2>3, BaseFacts
<1>2. Spec => [](Lib!Base(client) /\ ClientInv /\ ValuesInv)
  BY LibraryAlways
<1>3. QED
  BY <1>1, <1>2, PTL

\* What WifiClient_proofs shows of a single client holds of the sketches'.
LEMMA LibraryPromises ==
    ASSUME Prompt
    PROVE  Spec => [](Wifi!OneRecv /\ Wifi!PumpAlive /\ Wifi!TypeOK)
<1>1. Lib!Alone(client)
  BY DEF Prompt, Lib!Alone, Lib!Whole
<1>2. Lib!Spec => []Lib!OneRecv
  BY <1>1, SameAssumption, Lib!RecvCorrect
<1>3. Lib!Spec => []Lib!PumpAlive
  BY <1>1, SameAssumption, Lib!PumpCorrect
<1>4. Lib!Spec => []Lib!TypeOK
  BY <1>1, SameAssumption, Lib!TypeCorrect
<1>5. /\ Wifi!OneRecv <=> Lib!OneRecv
      /\ Wifi!PumpAlive <=> Lib!PumpAlive
      /\ Wifi!TypeOK <=> Lib!TypeOK
  BY SameLibrary
<1>6. Spec => Lib!Spec
  <2>1. Init => Lib!Init
    BY SameLibrary DEF Init
  <2>2. Lib!Base(client) /\ ClientInv /\ ValuesInv /\ [Next]_vars => [Lib!Next]_(Lib!vars)
    BY LibraryStep, SameLibrary DEF wifi, Lib!vars
  <2>3. Spec => [](Lib!Base(client) /\ ClientInv /\ ValuesInv)
    BY LibraryAlways
  <2>4. QED
    BY <2>1, <2>2, <2>3, PTL DEF Spec, Lib!Spec
<1>7. QED
  BY <1>2, <1>3, <1>4, <1>5, <1>6, PTL

\* One receive request of the sketch's connection is under way while its socket
\* says so, and none while it does not, at every point of every sketch.
THEOREM RecvCorrect ==
    ASSUME Prompt
    PROVE  Spec => []OneRecv
<1>1. Spec => [](Wifi!OneRecv /\ Wifi!PumpAlive /\ Wifi!TypeOK)
  BY LibraryPromises
<1>2. QED
  BY <1>1, PTL DEF OneRecv

\* No sketch leaves a paused transfer behind whose socket is closed.
THEOREM PumpCorrect ==
    ASSUME Prompt
    PROVE  Spec => []PumpAlive
<1>1. Spec => [](Wifi!OneRecv /\ Wifi!PumpAlive /\ Wifi!TypeOK)
  BY LibraryPromises
<1>2. QED
  BY <1>1, PTL DEF PumpAlive

----------------------------------------------------------------------------
(* The counter *)

\* The steps that concern the counter, out of those of a sketch.
CounterStep ==
    \/ sketch # "box" /\ pc = "count" /\ Ping(Threshold) /\ postingInterval < PINGS
    \/ /\ sketch = "elevator" /\ pc = "setup" /\ pc' # "setup"
       /\ dist_mur' \in {Surface, NO_ECHO}
       /\ UNCHANGED <<scene, sketch, nb_people, state, postingInterval>>
    \/ /\ sketch = "elevator" => pc' # "setup"
       /\ postingInterval' \in {postingInterval, 0, 1}
       /\ UNCHANGED <<scene, sketch, nb_people, state, dist_mur>>

LEMMA ElevatorCounter ==
    ASSUME sketch = "elevator", Elevator!Next
    PROVE  CounterStep
<1> USE DEF CounterStep, Goto, From, Elevator!Goto, Elevator!From, scene, counter,
            Elevator!scene, Elevator!counter
<1>1. CASE Elevator!Setup
  BY <1>1 DEF Elevator!Setup, Elevator!getDistance, Elevator!Surface, Surface,
              Elevator!NO_ECHO, NO_ECHO, Elevator!Nobody, Nobody
<1>2. CASE Elevator!Count
  BY <1>2, SameElevator, PostAssumption
     DEF Elevator!Count, Elevator!Counting, Threshold, PostAssumption
<1>3. CASE Elevator!CountingOver
  BY <1>3 DEF Elevator!CountingOver
<1>4. CASE Connect \/ NameUnknown("waiting")
  BY <1>4 DEF Connect, NameUnknown
<1>5. CASE ConnectOk("waiting") \/ ConnectFailed("waiting") \/ ReadByte("waiting", "waiting")
  BY <1>5 DEF ConnectOk, ConnectFailed, ReadByte
<1>6. CASE Elevator!Disconnect
  BY <1>6 DEF Elevator!Disconnect
<1>7. QED
  BY <1>1, <1>2, <1>3, <1>4, <1>5, <1>6, SameElevator DEF Elevator!Next

LEMMA DoorCounter ==
    ASSUME sketch = "door", Door!Next
    PROVE  CounterStep
<1> USE DEF CounterStep, Goto, From, Door!Goto, Door!From, scene, counter,
            Door!scene, Door!counter
<1>1. CASE Door!Count
  BY <1>1, SameDoor DEF Door!Count, Threshold
<1>2. CASE Door!Setup \/ Door!CountingOver
  BY <1>2 DEF Door!Setup, Door!CountingOver
<1>3. CASE Connect \/ NameUnknown("reading")
  BY <1>3 DEF Connect, NameUnknown
<1>4. CASE ConnectOk("reading") \/ ConnectFailed("reading") \/ ReadLine \/ Flushing
  BY <1>4 DEF ConnectOk, ConnectFailed, ReadLine, Flushing, ReadByte
<1>5. CASE Door!Disconnect
  BY <1>5 DEF Door!Disconnect
<1>6. QED
  BY <1>1, <1>2, <1>3, <1>4, <1>5, SameDoor DEF Door!Next

\* The weather station counts nobody.
LEMMA BoxCounter ==
    ASSUME sketch = "box", Box!Next
    PROVE  CounterStep
<1> USE DEF CounterStep, Goto, From, Box!Goto, Box!From, scene, counter,
            Box!scene, Box!counter
<1>1. CASE Box!Setup \/ Box!AddValue \/ Box!Disconnect \/ Box!Restart
  BY <1>1 DEF Box!Setup, Box!AddValue, Box!Disconnect, Box!Restart
<1>2. CASE Box!Submit
  BY <1>2, SameBox DEF Box!Submit, Connect
<1>3. CASE ConnectOk("reading") \/ ConnectFailed("restart") \/ ReadLine \/ Flushing
  BY <1>3 DEF ConnectOk, ConnectFailed, ReadLine, Flushing, ReadByte
<1>4. QED
  BY <1>1, <1>2, <1>3, SameBox DEF Box!Next

\* Every step of a sketch is one of these, and everything else but People
\* leaves the counter and the scene alone.
LEMMA CounterSteps ==
    ASSUME ValuesInv, [Next]_vars
    PROVE  CounterStep \/ People \/ UNCHANGED <<scene, program>>
<1>1. CASE Sketch
  BY <1>1, ElevatorCounter, DoorCounter, BoxCounter DEF Sketch
<1>2. CASE Pumping \/ Firmware \/ UNCHANGED vars
  BY <1>2 DEF Pumping, Firmware, vars
<1>3. QED
  BY <1>1, <1>2 DEF Next
\* Without a lost ping the one distance that is read tells whether somebody is
\* in front of the sensor.
LEMMA DistanceTellsTruth ==
    ASSUME Site, DebtInv, NEW d \in getDistance
    PROVE  d < Threshold <=> InFront(body, Threshold)
<1>1. Threshold \in Int
  BY PostsAssumption DEF Threshold, Elevator!Threshold, DebtInv, PostsAssumption
<1>2. d = Surface /\ Surface \in Nat
  BY SceneAssumption
     DEF Site, getDistance, DebtInv, SceneTypeOK, Surface, Nobody, SceneAssumption
<1>3. QED
  BY <1>1, <1>2, SceneAssumption
     DEF DebtInv, SceneTypeOK, Surface, InFront, Nobody, SceneAssumption

\* What a step of the sketch's counter and of the people makes of the debt, and
\* of the two numbers PassageCount tells of.
Counted ==
    /\ nb_people < FIRST + passages
    /\ nb_people' = nb_people + 1 /\ UNCHANGED passages

LEMMA PingPays ==
    ASSUME Site, DebtInv, pc = "count", Ping(Threshold)
    PROVE  DebtInv' /\ (UNCHANGED <<nb_people, passages>> \/ Counted)
<1>1. PICK d \in getDistance : Counter(d, Threshold)
  BY DEF Ping
<1>2. d < Threshold <=> InFront(body, Threshold)
  BY DistanceTellsTruth
<1>3. Threshold \in Int /\ d \in Int
  BY PostsAssumption, SceneAssumption
     DEF Threshold, Elevator!Threshold, DebtInv, PostsAssumption, SceneTypeOK,
         getDistance, Surface, Nobody, SceneAssumption, NO_ECHO
<1>4. SceneTypeOK' /\ UNCHANGED <<body, passages>>
  BY LookedType DEF Ping, Looked, DebtInv
<1>5. UNCHANGED <<sketch, pc, dist_mur>> /\ Threshold' = Threshold
  BY DEF Ping, Threshold, Elevator!Threshold
<1>6. /\ nb_people' \in Nat /\ FIRST <= nb_people' /\ state' \in {0, 1}
      /\ nb_people' - FIRST + state' <=
           passages + (IF state' = 1 /\ InFront(body, Threshold) THEN 1 ELSE 0)
      /\ UNCHANGED <<nb_people, passages>> \/ Counted
  <2> USE PostAssumption DEF DebtInv, SceneTypeOK, Counted, PostAssumption
  <2>1. CASE state = 0 /\ d < Threshold /\ state' = 1 /\ UNCHANGED nb_people
    BY <1>2, <1>4, <2>1
  <2>2. CASE /\ state = 1 /\ d >= Threshold /\ state' = 0
             /\ nb_people' = nb_people + 1
    BY <1>2, <1>3, <1>4, <2>2
  <2>3. CASE UNCHANGED <<state, nb_people>>
    BY <1>4, <2>3
  <2>4. QED
    BY <1>1, <2>1, <2>2, <2>3 DEF Counter
<1>7. QED
  BY <1>4, <1>5, <1>6 DEF DebtInv, InFront
LEMMA SetupPays ==
    ASSUME Site, DebtInv, sketch = "elevator", pc = "setup", pc' # "setup",
           dist_mur' \in {Surface, NO_ECHO}, UNCHANGED <<scene, sketch, nb_people, state>>
    PROVE  DebtInv'
<1>1. SceneTypeOK' /\ UNCHANGED <<body, passages>>
  BY DEF DebtInv, SceneTypeOK, scene
<1>2. dist_mur' \in Nat /\ dist_mur' - MARGIN <= Wall
  <2> USE PostsAssumption, SceneAssumption DEF PostsAssumption, SceneAssumption
  <2>1. CASE dist_mur' = NO_ECHO \/ dist_mur' = Wall
    BY <2>1 DEF NO_ECHO
  <2>2. CASE dist_mur' = body /\ body \in Bodies
    BY <2>2 DEF Site
  <2>3. QED
    BY <2>1, <2>2 DEF DebtInv, SceneTypeOK, Surface, Nobody
<1>3. state' = 0 /\ nb_people' - FIRST <= passages
  BY PostAssumption DEF DebtInv, SceneTypeOK, PostAssumption
<1>4. QED
  BY <1>1, <1>2, <1>3 DEF DebtInv, Threshold, Elevator!Threshold

\* A debt of one more than the passages is kept when the person it is owed to
\* stays in front of the sensor, or passes.
LEMMA DebtCarried ==
    ASSUME NEW debt \in Int, NEW before \in Nat, NEW after \in {before, before + 1},
           NEW seen \in {0, 1}, NEW inView \in {0, 1},
           debt <= before + seen, seen <= inView \/ after = before + 1
    PROVE  debt <= after + inView
  OBVIOUS

LEMMA PeoplePay ==
    ASSUME DebtInv, People
    PROVE  /\ DebtInv'
           /\ passages' \in {passages, passages + 1} /\ UNCHANGED nb_people
<1>1. PICK b \in Bodies \union {Nobody} : Move(b, Threshold)
  BY DEF People
<1>2. SceneTypeOK'
  BY <1>1, MoveType DEF DebtInv
<1>3. UNCHANGED <<sketch, pc, nb_people, state, dist_mur>> /\ Threshold' = Threshold
  BY DEF People, program, counter, Threshold, Elevator!Threshold
<1>4. /\ passages' \in {passages, passages + 1}
      /\ state = 1 /\ InFront(body, Threshold) /\ ~InFront(body', Threshold)
           => passages' = passages + 1
  BY <1>1 DEF Move
<1>5. nb_people - FIRST + state <=
        passages' + (IF state = 1 /\ InFront(body', Threshold) THEN 1 ELSE 0)
  <2> DEFINE debt   == nb_people - FIRST + state
             seen   == IF state = 1 /\ InFront(body, Threshold) THEN 1 ELSE 0
             inView == IF state = 1 /\ InFront(body', Threshold) THEN 1 ELSE 0
  <2>1. /\ passages \in Nat /\ passages' \in {passages, passages + 1}
        /\ debt \in Int /\ debt <= passages + seen
    BY <1>4, PostAssumption DEF DebtInv, SceneTypeOK, PostAssumption
  <2>2. seen \in {0, 1} /\ inView \in {0, 1}
    OBVIOUS
  <2>3. seen <= inView \/ passages' = passages + 1
    BY <1>4
  <2> HIDE DEF debt, seen, inView
  <2>4. debt <= passages' + inView
    BY <2>1, <2>2, <2>3, DebtCarried
  <2>5. QED
    BY <2>4 DEF debt, inView
<1>6. QED
  BY <1>2, <1>3, <1>4, <1>5 DEF DebtInv, InFront

\* Every step, of any sketch and of everything around it, keeps the debt and is
\* a step of PassageCount or none.
LEMMA DebtStep ==
    ASSUME Site, DebtInv, ValuesInv, [Next]_vars
    PROVE  DebtInv' /\ [Promise!Next]_(Promise!vars)
<1> USE DEF Promise!Next, Promise!Pass, Promise!Count, Promise!vars
<1>1. CASE pc = "count" /\ Ping(Threshold)
  <2>1. DebtInv' /\ (UNCHANGED <<nb_people, passages>> \/ Counted)
    BY <1>1, PingPays
  <2>2. Counted => Promise!Count
    BY PostAssumption DEF Counted, DebtInv, SceneTypeOK, PostAssumption
  <2>3. QED
    BY <2>1, <2>2
<1>2. CASE People
  <2>1. /\ DebtInv'
        /\ passages' \in {passages, passages + 1} /\ UNCHANGED nb_people
    BY <1>2, PeoplePay
  <2>2. QED
    BY <2>1
<1>3. CASE /\ sketch = "elevator" /\ pc = "setup" /\ pc' # "setup"
           /\ dist_mur' \in {Surface, NO_ECHO}
           /\ UNCHANGED <<scene, sketch, nb_people, state, postingInterval>>
  <2>1. DebtInv'
    BY <1>3, SetupPays
  <2>2. QED
    BY <1>3, <2>1 DEF scene
<1>4. CASE /\ sketch = "elevator" => pc' # "setup"
           /\ UNCHANGED <<scene, sketch, nb_people, state, dist_mur>>
  BY <1>4 DEF DebtInv, SceneTypeOK, scene, Threshold, Elevator!Threshold, InFront
<1>5. CASE UNCHANGED <<scene, program>>
  BY <1>5 DEF DebtInv, SceneTypeOK, scene, program, counter, Threshold, Elevator!Threshold,
              InFront
<1>6. QED
  BY <1>1, <1>2, <1>3, <1>4, <1>5, CounterSteps DEF CounterStep

LEMMA DebtAlways ==
    ASSUME Site
    PROVE  Spec => [](DebtInv /\ ValuesInv)
<1>1. Init => DebtInv
  <2> SUFFICES ASSUME Init PROVE DebtInv
    OBVIOUS
  <2>1. SceneTypeOK /\ passages = 0
    BY SceneInitType DEF Init, SceneInit
  <2>2. nb_people = FIRST /\ state = 0 /\ dist_mur = 0 /\ Threshold <= Wall
    BY PostsAssumption, SceneAssumption
       DEF Init, Site, Threshold, Elevator!Threshold, PostsAssumption, SceneAssumption
  <2>3. QED
    BY <2>1, <2>2, PostAssumption DEF DebtInv, PostAssumption
<1>2. DebtInv /\ ValuesInv /\ [Next]_vars => DebtInv'
  BY DebtStep
<1>3. QED
  BY <1>1, <1>2, ValuesAlways, PTL DEF Spec

\* The stations that post implement PassageCount but for its promise of progress:
\* whatever happens to the posts, nobody is made up or counted twice.
THEOREM ImplementsPromise ==
    ASSUME Site
    PROVE  Spec => NeverOvercounts
<1>1. Init => Promise!Init
  BY PostAssumption DEF Init, SceneInit, Promise!Init, PostAssumption
<1>2. DebtInv /\ ValuesInv /\ [Next]_vars => [Promise!Next]_(Promise!vars)
  BY DebtStep
<1>3. Spec => [](DebtInv /\ ValuesInv)
  BY DebtAlways
<1>4. QED
  BY <1>1, <1>2, <1>3, PTL DEF Spec, NeverOvercounts, Promise!Safe

IntervalInv == postingInterval \in 0 .. PINGS

\* Every variable of every sketch keeps its type, those of the library with
\* them: the count never exceeds the people who passed, nor the values the
\* arrays they are kept in.
THEOREM TypeCorrect ==
    ASSUME Site, Prompt
    PROVE  Spec => []TypeOK
<1>1. Init => IntervalInv
  BY PostAssumption DEF Init, IntervalInv, PostAssumption
<1>2. /\ IntervalInv /\ ValuesInv /\ [Next]_vars
      => IntervalInv'
  <2> SUFFICES ASSUME IntervalInv, ValuesInv, [Next]_vars
               PROVE  IntervalInv'
    OBVIOUS
  <2>1. postingInterval' \in {postingInterval, 0, 1}
          \/ (postingInterval < PINGS /\ postingInterval' = postingInterval + 1)
    BY CounterSteps DEF CounterStep, Ping, People, program, counter
  <2>2. QED
    BY <2>1, PostAssumption DEF IntervalInv, PostAssumption
<1>3. /\ DebtInv /\ ValuesInv /\ IntervalInv /\ Wifi!TypeOK
      => TypeOK
  <2> SUFFICES ASSUME DebtInv, ValuesInv, IntervalInv, Wifi!TypeOK
               PROVE  TypeOK
    OBVIOUS
  <2>1. nb_people \in FIRST .. FIRST + MaxPassages
    BY PostAssumption, SceneAssumption
       DEF DebtInv, SceneTypeOK, PostAssumption, SceneAssumption
  <2>2. /\ value \in 1 .. IF sketch = "box" THEN NUM_SENSORS ELSE VALUES
        /\ sensorsIndex \in 0 .. NUM_SENSORS
    BY PostAssumption, PostsAssumption DEF ValuesInv, PostAssumption, PostsAssumption
  <2>3. QED
    BY <2>1, <2>2 DEF TypeOK, IntervalInv, DebtInv, ValuesInv, Points
<1>4. Spec => [](DebtInv /\ ValuesInv)
  BY DebtAlways
<1>5. Spec => [](Wifi!OneRecv /\ Wifi!PumpAlive /\ Wifi!TypeOK)
  BY LibraryPromises
<1>6. QED
  BY <1>1, <1>2, <1>3, <1>4, <1>5, PTL DEF Spec

=============================================================================
