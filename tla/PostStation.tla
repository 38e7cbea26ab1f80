---------------------------- MODULE PostStation ----------------------------
(***************************************************************************)
(* What the sketches that post to openSenseMap have in common: the counter *)
(* of people, and the use they make of the WiFi101 library.  Each sketch   *)
(* is the one thread that calls the library: the steps of WifiClient are   *)
(* taken here where the sketch has come to the call that makes them.       *)
(***************************************************************************)
EXTENDS Corridor

CONSTANTS
    client,       \* the WiFiClient of the sketch
    NoClient, SocketMax, MTU, TCP_SIZE, Segments, SlowConnect, FlushFirst,
    StreamLength, MaxSessions, MaxLosses,
    PINGS,        \* pings of a pass of loop(): 100, or 60
    VALUES,       \* values posted by a pass of loop(): 3, or 1
    FIRST         \* the count the sketch starts from: 65, or 129

ASSUME PostAssumption ==
    /\ FIRST \in Nat /\ PINGS \in Nat \ {0} /\ VALUES \in Nat \ {0}

VARIABLES
    sketch,           \* which of the programs the board was given
    pc,               \* where setup() or loop() stands
    nb_people, state, \* the counter, as in the other stations
    dist_mur,         \* the distance setup() measured
    postingInterval,  \* pings since the last posts
    value,            \* which value is being posted, or measured
    sensorsIndex,     \* values waiting to be posted
    cl, sk, reg, holders, nextTcp, sessions, xfer, calling, requests, replies,
    fw, network, got

counter == <<nb_people, state, dist_mur, postingInterval>>
values  == <<value, sensorsIndex>>
wifi    == <<cl, sk, reg, holders, nextTcp, sessions, xfer, calling, requests,
             replies, fw, network, got>>
program == <<sketch, pc, counter, values>>
vars    == <<scene, program, wifi>>

Wifi == INSTANCE WifiClient WITH Clients <- {client}, StopsFirst <- FALSE

ASSUME LibraryAssumption == Wifi!WifiAssumption

Goto(point)       == pc' = point /\ UNCHANGED sketch
From(point, next) == pc = point /\ Goto(next)

\* getDistance(), or the ping of loop(): the pulse of the surface, or 0 when
\* pulseIn() gives up.
getDistance == {Surface} \union (IF EchoLost THEN {NO_ECHO} ELSE {})

\* Variant: the person is counted on the way in.
Counter_OnArrival(d, threshold) ==
    \/ state = 0 /\ d < threshold /\ state' = 1 /\ nb_people' = nb_people + 1
    \/ state = 1 /\ d >= threshold /\ state' = 0 /\ UNCHANGED nb_people
    \/ /\ (state = 1) <=> (d < threshold)
       /\ UNCHANGED <<state, nb_people>>

\* The counter of loop(): the second if sees the state the first one set, and
\* the same distance.
Counter(d, threshold) ==
    \/ state = 0 /\ d < threshold /\ state' = 1 /\ UNCHANGED nb_people
    \/ state = 1 /\ d >= threshold /\ state' = 0 /\ nb_people' = nb_people + 1
    \/ /\ (state = 1) <=> (d < threshold)
       /\ UNCHANGED <<state, nb_people>>

\* A turn of the loop that counts.
Ping(threshold) ==
    /\ \E d \in getDistance : Counter(d, threshold)
    /\ Looked
    /\ postingInterval' = postingInterval + 1
    /\ UNCHANGED <<sketch, pc, dist_mur, values, wifi>>

----------------------------------------------------------------------------
(* Calls of the library *)

\* connect() begins.  A socket is always free for it (SocketFree).
Connect ==
    /\ From("post", "connecting")
    /\ Wifi!StartConnect(client)
    /\ UNCHANGED <<scene, counter, values>>

ConnectOk(next) ==
    /\ From("connecting", next)
    /\ Wifi!ConnectReturns
    /\ UNCHANGED <<scene, counter, values>>

ConnectFailed(next) ==
    /\ From("connecting", next)
    /\ Wifi!ConnectTimeout
    /\ UNCHANGED <<scene, counter, values>>

\* The name of the server is not resolved: connect() opens no socket.
NameUnknown(next) ==
    /\ From("post", next)
    /\ UNCHANGED <<scene, counter, values, wifi>>

\* read() of a byte of the response.
ReadByte(point, next) ==
    /\ From(point, next)
    /\ Wifi!Read(client)
    /\ UNCHANGED <<scene, counter, values>>

\* stop() returns at once when connect() left the client without a socket.
StopClient ==
    IF cl[client].socket = Wifi!NoSocket THEN UNCHANGED wifi
                                         ELSE Wifi!Stop(client)

\* The short wait for a response, of two of the sketches: after 100 ms the
\* response is read as far as it has come, up to the end of its first line.
ReadLine ==
    \/ ReadByte("reading", "reading")
    \/ ReadByte("reading", "flushing")
    \/ /\ Wifi!Flushed(client)
       /\ From("reading", "flushing")
       /\ UNCHANGED <<scene, counter, values, wifi>>

\* Variant: the client is stopped without a flush.
Flushed_Unflushed == TRUE
Flushed == Wifi!Flushed(client)

\* flush() reads what else there is; then the client is stopped.
Flushing == ReadByte("flushing", "flushing")
StopAfterFlush == pc = "flushing" /\ Flushed /\ StopClient

\* Events are handled while connect(), available() or connected() pump.
Pumping ==
    /\ pc \in {"post", "connecting", "waiting", "reading", "flushing"}
    /\ Wifi!Handling
    /\ UNCHANGED <<scene, program>>

Firmware == Wifi!Firmware /\ UNCHANGED <<scene, program>>
=============================================================================
