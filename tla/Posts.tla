------------------------------- MODULE Posts -------------------------------
(***************************************************************************)
(* A station that posts to openSenseMap, with any of the three sketches,   *)
(* on top of the WiFi101 library and the firmware of the module, while     *)
(* people walk by.                                                         *)
(***************************************************************************)
EXTENDS PostStation

CONSTANTS
    MARGIN, DOOR,  \* the thresholds of the elevator and of the door
    NUM_SENSORS    \* the values of the weather station

ASSUME PostsAssumption ==
    MARGIN \in Nat /\ DOOR \in Nat /\ NUM_SENSORS \in Nat \ {0}

Elevator == INSTANCE ElevatorPost
Door     == INSTANCE DoorPost
Box      == INSTANCE BoxPost

Init ==
    /\ SceneInit
    /\ sketch \in {"elevator", "door", "box"} /\ pc = "setup"
    /\ nb_people = FIRST /\ state = 0
    /\ dist_mur = 0 /\ postingInterval = 0
    /\ value = 1 /\ sensorsIndex = 0
    /\ Wifi!Init

Sketch ==
    \/ sketch = "elevator" /\ Elevator!Next
    \/ sketch = "door" /\ Door!Next
    \/ sketch = "box" /\ Box!Next

Threshold == IF sketch = "elevator" THEN Elevator!Threshold ELSE DOOR

\* Nobody is counted by the weather station.
People ==
    /\ sketch # "box"
    /\ \E b \in Bodies \union {Nobody} : Move(b, Threshold)
    /\ UNCHANGED <<program, wifi>>

Next == Sketch \/ Pumping \/ Firmware \/ People

Spec == Init /\ [][Next]_vars

\* The processor and the firmware do not stop, a request to connect is
\* answered, and the server closes: the request said "Connection: close".
FairSpec ==
    /\ Spec
    /\ WF_vars(Sketch) /\ WF_vars(Pumping)
    /\ WF_vars(Wifi!FwRequest /\ UNCHANGED <<scene, program>>)
    /\ \A x \in Wifi!Sessions :
         /\ WF_vars(Wifi!FwConnects(x) /\ UNCHANGED <<scene, program>>)
         /\ WF_vars(Wifi!FwEof(x) /\ UNCHANGED <<scene, program>>)

----------------------------------------------------------------------------
(* Properties *)

TypeOK ==
    /\ SceneTypeOK
    /\ sketch \in {"elevator", "door", "box"}
    /\ pc \in {"setup", "count", "measure", "post", "connecting", "waiting",
               "reading", "flushing", "restart"}
    /\ nb_people \in FIRST .. FIRST + MaxPassages /\ state \in {0, 1}
    /\ dist_mur \in Nat
    /\ postingInterval \in 0 .. PINGS
    /\ value \in 1 .. IF sketch = "box" THEN NUM_SENSORS ELSE VALUES
    /\ sensorsIndex \in 0 .. NUM_SENSORS
    /\ Wifi!TypeOK

\* People who pass while the values are posted are missed, but none is made up
\* or counted twice: the station keeps the safe half of a counter's promise
\* from the count it starts with.
Promise == INSTANCE PassageCount WITH counted <- nb_people - FIRST
NeverOvercounts == Promise!Safe

\* The sketches keep to the discipline WifiClient is checked under: they
\* connect a client only when it is not connected, and leave no unread data
\* and no paused transfer behind when they stop it.
KeepsDiscipline == Wifi!Spec

\* Posting again and again does not use the sockets up: however the last post
\* went, a socket is free when the sketch connects.
SocketFree == pc = "post" => \E s \in Wifi!Sockets : ~sk[s].used

\* Whatever the sketch has given up reading, one receive request is under way
\* for a socket that waits for one, and none otherwise.
OneRecv == Wifi!OneRecv

\* A sketch that stops its client in the middle of a response does not leave a
\* paused transfer behind, which would keep every later event from it.
PumpAlive == Wifi!PumpAlive

\* The weather station has no name for a value but its place: a value is stored
\* at the place of its sensor, and inside the array, however often posting has
\* failed before.
OwnPlace == sketch = "box" /\ pc = "measure" => sensorsIndex = value - 1

\* Every post ends, whether the connection is refused, times out or brings a
\* response larger than the buffer: the station measures again.
PostEnds ==
    pc \in {"connecting", "waiting", "reading", "flushing", "restart"} ~>
        pc \in {"post", "count", "measure"}
=============================================================================
