---------------------------- MODULE ElevatorPost ----------------------------
(***************************************************************************)
(* Complete_codes/Sensebox_code_elevator: the elevator station that posts  *)
(* to openSenseMap.  loop() pings for a while, then posts its values one   *)
(* after the other, each over a connection of its own, and waits for every *)
(* response until the server closes.                                       *)
(***************************************************************************)
EXTENDS PostStation

CONSTANTS MARGIN   \* 40 cm: how far below the measured wall the threshold is

\* The network is joined, and the shaft is measured once, by a ping that may
\* be lost even where those of loop() are not.
Setup ==
    /\ From("setup", "count")
    /\ dist_mur' \in getDistance \union {NO_ECHO}
    /\ UNCHANGED <<scene, nb_people, state, postingInterval, values, wifi>>

Threshold == dist_mur - MARGIN

\* Variant: one ping too many.
Counting_Through == 0 < postingInterval /\ postingInterval <= PINGS

Counting == 0 < postingInterval /\ postingInterval < PINGS

Count == pc = "count" /\ Counting /\ Ping(Threshold)

CountingOver ==
    /\ ~Counting
    /\ From("count", "post")
    /\ UNCHANGED <<scene, counter, values, wifi>>

\* Variant: the client is stopped when nothing has come in, connected or not.
ResponseOver_Quiet == cl[client].head = cl[client].tail

ResponseOver == ~Wifi!connected(client)

Disconnect ==
    /\ pc = "waiting" /\ ResponseOver /\ StopClient
    /\ IF value < VALUES
       THEN value' = value + 1 /\ Goto("post") /\ UNCHANGED postingInterval
       ELSE value' = 1 /\ Goto("count") /\ postingInterval' = 1
    /\ UNCHANGED <<scene, nb_people, state, dist_mur, sensorsIndex>>

\* Whatever connect() returns, the response is waited for.
Next ==
    \/ Setup \/ Count \/ CountingOver
    \/ Connect \/ NameUnknown("waiting")
    \/ ConnectOk("waiting") \/ ConnectFailed("waiting")
    \/ ReadByte("waiting", "waiting") \/ Disconnect
=============================================================================
