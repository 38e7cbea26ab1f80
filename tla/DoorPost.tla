------------------------------ MODULE DoorPost ------------------------------
(***************************************************************************)
(* Complete_codes/Sensebox_code_door: the door station that posts to       *)
(* openSenseMap.  loop() pings for a minute, then posts one value and      *)
(* reads of the response what has come in 100 ms.                          *)
(***************************************************************************)
EXTENDS PostStation

CONSTANTS DOOR   \* 150 cm: closer than this, somebody is in the door

Setup ==
    /\ From("setup", "count")
    /\ UNCHANGED <<scene, counter, values, wifi>>

Count == pc = "count" /\ postingInterval < PINGS /\ Ping(DOOR)

CountingOver ==
    /\ postingInterval >= PINGS
    /\ From("count", "post")
    /\ UNCHANGED <<scene, counter, values, wifi>>

\* The response is over, and loop() begins again.
Disconnect ==
    /\ StopAfterFlush
    /\ Goto("count")
    /\ postingInterval' = 0
    /\ UNCHANGED <<scene, nb_people, state, dist_mur, values>>

\* Whatever connect() returns, the response is waited for.
Next ==
    \/ Setup \/ Count \/ CountingOver
    \/ Connect \/ NameUnknown("reading")
    \/ ConnectOk("reading") \/ ConnectFailed("reading")
    \/ ReadLine \/ Flushing \/ Disconnect
=============================================================================
