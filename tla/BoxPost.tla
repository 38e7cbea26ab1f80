------------------------------ MODULE BoxPost ------------------------------
(***************************************************************************)
(* senseBox.ino: the weather station the project started from.  loop()     *)
(* measures NUM_SENSORS values, which addValue() collects, and posts them  *)
(* all at once.  When it cannot connect it jumps to the reset vector: its  *)
(* variables are initialised again, and begin() resets the WiFi module.    *)
(***************************************************************************)
EXTENDS PostStation

CONSTANTS NUM_SENSORS

Setup ==
    /\ From("setup", "measure")
    /\ UNCHANGED <<scene, counter, values, wifi>>

\* addValue(), for the next of the measurements of loop().
AddValue ==
    /\ pc = "measure"
    /\ sensorsIndex' = sensorsIndex + 1
    /\ IF value < NUM_SENSORS THEN value' = value + 1 /\ Goto("measure")
                              ELSE value' = 1 /\ Goto("post")
    /\ UNCHANGED <<scene, counter, wifi>>

\* Variant: the values stay where they are after they have been posted.
Emptied_Never == sensorsIndex
Emptied == 0

\* The values are posted: the index starts again.
Disconnect ==
    /\ StopAfterFlush
    /\ Goto("measure")
    /\ sensorsIndex' = Emptied
    /\ UNCHANGED <<scene, counter, value>>

\* "jmp 0", and what setup() makes of the module.
Restart ==
    /\ From("restart", "setup")
    /\ sensorsIndex' = 0
    /\ Wifi!Reset
    /\ UNCHANGED <<scene, counter, value>>

\* submitValues(): a client that is still connected is stopped first.
Submit ==
    IF Wifi!connected(client)
      THEN From("post", "post") /\ StopClient /\ UNCHANGED <<scene, counter, values>>
      ELSE Connect

Next ==
    \/ Setup \/ AddValue \/ Submit
    \/ ConnectOk("reading") \/ ConnectFailed("restart") \/ Restart
    \/ ReadLine \/ Flushing \/ Disconnect
=============================================================================
