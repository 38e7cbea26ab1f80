------------------------------ MODULE Corridor ------------------------------
(***************************************************************************)
(* What an ultrasonic people counter looks at, and what NewPing reports of *)
(* it.  Somebody may stand in view of the sensor, at a distance that       *)
(* changes as they walk; behind is a wall.  The sketches see this scene    *)
(* only through the distance that NewPing::ping and NewPing::convert_cm    *)
(* return, which is NO_ECHO (zero) when the surface is out of range or the *)
(* ping is lost.                                                           *)
(*                                                                         *)
(* Distances are natural numbers in an arbitrary unit: only their order    *)
(* with respect to each other and to the thresholds matters.               *)
(***************************************************************************)
EXTENDS Integers

CONSTANTS
    MaxDistance,   \* MAX_DISTANCE: pings beyond it come back as NO_ECHO
    Wall,          \* distance of the surface behind the people
    Bodies,        \* distances at which people stand
    EchoLost,      \* TRUE: any ping may be lost
    Hurry,         \* TRUE: people may come and go between two pings
    MaxPassages    \* bound: passages between two power losses

ASSUME SceneAssumption ==
    /\ MaxDistance \in Nat /\ Wall \in Nat \ {0} /\ MaxPassages \in Nat
    /\ Bodies \subseteq Nat \ {0}
    /\ EchoLost \in BOOLEAN /\ Hurry \in BOOLEAN

VARIABLES
    body,       \* where the person in view of the sensor is, or Nobody
    passages,   \* passages in front of the sensor since the last power-up
    sampled     \* the present scene has been pinged at least once

scene == <<body, passages, sampled>>

NO_ECHO == 0
Nobody  == 0

SceneTypeOK ==
    /\ body \in Bodies \union {Nobody}
    /\ passages \in 0 .. MaxPassages
    /\ sampled \in BOOLEAN

SceneInit == body = Nobody /\ passages = 0 /\ sampled = FALSE

Surface == IF body = Nobody THEN Wall ELSE body

\* The distances convert_cm(ping()) may return for the present scene: the
\* surface when it is in range, NO_ECHO when it is not, when the trigger is
\* refused or when the echo does not come back before _max_time.
Echoes ==
    {IF Surface <= MaxDistance THEN Surface ELSE NO_ECHO}
        \union (IF EchoLost THEN {NO_ECHO} ELSE {})

\* Closer than the threshold, somebody is in front of the sensor.
InFront(b, threshold) == b # Nobody /\ b < threshold

\* Somebody walks up, moves or walks off.  A passage is over when the person
\* who was in front of the sensor is so no more.
Move(b, threshold) ==
    /\ b # body
    /\ Hurry \/ sampled
    /\ body' = b
    /\ sampled' = FALSE
    /\ passages' = IF InFront(body, threshold) /\ ~InFront(b, threshold)
                   THEN passages + 1 ELSE passages
    /\ passages' <= MaxPassages

\* A sketch that pings leaves the scene alone; that it looked is recorded.
Looked == sampled' = TRUE /\ UNCHANGED <<body, passages>>

\* At power-up the people counted so far are forgotten with the RAM.
SceneRestart == passages' = 0 /\ sampled' = FALSE /\ UNCHANGED body
=============================================================================
