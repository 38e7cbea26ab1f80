-------------------------- MODULE ElevatorStation ---------------------------
(***************************************************************************)
(* Complete_codes/Final_elavator_SD: the station in the elevator.  setup() *)
(* measures the shaft once and takes the threshold a margin below it, and  *)
(* a pass of loop() in which the BMP280 does not start a measurement       *)
(* returns before it pings.                                                *)
(***************************************************************************)
EXTENDS SdStation

CONSTANTS
    MARGIN,      \* 20 cm: how far below the measured wall the threshold is
    FLOOR,       \* 250 cm: the threshold is never below this
    BmpFaults    \* TRUE: the BMP280 may fail to start

ASSUME ElevatorAssumption ==
    MARGIN \in Nat /\ FLOOR \in Nat \ {0} /\ BmpFaults \in BOOLEAN

VARIABLE dist_max   \* the threshold; 0 until setup() has measured it

vars == <<stationVars, dist_max>>

\* The measured values: what the wall, a person in view or a lost ping gives.
Thresholds == {FLOOR} \union {d - MARGIN : d \in 1 .. MaxDistance}

TypeOK == StationTypeOK /\ dist_max \in {0} \union Thresholds

Init == StationInit /\ dist_max = 0

\* Variants: no floor under the threshold; the margin on the wrong side.
Calibrated_NoFloor(d) == d - MARGIN
Calibrated_Beyond(d)  == IF d + MARGIN < FLOOR THEN FLOOR ELSE d + MARGIN

\* The ping of setup() sees whoever stands there at that moment, or nothing:
\* it may be lost even where those of loop() are not.  NO_ECHO makes the
\* difference negative, which the floor corrects.
Calibrated(d) == IF d - MARGIN < FLOOR THEN FLOOR ELSE d - MARGIN

Setup ==
    /\ pc = "setup"
    /\ \E d \in Echoes \union {NO_ECHO} : dist_max' = Calibrated(d)
    /\ pc' = "delay"
    /\ UNCHANGED <<body, passages, sampled, now, uptime, nb_people, state,
                   cache, card, losses, elapsed>>

\* SD.begin fails or the file cannot be created; a BMP280 that fails in
\* bmp.begin stops the sketch the same way.
SetupFails == CardFaults /\ Halt /\ UNCHANGED dist_max

\* startMeasurment() returns 0: loop() returns without a ping.
SkipPass ==
    /\ pc = "sense" /\ BmpFaults
    /\ pc' = "delay"
    /\ UNCHANGED <<body, passages, sampled, now, uptime, nb_people, state,
                   cache, card, losses, elapsed, dist_max>>

Counter == (\E d \in Echoes : ppl_counter(d, dist_max)) /\ UNCHANGED dist_max

Sketch ==
    \/ Setup \/ SetupFails
    \/ Log /\ UNCHANGED dist_max
    \/ SkipPass \/ Counter

Next ==
    \/ Sketch
    \/ PowerLoss /\ dist_max' = 0
    \/ /\ \E b \in Bodies \union {Nobody} : People(b, dist_max)
       /\ UNCHANGED dist_max

Spec == Init /\ [][Next]_vars

\* The processor never stops while it has power, and neither a BMP280 that fails
\* to start a measurement nor a card that does not open does so every time from
\* then on.
FairSpec ==
    /\ Spec
    /\ WF_vars(Sketch)
    /\ SF_vars(Counter)
    /\ SF_vars(WriteRow /\ UNCHANGED dist_max)

----------------------------------------------------------------------------
(* Properties *)

CounterInv == DebtPaid(dist_max)

\* However setup() went, with somebody in the doorway or with its only ping
\* lost, the empty shaft is told from a person by the threshold it chose.
ShaftIsEmpty == dist_max <= Wall
=============================================================================
