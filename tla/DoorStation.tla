---------------------------- MODULE DoorStation ----------------------------
(***************************************************************************)
(* Complete_codes/Final_door_SD: the station at the front door, whose      *)
(* threshold is the constant dist_to_ppl.                                  *)
(***************************************************************************)
EXTENDS SdStation

CONSTANT dist_to_ppl    \* closer than this, someone is in front of the sensor

ASSUME DoorAssumption == dist_to_ppl \in Nat

vars == stationVars

TypeOK == StationTypeOK

Init == StationInit

Setup ==
    /\ pc = "setup"
    /\ pc' = "delay"
    /\ UNCHANGED <<body, passages, sampled, now, uptime, nb_people, state,
                   cache, card, losses, elapsed>>

\* SD.begin fails or the file cannot be created.
SetupFails == CardFaults /\ Halt

Counter == \E d \in Echoes : ppl_counter(d, dist_to_ppl)

\* The steps the processor takes by itself, one after the other.
Sketch == Setup \/ SetupFails \/ Log \/ Counter

Next ==
    \/ Sketch
    \/ PowerLoss
    \/ \E b \in Bodies \union {Nobody} : People(b, dist_to_ppl)

Spec == Init /\ [][Next]_vars

\* The processor never stops while it has power.
FairSpec == Spec /\ WF_vars(Sketch)

\* What makes NoPhantom inductive here.
CounterInv == DebtPaid(dist_to_ppl)
=============================================================================
