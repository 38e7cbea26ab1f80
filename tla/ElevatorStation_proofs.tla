----------------------- MODULE ElevatorStation_proofs -----------------------
(***************************************************************************)
(* Theorems about ElevatorStation, for every shaft, set of bodies, margin, *)
(* floor, UPDATE_TIME, period of millis() and bound of the model.  The     *)
(* threshold is what the one ping of setup() made it.                      *)
(***************************************************************************)
EXTENDS ElevatorStation, SdStation_proofs

USE SceneAssumption, LogAssumption, ElevatorAssumption
    DEF SceneAssumption, LogAssumption, ElevatorAssumption

\* The shaft the sketch was written for: the wall is in range, no nearer than
\* the floor under the threshold, and nobody stands behind it.
DeepShaft ==
    /\ FLOOR <= Wall /\ Wall <= MaxDistance
    /\ \A b \in Bodies : b <= Wall

\* What makes ShaftIsEmpty inductive: the threshold is a distance in front of
\* the wall, and setup() runs only before anybody has been seen.
CalibrationInv ==
    /\ dist_max \in Nat
    /\ ShaftIsEmpty
    /\ pc = "setup" => state = 0

\* Whatever the ping of setup() returns, the floor corrects it.
LEMMA CalibratedType ==
    ASSUME SceneTypeOK, NEW d \in Echoes \union {NO_ECHO}
    PROVE  Calibrated(d) \in Thresholds
<1>1. d \in Nat /\ d <= MaxDistance
  BY DEF SceneTypeOK, Echoes, Surface, Nobody, NO_ECHO
<1>2. CASE d - MARGIN < FLOOR
  BY <1>2 DEF Calibrated, Thresholds
<1>3. CASE ~(d - MARGIN < FLOOR)
  <2>1. d \in 1 .. MaxDistance
    BY <1>1, <1>3
  <2>2. QED
    BY <1>3, <2>1 DEF Calibrated, Thresholds
<1>4. QED
  BY <1>2, <1>3

LEMMA CalibratedInShaft ==
    ASSUME DeepShaft, SceneTypeOK, NEW d \in Echoes \union {NO_ECHO}
    PROVE  Calibrated(d) \in Nat /\ Calibrated(d) <= Wall
<1>1. d \in Nat /\ d <= Wall
  BY DEF DeepShaft, SceneTypeOK, Echoes, Surface, Nobody, NO_ECHO
<1>2. QED
  BY <1>1 DEF DeepShaft, Calibrated

\* Every variable keeps its type in any shaft: the threshold is the floor, or
\* what a ping in range makes it.
THEOREM TypeCorrect == Spec => []TypeOK
<1>1. Init => TypeOK
  BY StationInitType DEF Init, TypeOK
<1>2. TypeOK /\ [Next]_vars => TypeOK'
  <2> SUFFICES ASSUME TypeOK, [Next]_vars PROVE TypeOK'
    OBVIOUS
  <2> USE DEF TypeOK
  <2>1. CASE Setup
    <3>1. dist_max' \in Thresholds
      BY <2>1, CalibratedType DEF Setup, StationTypeOK
    <3>2. QED
      BY <2>1, <3>1 DEF Setup, StationTypeOK, Points, SceneTypeOK
  <2>2. CASE SetupFails
    BY <2>2, HaltType DEF SetupFails
  <2>3. CASE Log /\ UNCHANGED dist_max
    BY <2>3, LogType
  <2>4. CASE SkipPass
    BY <2>4 DEF SkipPass, StationTypeOK, Points, SceneTypeOK
  <2>5. CASE Counter
    BY <2>5, CounterType DEF Counter
  <2>6. CASE PowerLoss /\ dist_max' = 0
    BY <2>6, PowerLossType
  <2>7. CASE (\E b \in Bodies \union {Nobody} : People(b, dist_max)) /\ UNCHANGED dist_max
    BY <2>7, PeopleType
  <2>8. CASE UNCHANGED vars
    <3>1. UNCHANGED stationVars /\ UNCHANGED dist_max
      BY <2>8 DEF vars
    <3>2. QED
      BY <3>1, StutterType
  <2>9. QED
    BY <2>1, <2>2, <2>3, <2>4, <2>5, <2>6, <2>7, <2>8 DEF Next, Sketch
<1>3. QED
  BY <1>1, <1>2, PTL DEF Spec

\* The threshold never reaches the wall: the empty shaft is told from a person
\* although it was measured only once, perhaps with somebody in the doorway.
THEOREM ShaftCorrect ==
    ASSUME DeepShaft
    PROVE  Spec => [](ShaftIsEmpty /\ CalibrationInv)
<1> USE DEF CalibrationInv, ShaftIsEmpty
<1>1. Init => CalibrationInv
  BY DEF Init, StationInit
<1>2. TypeOK /\ CalibrationInv /\ [Next]_vars => CalibrationInv'
  <2> SUFFICES ASSUME TypeOK, CalibrationInv, [Next]_vars PROVE CalibrationInv'
    OBVIOUS
  <2>1. CASE Setup
    <3>1. dist_max' \in Nat /\ dist_max' <= Wall
      BY <2>1, CalibratedInShaft DEF Setup, TypeOK, StationTypeOK
    <3>2. QED
      BY <2>1, <3>1 DEF Setup
  <2>2. CASE SetupFails
    BY <2>2 DEF SetupFails, Halt
  <2>3. CASE Log /\ UNCHANGED dist_max
    BY <2>3 DEF Log, Delay, CheckLog, WriteRow, CloseRow, OpenFails, StampLog
  <2>4. CASE SkipPass \/ Counter
    BY <2>4
       DEF SkipPass, Counter, ppl_counter, PersonArrives, PersonLeaves, NothingNew, Sense
  <2>5. CASE PowerLoss /\ dist_max' = 0
    BY <2>5 DEF PowerLoss
  <2>6. CASE (\E b \in Bodies \union {Nobody} : People(b, dist_max)) /\ UNCHANGED dist_max
    BY <2>6 DEF People
  <2>7. CASE UNCHANGED vars
    BY <2>7 DEF vars, stationVars
  <2>8. QED
    BY <2>1, <2>2, <2>3, <2>4, <2>5, <2>6, <2>7 DEF Next, Sketch
<1>3. CalibrationInv => ShaftIsEmpty
  OBVIOUS
<1>4. QED
  BY <1>1, <1>2, <1>3, TypeCorrect, PTL DEF Spec

\* With no ping of loop() lost, the debt stated by CounterInv is kept by every
\* step, a new threshold after a power loss included: no phantom is counted.
THEOREM CounterCorrect ==
    ASSUME DeepShaft, ~EchoLost
    PROVE  Spec => []CounterInv
<1> USE DEF CalibrationInv, ShaftIsEmpty
<1>1. Init => CounterInv
  BY DEF Init, StationInit, SceneInit, CounterInv, DebtPaid
<1>2. TypeOK /\ CalibrationInv /\ CounterInv /\ [Next]_vars => CounterInv'
  <2> SUFFICES ASSUME TypeOK, CalibrationInv, CounterInv, [Next]_vars
               PROVE  CounterInv'
    OBVIOUS
  <2> USE DEF TypeOK, StationTypeOK, SceneTypeOK, CounterInv, DebtPaid, InFront
  <2>1. CASE Setup
    BY <2>1 DEF Setup
  <2>2. CASE SetupFails \/ SkipPass
    BY <2>2 DEF SetupFails, Halt, SkipPass
  <2>3. CASE Log /\ UNCHANGED dist_max
    BY <2>3 DEF Log, Delay, CheckLog, WriteRow, CloseRow, OpenFails, StampLog
  <2>4. CASE Counter
    <3>1. PICK d \in Echoes : ppl_counter(d, dist_max)
      BY <2>4 DEF Counter
    <3>2. d < dist_max <=> InFront(body, dist_max)
      BY EchoTellsTruth DEF DeepShaft, ClearView
    <3>3. UNCHANGED dist_max /\ UNCHANGED <<body, passages>>
      BY <2>4, <3>1
         DEF Counter, ppl_counter, PersonArrives, PersonLeaves, NothingNew, Sense, Looked
    <3>4. d \in Nat
      BY EchoTellsTruth DEF DeepShaft, ClearView
    <3>5. CASE PersonArrives(d, dist_max)
      BY <3>2, <3>3, <3>5 DEF PersonArrives
    <3>6. CASE PersonLeaves(d, dist_max)
      BY <3>2, <3>3, <3>4, <3>6 DEF PersonLeaves
    <3>7. CASE NothingNew(d, dist_max)
      BY <3>3, <3>7 DEF NothingNew
    <3>8. QED
      BY <3>1, <3>5, <3>6, <3>7 DEF ppl_counter
  <2>5. CASE PowerLoss /\ dist_max' = 0
    BY <2>5 DEF PowerLoss, SceneRestart
  <2>6. CASE (\E b \in Bodies \union {Nobody} : People(b, dist_max)) /\ UNCHANGED dist_max
    BY <2>6 DEF People, Move
  <2>7. CASE UNCHANGED vars
    BY <2>7 DEF vars, stationVars
  <2>8. QED
    BY <2>1, <2>2, <2>3, <2>4, <2>5, <2>6, <2>7 DEF Next, Sketch
<1>3. QED
  BY <1>1, <1>2, TypeCorrect, ShaftCorrect, PTL DEF Spec

\* The station implements the safe half of PassageCount: whatever the ping of
\* setup() saw, each step of it counts one passage, lets one happen, starts a
\* new count or changes neither number.
THEOREM ImplementsPromise ==
    ASSUME DeepShaft, ~EchoLost
    PROVE  Spec => NeverOvercounts
<1> USE DEF Promise!vars, Promise!Next, Promise!Pass, Promise!Count, Promise!Restart
<1>1. Init => Promise!Init
  BY DEF Init, StationInit, SceneInit, Promise!Init
<1>2. TypeOK /\ CalibrationInv /\ CounterInv /\ [Next]_vars
        => [Promise!Next]_(Promise!vars)
  <2> SUFFICES ASSUME TypeOK, CalibrationInv, CounterInv, [Next]_vars
               PROVE  [Promise!Next]_(Promise!vars)
    OBVIOUS
  <2> USE DEF TypeOK, StationTypeOK, SceneTypeOK
  <2>1. CASE Setup \/ SetupFails \/ SkipPass
    BY <2>1 DEF Setup, SetupFails, Halt, SkipPass
  <2>2. CASE Log /\ UNCHANGED dist_max
    BY <2>2 DEF Log, Delay, CheckLog, WriteRow, CloseRow, OpenFails, StampLog
  <2>3. CASE Counter
    <3>1. PICK d \in Echoes : ppl_counter(d, dist_max)
      BY <2>3 DEF Counter
    <3>2. d \in Nat /\ (d < dist_max <=> InFront(body, dist_max))
      BY EchoTellsTruth DEF DeepShaft, ClearView, CalibrationInv, ShaftIsEmpty
    <3>3. CASE PersonLeaves(d, dist_max)
      <4>1. nb_people < passages
        BY <3>2, <3>3 DEF PersonLeaves, CounterInv, DebtPaid, CalibrationInv
      <4>2. QED
        BY <3>3, <4>1 DEF PersonLeaves, Sense, Looked
    <3>4. CASE PersonArrives(d, dist_max) \/ NothingNew(d, dist_max)
      BY <3>4 DEF PersonArrives, NothingNew, Sense, Looked
    <3>5. QED
      BY <3>1, <3>3, <3>4 DEF ppl_counter
  <2>4. CASE PowerLoss /\ dist_max' = 0
    BY <2>4 DEF PowerLoss, SceneRestart
  <2>5. CASE \E b \in Bodies \union {Nobody} : People(b, dist_max)
    BY <2>5 DEF People, Move
  <2>6. CASE UNCHANGED vars
    BY <2>6 DEF vars, stationVars
  <2>7. QED
    BY <2>1, <2>2, <2>3, <2>4, <2>5, <2>6 DEF Next, Sketch
<1>3. QED
  BY <1>1, <1>2, TypeCorrect, ShaftCorrect, CounterCorrect, PTL
     DEF Spec, NeverOvercounts, Promise!Safe
\* The file is a history here as well: neither a pass without a ping nor a new
\* threshold after a power loss puts a row out of order.
THEOREM RowsCorrect == Spec => []RowsInOrder
<1>1. Init => HistoryInv
  BY HistoryInit DEF Init
<1>2. TypeOK /\ HistoryInv /\ [Next]_vars => HistoryInv'
  <2> SUFFICES ASSUME TypeOK, HistoryInv, [Next]_vars PROVE HistoryInv'
    OBVIOUS
  <2> USE DEF TypeOK
  <2>1. CASE Setup \/ SetupFails \/ SkipPass \/ UNCHANGED vars
             \/ (\E b \in Bodies \union {Nobody} : People(b, dist_max))
    <3>1. /\ UNCHANGED <<card, losses, nb_people, cache>> /\ nb_people \in Nat
          /\ pc' = "close" => pc = "close"
      BY <2>1
         DEF Setup, SetupFails, Halt, SkipPass, People, vars, stationVars, StationTypeOK
    <3>2. QED
      BY <3>1, HistoryKept DEF HistoryInv
  <2>2. CASE Log
    BY <2>2, LogHistory
  <2>3. CASE Counter
    BY <2>3, CounterHistory DEF Counter
  <2>4. CASE PowerLoss
    BY <2>4, PowerLossHistory
  <2>5. QED
    BY <2>1, <2>2, <2>3, <2>4 DEF Next, Sketch
<1>3. HistoryInv => RowsInOrder
  BY DEF HistoryInv
<1>4. QED
  BY <1>1, <1>2, <1>3, TypeCorrect, PTL DEF Spec
=============================================================================
