------------------------- MODULE DoorStation_proofs -------------------------
(***************************************************************************)
(* Theorems about DoorStation, for every threshold, wall, set of bodies,   *)
(* UPDATE_TIME, period of millis() and bound of the model.                 *)
(***************************************************************************)
EXTENDS DoorStation, SdStation_proofs

USE SceneAssumption, LogAssumption, DoorAssumption
    DEF SceneAssumption, LogAssumption, DoorAssumption

\* Every variable keeps its type: millis() never leaves its range, the passage
\* and loss counters never pass their bounds, and the file holds only rows.
THEOREM TypeCorrect == Spec => []TypeOK
<1>1. Init => TypeOK
  BY StationInitType DEF Init, TypeOK
<1>2. TypeOK /\ [Next]_vars => TypeOK'
  <2> SUFFICES ASSUME TypeOK, [Next]_vars PROVE TypeOK'
    OBVIOUS
  <2> USE DEF TypeOK
  <2>1. CASE Setup
    BY <2>1 DEF Setup, StationTypeOK, Points, SceneTypeOK
  <2>2. CASE SetupFails
    BY <2>2, HaltType DEF SetupFails
  <2>3. CASE Log
    BY <2>3, LogType
  <2>4. CASE Counter
    BY <2>4, CounterType DEF Counter
  <2>5. CASE \E b \in Bodies \union {Nobody} : People(b, dist_to_ppl)
    BY <2>5, PeopleType
  <2>6. CASE PowerLoss
    BY <2>6, PowerLossType
  <2>7. CASE UNCHANGED vars
    BY <2>7, StutterType DEF vars
  <2>8. QED
    BY <2>1, <2>2, <2>3, <2>4, <2>5, <2>6, <2>7 DEF Next, Sketch
<1>3. QED
  BY <1>1, <1>2, PTL DEF Spec

\* With a clear view the debt stated by CounterInv is kept by every step, so
\* the station never counts somebody who did not pass.
THEOREM CounterCorrect ==
    ASSUME ClearView(dist_to_ppl)
    PROVE  Spec => [](CounterInv /\ NoPhantom)
<1>1. Init => CounterInv
  BY DEF Init, StationInit, SceneInit, CounterInv, DebtPaid
<1>2. TypeOK /\ CounterInv /\ [Next]_vars => CounterInv'
  <2> SUFFICES ASSUME TypeOK, CounterInv, [Next]_vars PROVE CounterInv'
    OBVIOUS
  <2> USE DEF TypeOK, StationTypeOK, SceneTypeOK, CounterInv, DebtPaid, InFront
  <2>1. CASE Setup \/ SetupFails \/ CheckLog
    BY <2>1 DEF Setup, SetupFails, Halt, CheckLog
  <2>2. CASE Delay \/ WriteRow
    BY <2>2 DEF Delay, WriteRow
  <2>3. CASE CloseRow \/ OpenFails
    BY <2>3 DEF CloseRow, OpenFails, StampLog
  <2>4. ASSUME NEW d \in Echoes,
               ppl_counter(d, dist_to_ppl)
        PROVE  CounterInv'
    <3>1. d \in Nat /\ (d < dist_to_ppl <=> InFront(body, dist_to_ppl))
      BY EchoTellsTruth
    <3>2. CASE PersonArrives(d, dist_to_ppl)
      BY <3>1, <3>2 DEF PersonArrives, Sense, Looked
    <3>3. CASE PersonLeaves(d, dist_to_ppl)
      BY <3>1, <3>3 DEF PersonLeaves, Sense, Looked
    <3>4. CASE NothingNew(d, dist_to_ppl)
      BY <3>4 DEF NothingNew, Sense, Looked
    <3>5. QED
      BY <2>4, <3>2, <3>3, <3>4 DEF ppl_counter
  <2>5. CASE \E b \in Bodies \union {Nobody} : People(b, dist_to_ppl)
    BY <2>5 DEF People, Move
  <2>6. CASE PowerLoss
    BY <2>6 DEF PowerLoss, SceneRestart
  <2>7. CASE UNCHANGED vars
    BY <2>7 DEF vars, stationVars
  <2>8. QED
    BY <2>1, <2>2, <2>3, <2>4, <2>5, <2>6, <2>7 DEF Next, Sketch, Log, Counter
<1>3. TypeOK /\ CounterInv => NoPhantom
  BY DEF TypeOK, StationTypeOK, SceneTypeOK, CounterInv, DebtPaid, NoPhantom
<1>4. QED
  BY <1>1, <1>2, <1>3, TypeCorrect, PTL DEF Spec

\* Ties millis() and uptime to the real time between them, and that time to
\* the point of loop() the sketch has reached.
ClockInv ==
    /\ now = Plus(uptime, elapsed)
    /\ elapsed <= UPDATE_TIME + MaxPass
    /\ pc \in {"open", "close"} => elapsed > UPDATE_TIME
    /\ pc \in {"setup", "sense", "delay"} => elapsed <= UPDATE_TIME

\* The log interval holds for every period of millis() long enough to tell two
\* rows apart: the unsigned subtraction of loop() sees the real time.
THEOREM LogIntervalCorrect == Spec => []LogInterval
<1>1. Init => ClockInv
  BY DEF Init, StationInit, ClockInv, Plus
<1>2. TypeOK /\ ClockInv /\ [Next]_vars => ClockInv'
  <2> SUFFICES ASSUME TypeOK, ClockInv, [Next]_vars PROVE ClockInv'
    OBVIOUS
  <2> USE DEF TypeOK, StationTypeOK
  <2>1. CASE Setup \/ SetupFails
    BY <2>1 DEF Setup, SetupFails, Halt, ClockInv, Plus
  <2>2. CASE Delay
    <3>1. PICK d \in 1 .. MaxPass :
             now' = Plus(now, d) /\ elapsed' = Saturated(elapsed + d)
      BY <2>2 DEF Delay
    <3>2. elapsed <= UPDATE_TIME
      BY <2>2 DEF Delay, ClockInv
    <3>3. elapsed' = elapsed + d
      BY <3>1, <3>2 DEF Saturated, Late
    <3>4. Plus(Plus(uptime, elapsed), d) = Plus(uptime, elapsed + d)
      BY <3>2, ClockArithmetic
    <3>5. QED
      BY <2>2, <3>1, <3>2, <3>3, <3>4 DEF Delay, ClockInv, Plus
  <2>3. CASE CheckLog
    <3>1. Minus(now, uptime) = elapsed
      BY ClockArithmetic, 0 \in Nat DEF ClockInv
    <3>2. QED
      BY <2>3, <3>1 DEF CheckLog, Due, ClockInv, Plus
  <2>4. CASE WriteRow
    BY <2>4 DEF WriteRow, ClockInv, Plus
  <2>5. CASE CloseRow \/ OpenFails
    BY <2>5 DEF CloseRow, OpenFails, StampLog, ClockInv, Plus
  <2>6. CASE Counter
    BY <2>6 DEF Counter, ppl_counter, PersonArrives, PersonLeaves, NothingNew, Sense,
                ClockInv, Plus
  <2>7. CASE \E b \in Bodies \union {Nobody} : People(b, dist_to_ppl)
    BY <2>7 DEF People, ClockInv, Plus
  <2>8. CASE PowerLoss
    BY <2>8 DEF PowerLoss, ClockInv, Plus
  <2>9. CASE UNCHANGED vars
    BY <2>9 DEF vars, stationVars, ClockInv, Plus
  <2>10. QED
    BY <2>1, <2>2, <2>3, <2>4, <2>5, <2>6, <2>7, <2>8, <2>9 DEF Next, Sketch, Log
<1>3. ClockInv => LogInterval
  BY DEF ClockInv, LogInterval
<1>4. QED
  BY <1>1, <1>2, <1>3, TypeCorrect, PTL DEF Spec

\* The station implements PassageCount: whatever the interleaving of people,
\* card and power, each step of it counts one passage, lets one happen, starts
\* a new count or changes neither number.
THEOREM ImplementsPromise ==
    ASSUME ClearView(dist_to_ppl)
    PROVE  Spec => NeverOvercounts
<1> USE DEF Promise!vars, Promise!Next, Promise!Pass, Promise!Count, Promise!Restart
<1>1. Init => Promise!Init
  BY DEF Init, StationInit, SceneInit, Promise!Init
<1>2. TypeOK /\ CounterInv /\ [Next]_vars => [Promise!Next]_(Promise!vars)
  <2> SUFFICES ASSUME TypeOK, CounterInv, [Next]_vars
               PROVE  [Promise!Next]_(Promise!vars)
    OBVIOUS
  <2> USE DEF TypeOK, StationTypeOK, SceneTypeOK
  <2>1. CASE Setup \/ SetupFails \/ Delay \/ CheckLog \/ WriteRow
    BY <2>1 DEF Setup, SetupFails, Halt, Delay, CheckLog, WriteRow
  <2>2. CASE CloseRow \/ OpenFails
    BY <2>2 DEF CloseRow, OpenFails, StampLog
  <2>3. ASSUME NEW d \in Echoes,
               ppl_counter(d, dist_to_ppl)
        PROVE  [Promise!Next]_(Promise!vars)
    <3>1. d \in Nat /\ (d < dist_to_ppl <=> InFront(body, dist_to_ppl))
      BY EchoTellsTruth
    <3>2. CASE PersonLeaves(d, dist_to_ppl)
      BY <3>1, <3>2 DEF PersonLeaves, Sense, Looked, CounterInv, DebtPaid
    <3>3. CASE PersonArrives(d, dist_to_ppl) \/ NothingNew(d, dist_to_ppl)
      BY <3>3 DEF PersonArrives, NothingNew, Sense, Looked
    <3>4. QED
      BY <2>3, <3>2, <3>3 DEF ppl_counter
  <2>4. CASE \E b \in Bodies \union {Nobody} : People(b, dist_to_ppl)
    BY <2>4 DEF People, Move
  <2>5. CASE PowerLoss
    BY <2>5 DEF PowerLoss, SceneRestart
  <2>6. CASE UNCHANGED vars
    BY <2>6 DEF vars, stationVars
  <2>7. QED
    BY <2>1, <2>2, <2>3, <2>4, <2>5, <2>6 DEF Next, Sketch, Log, Counter
<1>3. QED
  BY <1>1, <1>2, TypeCorrect, CounterCorrect, PTL DEF Spec, NeverOvercounts, Promise!Safe

----------------------------------------------------------------------------
(* The file *)

\* The file is a history for any number of boots and any length of file: no
\* step puts a row behind one of a later boot or of a higher count.
THEOREM RowsCorrect == Spec => []RowsInOrder
<1>1. Init => HistoryInv
  BY HistoryInit DEF Init
<1>2. TypeOK /\ HistoryInv /\ [Next]_vars => HistoryInv'
  <2> SUFFICES ASSUME TypeOK, HistoryInv, [Next]_vars PROVE HistoryInv'
    OBVIOUS
  <2> USE DEF TypeOK
  <2>1. CASE Setup \/ SetupFails \/ (\E b \in Bodies \union {Nobody} : People(b, dist_to_ppl))
             \/ UNCHANGED vars
    <3>1. /\ UNCHANGED <<card, losses, nb_people, cache>> /\ nb_people \in Nat
          /\ pc' = "close" => pc = "close"
      BY <2>1 DEF Setup, SetupFails, Halt, People, vars, stationVars, StationTypeOK
    <3>2. QED
      BY <3>1, HistoryKept DEF HistoryInv
  <2>2. CASE Log
    BY <2>2, LogHistory
  <2>3. CASE Counter
    BY <2>3, CounterHistory DEF Counter
  <2>4. CASE PowerLoss
    BY <2>4, PowerLossHistory
  <2>5. QED
    BY <2>1, <2>2, <2>3, <2>4 DEF Next, Sketch
<1>3. HistoryInv => RowsInOrder
  BY DEF HistoryInv
<1>4. QED
  BY <1>1, <1>2, <1>3, TypeCorrect, PTL DEF Spec
=============================================================================
