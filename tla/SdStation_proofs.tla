-------------------------- MODULE SdStation_proofs --------------------------
(***************************************************************************)
(* Lemmas about the scene and the steps the two stations with an SD card   *)
(* share: each keeps the type of the station's variables, a clear view     *)
(* makes an echo tell the truth, and the unsigned arithmetic of millis()   *)
(* recovers the time gone by.                                              *)
(***************************************************************************)
EXTENDS SdStation, SequenceTheorems, TLAPS

----------------------------------------------------------------------------
(* The scene in front of the sensor *)

\* The site the sketches were written for: no ping is lost, the wall is in
\* range and not taken for a person, and nobody stands out of range.
ClearView(threshold) ==
    /\ ~EchoLost
    /\ threshold <= Wall /\ Wall <= MaxDistance
    /\ \A b \in Bodies : b <= MaxDistance

\* The steps of the scene keep its type.
LEMMA SceneInitType == SceneInit => SceneTypeOK
<1>1. SceneInit => body \in Bodies \union {Nobody} /\ passages \in 0 .. MaxPassages
  BY SceneAssumption DEF SceneInit, SceneAssumption
<1>2. SceneInit => sampled \in BOOLEAN
  BY Zenon DEF SceneInit
<1>3. QED
  BY <1>1, <1>2 DEF SceneTypeOK

LEMMA LookedType == SceneTypeOK /\ Looked => SceneTypeOK'
<1>1. Looked => sampled' \in BOOLEAN
  BY Zenon DEF Looked
<1>2. QED
  BY <1>1 DEF SceneTypeOK, Looked

LEMMA MoveType ==
    ASSUME NEW b \in Bodies \union {Nobody}, NEW threshold,
           SceneTypeOK, Move(b, threshold)
    PROVE  SceneTypeOK'
<1>1. sampled' \in BOOLEAN
  BY Zenon DEF Move
<1>2. passages' \in 0 .. MaxPassages
  BY DEF Move, SceneTypeOK
<1>3. QED
  BY <1>1, <1>2 DEF SceneTypeOK, Move

LEMMA RestartType == SceneTypeOK /\ SceneRestart => SceneTypeOK'
<1>1. SceneRestart => sampled' \in BOOLEAN
  BY Zenon DEF SceneRestart
<1>2. QED
  BY <1>1, SceneAssumption DEF SceneTypeOK, SceneRestart, SceneAssumption

\* Under a clear view the one distance a ping returns tells whether somebody
\* is in front of the sensor: NO_ECHO is never read, the wall never counted.
LEMMA EchoTellsTruth ==
    ASSUME NEW threshold \in Nat, ClearView(threshold), SceneTypeOK,
           NEW d \in Echoes
    PROVE  d \in Nat /\ (d < threshold <=> InFront(body, threshold))
  BY SceneAssumption
     DEF ClearView, Echoes, Surface, InFront, SceneTypeOK, Nobody, SceneAssumption

----------------------------------------------------------------------------
(* The station *)

USE SceneAssumption, LogAssumption DEF SceneAssumption, LogAssumption

\* Plus and Minus are the arithmetic of an unsigned long that wraps: they stay
\* in range, and the difference recovers what was added since.
LEMMA ClockArithmetic ==
    ASSUME NEW u \in 0 .. Wrap - 1, NEW e \in Nat, NEW d \in Nat,
           e + d < Wrap
    PROVE  /\ Plus(u, e) \in 0 .. Wrap - 1
           /\ Plus(Plus(u, e), d) = Plus(u, e + d)
           /\ Minus(Plus(u, e), u) = e
  BY DEF Plus, Minus

\* What power-up leaves in the variables of the globals has their type.
LEMMA StationInitType == StationInit => StationTypeOK
<1>1. <<>> \in Seq(Row) /\ NoRow \in Row
  BY EmptySeq DEF Row, NoRow
<1>2. QED
  BY <1>1, SceneInitType DEF StationInit, StationTypeOK, Points, Late

\* Nor does a setup() that stops disturb it.
LEMMA HaltType == StationTypeOK /\ Halt => StationTypeOK'
  BY DEF StationTypeOK, Halt, Points, SceneTypeOK

\* The part of loop() before the measures keeps the type: what is written is a
\* row, and millis() stays in its range.
LEMMA LogType == StationTypeOK /\ Log => StationTypeOK'
<1> SUFFICES ASSUME StationTypeOK, Log PROVE StationTypeOK'
  OBVIOUS
<1> USE DEF StationTypeOK, Points
<1>1. CASE Delay
  BY <1>1 DEF Delay, Plus, Saturated, Late, SceneTypeOK
<1>2. CASE CheckLog
  BY <1>2 DEF CheckLog, SceneTypeOK
<1>3. CASE WriteRow
  BY <1>3 DEF WriteRow, Row, SceneTypeOK
<1>4. ASSUME StampLog
      PROVE  now' \in 0 .. Wrap - 1 /\ uptime' \in 0 .. Wrap - 1
             /\ elapsed' \in 0 .. Late /\ pc' \in Points
             /\ SceneTypeOK' /\ nb_people' \in Nat /\ state' \in {0, 1}
             /\ losses' \in 0 .. MaxPowerLosses
  BY <1>4 DEF StampLog, Plus, Late, SceneTypeOK
<1>5. CASE CloseRow
  <2>1. cache' \in Row
    BY <1>5 DEF CloseRow, Row, NoRow
  <2>2. card' \in Seq(Row)
    <3> DEFINE rows == Append(card, cache)
    <3>1. rows \in Seq(Row) /\ rows # <<>>
      BY AppendProperties
    <3>2. Tail(rows) \in Seq(Row)
      BY <3>1
    <3>3. QED
      BY <1>5, <3>1, <3>2 DEF CloseRow
  <2>3. QED
    BY <1>4, <1>5, <2>1, <2>2 DEF CloseRow
<1>6. CASE OpenFails
  BY <1>4, <1>6 DEF OpenFails
<1>7. QED
  BY <1>1, <1>2, <1>3, <1>5, <1>6 DEF Log

\* So do the counter, whatever the ping returned, and the people.
LEMMA CounterType ==
    ASSUME NEW d, NEW threshold, StationTypeOK, ppl_counter(d, threshold)
    PROVE  StationTypeOK'
  BY LookedType
     DEF StationTypeOK, Points, ppl_counter, PersonArrives, PersonLeaves, NothingNew, Sense

LEMMA PeopleType ==
    ASSUME NEW b \in Bodies \union {Nobody}, NEW threshold,
           StationTypeOK, People(b, threshold)
    PROVE  StationTypeOK'
  BY MoveType DEF StationTypeOK, People

\* A power loss leaves nothing but the card, whose rows stay rows.
LEMMA PowerLossType == StationTypeOK /\ PowerLoss => StationTypeOK'
  BY RestartType DEF StationTypeOK, Points, PowerLoss, Row, NoRow, Late

LEMMA StutterType == StationTypeOK /\ UNCHANGED stationVars => StationTypeOK'
  BY DEF StationTypeOK, stationVars, SceneTypeOK

----------------------------------------------------------------------------
(* The rows of the file *)

\* What makes RowsInOrder inductive: the last row is not ahead of the counter
\* of this boot, and a row waiting for close() is what the counter says.
HistoryInv ==
    /\ RowsInOrder
    /\ card # <<>> =>
         LET last == card[Len(card)] IN
         /\ last.boot <= losses
         /\ last.boot = losses => last.nb_people <= nb_people
    /\ pc = "close" => cache.boot = losses /\ cache.nb_people = nb_people

LEMMA HistoryInit == StationInit => HistoryInv
  BY DEF StationInit, HistoryInv, RowsInOrder

\* A step that leaves the file and the boot alone, and does not count backwards,
\* keeps the history.
LEMMA HistoryKept ==
    ASSUME HistoryInv, StationTypeOK, UNCHANGED <<card, losses>>,
           nb_people' \in Nat, nb_people <= nb_people',
           pc' = "close" => cache'.boot = losses /\ cache'.nb_people = nb_people'
    PROVE  HistoryInv'
<1>1. RowsInOrder'
  BY DEF HistoryInv, RowsInOrder
<1>2. ASSUME card # <<>>
      PROVE  /\ card[Len(card)].boot <= losses
             /\ card[Len(card)].boot = losses => card[Len(card)].nb_people <= nb_people'
  <2>1. card[Len(card)] \in Row
    BY <1>2, EmptySeq, ElementOfSeq DEF StationTypeOK
  <2>2. card[Len(card)].nb_people \in Nat /\ nb_people \in Nat
    BY <2>1 DEF StationTypeOK, Row
  <2>3. QED
    BY <1>2, <2>2 DEF HistoryInv
<1>3. QED
  BY <1>1, <1>2 DEF HistoryInv

\* close() puts the newest row behind the others, of which the oldest may go.
LEMMA CloseRowHistory == StationTypeOK /\ HistoryInv /\ CloseRow => HistoryInv'
<1> SUFFICES ASSUME StationTypeOK, HistoryInv, CloseRow PROVE HistoryInv'
  OBVIOUS
<1> DEFINE rows == Append(card, cache)
<1>1. /\ card \in Seq(Row) /\ cache \in Row
      /\ cache.boot = losses /\ cache.nb_people = nb_people
  BY DEF StationTypeOK, HistoryInv, CloseRow
<1>2. /\ rows \in Seq(Row) /\ rows # <<>> /\ Len(rows) = Len(card) + 1
      /\ \A i \in 1 .. Len(card) : rows[i] = card[i]
      /\ rows[Len(card) + 1] = cache
  BY <1>1, AppendProperties
<1> HIDE DEF rows
<1>3. Len(card) \in Nat /\ \A i \in 1 .. Len(card) : card[i] \in Row
  BY <1>1, LenProperties, ElementOfSeq
<1>4. \A i \in 2 .. Len(rows) :
         /\ rows[i - 1].boot <= rows[i].boot
         /\ rows[i - 1].boot = rows[i].boot => rows[i - 1].nb_people <= rows[i].nb_people
  <2> TAKE i \in 2 .. Len(rows)
  <2>1. CASE i <= Len(card)
    BY <1>2, <1>3, <2>1 DEF HistoryInv, RowsInOrder
  <2>2. CASE i = Len(card) + 1
    <3>1. card # <<>> /\ rows[i - 1] = card[Len(card)] /\ rows[i] = cache
      BY <1>1, <1>2, <1>3, <2>2
    <3>2. QED
      BY <1>1, <3>1 DEF HistoryInv
  <2>3. QED
    BY <1>2, <1>3, <2>1, <2>2
<1>5. UNCHANGED <<losses, nb_people>> /\ pc' = "sense"
  BY DEF CloseRow, StampLog
<1>6. nb_people \in Nat /\ losses \in Nat
  BY DEF StationTypeOK
<1>7. CASE card' = rows
  <2>1. card'[Len(card')] = cache
    BY <1>2, <1>7
  <2>2. RowsInOrder'
    BY <1>4, <1>7 DEF RowsInOrder
  <2>3. QED
    BY <1>1, <1>5, <1>6, <2>1, <2>2 DEF HistoryInv
<1>8. CASE card' = Tail(rows) /\ Len(rows) > KeepRows
  <2>1. /\ Len(card') = Len(card)
        /\ \A i \in 1 .. Len(card) : card'[i] = rows[i + 1]
    BY <1>2, <1>3, <1>8, HeadTailProperties
  <2>2. Len(card) > 0
    BY <1>2, <1>3, <1>8
  <2>3. card'[Len(card')] = cache
    BY <1>2, <1>3, <2>1, <2>2
  <2>4. \A i \in 2 .. Len(card') : card'[i] = rows[i + 1] /\ card'[i - 1] = rows[i]
    BY <1>3, <2>1
  <2>5. RowsInOrder'
    BY <1>2, <1>3, <1>4, <2>1, <2>4 DEF RowsInOrder
  <2>6. QED
    BY <1>1, <1>5, <1>6, <2>3, <2>5 DEF HistoryInv
<1>9. QED
  BY <1>7, <1>8 DEF CloseRow, rows

\* The part of loop() before the measures, the ping and the loss of power.
LEMMA LogHistory == StationTypeOK /\ HistoryInv /\ Log => HistoryInv'
<1> SUFFICES ASSUME StationTypeOK, HistoryInv, Log PROVE HistoryInv'
  OBVIOUS
<1>1. CASE CloseRow
  BY <1>1, CloseRowHistory
<1>2. CASE Delay \/ CheckLog \/ WriteRow \/ OpenFails
  <2>1. UNCHANGED <<card, losses, nb_people>> /\ nb_people \in Nat
    BY <1>2 DEF Delay, CheckLog, WriteRow, OpenFails, StampLog, StationTypeOK
  <2>2. pc' = "close" => cache'.boot = losses /\ cache'.nb_people = nb_people'
    BY <1>2 DEF Delay, CheckLog, WriteRow, OpenFails, StampLog
  <2>3. QED
    BY <2>1, <2>2, HistoryKept
<1>3. QED
  BY <1>1, <1>2 DEF Log

LEMMA CounterHistory ==
    ASSUME NEW d, NEW threshold, StationTypeOK, HistoryInv,
           ppl_counter(d, threshold)
    PROVE  HistoryInv'
<1>1. /\ UNCHANGED <<card, losses>> /\ pc' = "delay"
      /\ nb_people' = nb_people \/ nb_people' = nb_people + 1
  BY DEF ppl_counter, PersonArrives, PersonLeaves, NothingNew, Sense
<1>2. nb_people \in Nat
  BY DEF StationTypeOK
<1>3. QED
  BY <1>1, <1>2, HistoryKept

LEMMA PowerLossHistory == StationTypeOK /\ HistoryInv /\ PowerLoss => HistoryInv'
<1> SUFFICES ASSUME StationTypeOK, HistoryInv, PowerLoss PROVE HistoryInv'
  OBVIOUS
<1>1. losses \in Nat /\ card \in Seq(Row)
  BY DEF StationTypeOK
<1>2. card # <<>> => card[Len(card)] \in Row
  BY <1>1, EmptySeq, ElementOfSeq
<1>3. UNCHANGED card /\ losses' = losses + 1 /\ pc' = "setup"
  BY DEF PowerLoss
<1>4. card # <<>> => card[Len(card)].boot < losses'
  BY <1>1, <1>2, <1>3 DEF HistoryInv, Row
<1>5. QED
  BY <1>1, <1>2, <1>3, <1>4 DEF HistoryInv, RowsInOrder, Row
=============================================================================
