----------------------------- MODULE SdStation -----------------------------
(***************************************************************************)
(* What the two stations that keep their data on an SD card share: loop()  *)
(* waits, appends a row to a csv file when UPDATE_TIME has gone by, then   *)
(* pings and feeds the distance to the two-state people counter.           *)
(*                                                                         *)
(* pc names the point of setup() and loop() the sketch has reached; the    *)
(* steps are split where a person may move, a call on the card may fail or *)
(* the power may go.  The climate and sound values are written in the row  *)
(* but decide nothing, and are left out.                                   *)
(***************************************************************************)
EXTENDS Corridor, Sequences

CONSTANTS
    UPDATE_TIME,     \* a row is due when more than this has gone by
    Wrap,            \* millis() counts modulo this (2^32 in the code)
    MaxPass,         \* the longest pass of loop()
    CardFaults,      \* TRUE: SD.begin and SD.open may fail
    KeepRows,        \* bound: the newest rows of the file that are kept
    MaxPowerLosses   \* bound: power losses in a behaviour

ASSUME LogAssumption ==
    /\ UPDATE_TIME \in Nat
    /\ MaxPass \in Nat \ {0}
    /\ Wrap \in Nat /\ UPDATE_TIME + 2 * MaxPass < Wrap
    /\ CardFaults \in BOOLEAN
    /\ KeepRows \in Nat \ {0} /\ MaxPowerLosses \in Nat

VARIABLES
    pc,          \* where setup() or loop() stands
    now,         \* millis()
    uptime,      \* millis() when the last row was due
    nb_people,   \* people counted since power-up
    state,       \* 1 while someone is in front of the sensor
    cache,       \* the row printed to the open file and not yet on the card
    card,        \* the newest rows of the csv file
    losses,      \* power losses so far
    elapsed      \* real time since uptime was set, saturated at Late

stationVars == <<body, passages, sampled, pc, now, uptime, nb_people, state, cache,
                 card, losses, elapsed>>

Points == {"setup", "delay", "log", "open", "close", "sense", "halted"}
Row    == [boot : Nat, uptime : Nat, nb_people : Nat]
NoRow  == [boot |-> 0, uptime |-> 0, nb_people |-> 0]
Late   == UPDATE_TIME + MaxPass + 1

\* Variant: a counter of milliseconds that never wraps around.
Plus_NoWrap(t, d) == t + d

\* The unsigned sum and difference of two values of millis().
Plus(t, d)  == IF t + d < Wrap THEN t + d ELSE t + d - Wrap
Minus(t, u) == IF t >= u THEN t - u ELSE t - u + Wrap

Saturated(e) == IF e < Late THEN e ELSE Late

StationTypeOK ==
    /\ SceneTypeOK
    /\ pc \in Points
    /\ now \in 0 .. Wrap - 1 /\ uptime \in 0 .. Wrap - 1
    /\ nb_people \in Nat
    /\ state \in {0, 1}
    /\ cache \in Row
    /\ card \in Seq(Row)
    /\ losses \in 0 .. MaxPowerLosses
    /\ elapsed \in 0 .. Late

StationInit ==
    /\ SceneInit
    /\ pc = "setup"
    /\ now = 0 /\ uptime = 0 /\ elapsed = 0
    /\ nb_people = 0 /\ state = 0
    /\ cache = NoRow /\ card = <<>>
    /\ losses = 0

\* A call of setup() fails and the sketch stays in for(;;).
Halt ==
    /\ pc = "setup"
    /\ pc' = "halted"
    /\ UNCHANGED <<body, passages, sampled, now, uptime, nb_people, state,
                   cache, card, losses, elapsed>>

----------------------------------------------------------------------------
(* loop() *)

\* delay(50), and the time the rest of the pass has taken.
Delay ==
    /\ pc = "delay"
    /\ \E d \in 1 .. MaxPass :
         now' = Plus(now, d) /\ elapsed' = Saturated(elapsed + d)
    /\ pc' = "log"
    /\ UNCHANGED <<body, passages, sampled, uptime, nb_people, state, cache,
                   card, losses>>

\* Variant: the deadline is compared instead of the difference.
Due_Deadline == now > Plus(uptime, UPDATE_TIME)

Due == Minus(now, uptime) > UPDATE_TIME

CheckLog ==
    /\ pc = "log"
    /\ pc' = IF Due THEN "open" ELSE "sense"
    /\ UNCHANGED <<body, passages, sampled, now, uptime, nb_people, state,
                   cache, card, losses, elapsed>>

\* write_file up to its last print: the row carries the previous uptime.
WriteRow ==
    /\ pc = "open"
    /\ cache' = [boot |-> losses, uptime |-> uptime, nb_people |-> nb_people]
    /\ pc' = "close"
    /\ UNCHANGED <<body, passages, sampled, now, uptime, nb_people, state,
                   card, losses, elapsed>>

\* close() puts the row on the card, the file is read back, and only then is
\* uptime set: the read-back takes time as well.
StampLog ==
    /\ \E d \in 1 .. MaxPass : now' = Plus(now, d) /\ uptime' = Plus(now, d)
    /\ elapsed' = 0
    /\ pc' = "sense"
    /\ UNCHANGED <<body, passages, sampled, nb_people, state, losses>>

\* Variants: the file is not closed, and its row never reaches the card; the
\* file is not opened for appending.
CloseRow_NotClosed ==
    /\ pc = "close"
    /\ StampLog
    /\ UNCHANGED <<cache, card>>

CloseRow_AtStart ==
    /\ pc = "close"
    /\ card' = <<cache>> \o SubSeq(card, 1, IF Len(card) < KeepRows THEN Len(card)
                                            ELSE KeepRows - 1)
    /\ cache' = NoRow
    /\ StampLog

CloseRow ==
    /\ pc = "close"
    /\ card' = LET rows == Append(card, cache)
               IN  IF Len(rows) > KeepRows THEN Tail(rows) ELSE rows
    /\ cache' = NoRow
    /\ StampLog

\* SD.open fails: every print is dropped, and uptime advances all the same.
OpenFails ==
    /\ pc = "open" /\ CardFaults
    /\ StampLog
    /\ UNCHANGED <<cache, card>>

\* The part of loop() before the measures.
Log == Delay \/ CheckLog \/ WriteRow \/ CloseRow \/ OpenFails

\* The ping, and what every outcome of ppl_counter leaves alone.
Sense(d) ==
    /\ pc = "sense"
    /\ d \in Echoes
    /\ Looked
    /\ pc' = "delay"
    /\ UNCHANGED <<now, uptime, cache, card, losses, elapsed>>

\* Variant: the person is counted on the way in as well.
PersonArrives_Counts(d, threshold) ==
    /\ Sense(d)
    /\ state = 0 /\ d < threshold
    /\ state' = 1
    /\ nb_people' = nb_people + 1

PersonArrives(d, threshold) ==
    /\ Sense(d)
    /\ state = 0 /\ d < threshold
    /\ state' = 1
    /\ UNCHANGED nb_people

\* Variants: whoever is not in front has left; state is not reset; the count
\* is not written back.
PersonLeaves_AnyState(d, threshold) ==
    /\ Sense(d)
    /\ d >= threshold
    /\ state' = 0
    /\ nb_people' = nb_people + 1

PersonLeaves_StateKept(d, threshold) ==
    /\ Sense(d)
    /\ state = 1 /\ d >= threshold
    /\ nb_people' = nb_people + 1
    /\ UNCHANGED state

PersonLeaves_NotCounted(d, threshold) ==
    /\ Sense(d)
    /\ state = 1 /\ d >= threshold
    /\ state' = 0
    /\ UNCHANGED nb_people

PersonLeaves(d, threshold) ==
    /\ Sense(d)
    /\ state = 1 /\ d >= threshold
    /\ state' = 0
    /\ nb_people' = nb_people + 1

NothingNew(d, threshold) ==
    /\ Sense(d)
    /\ (state = 1) <=> (d < threshold)
    /\ UNCHANGED <<state, nb_people>>

ppl_counter(d, threshold) ==
    \/ PersonArrives(d, threshold)
    \/ PersonLeaves(d, threshold)
    \/ NothingNew(d, threshold)

----------------------------------------------------------------------------
\* Somebody moves in front of the sensor, whatever the sketch is doing.
People(b, threshold) ==
    /\ Move(b, threshold)
    /\ UNCHANGED <<pc, now, uptime, nb_people, state, cache, card, losses,
                   elapsed>>

\* Power goes and comes back: RAM is lost, so is the row not yet closed.
PowerLoss ==
    /\ losses < MaxPowerLosses
    /\ losses' = losses + 1
    /\ SceneRestart
    /\ pc' = "setup"
    /\ now' = 0 /\ uptime' = 0 /\ elapsed' = 0
    /\ nb_people' = 0 /\ state' = 0
    /\ cache' = NoRow
    /\ UNCHANGED card

----------------------------------------------------------------------------
(* Properties *)

\* The counter never counts a person who was not there: every increment of
\* update_ppl() answers a passage of its own, although the sketch knows only
\* its previous state and the distance of the present ping.
NoPhantom == nb_people <= passages

\* What makes NoPhantom inductive: a pending count (state 1) is owed to the
\* person now in front of the sensor or to a passage not yet counted.
DebtPaid(threshold) ==
    nb_people + state <=
        passages + (IF state = 1 /\ InFront(body, threshold) THEN 1 ELSE 0)

\* "Upload values on SD card every 60 seconds": a row is written only when the
\* interval is over, and no ping is taken with a row overdue, whatever the
\* value millis() had when it wrapped around.
LogInterval ==
    /\ pc \in {"open", "close"} => elapsed > UPDATE_TIME
    /\ pc \in {"sense", "delay"} => elapsed <= UPDATE_TIME

\* The file is a history: rows stand in it in the order of the boots, and the
\* count of one boot never falls, with rows lost to a card that does not open
\* or to a power loss between write_file's first print and its close.
RowsInOrder ==
    \A i \in 2 .. Len(card) :
        LET new == card[i]  old == card[i - 1] IN
        /\ old.boot <= new.boot
        /\ old.boot = new.boot => old.nb_people <= new.nb_people

\* setup() could not use the card: the sketch stays in for(;;).
Stopped == <>[](pc = "halted")

\* Every person who passes ends up in the file, as long as the power stays:
\* the last row settles on the number of passages of the last boot, although
\* rows are lost when the card does not open.
AllLogged ==
    \/ Stopped
    \/ <>[](/\ card # <<>>
            /\ LET row == card[Len(card)]
               IN  row.boot = losses /\ row.nb_people = passages)

\* The station counts passages, each once and none in excess, and all of them
\* unless it has stopped: PassageCount is what it promises.
Promise == INSTANCE PassageCount WITH counted <- nb_people
NeverOvercounts == Promise!Safe
CountsEveryone  == Stopped \/ Promise!Live
=============================================================================
