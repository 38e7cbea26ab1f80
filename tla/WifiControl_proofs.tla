------------------------- MODULE WifiControl_proofs -------------------------
(***************************************************************************)
(* Theorems about WifiControl, for every bound on the events waiting and   *)
(* on the answers owed: what the status and the address say of the network *)
(* does not depend on how late events are heard.                           *)
(***************************************************************************)
EXTENDS WifiControl, SequenceTheorems, TLAPS

USE ControlAssumption DEF ControlAssumption

Status == {WL_NO_SHIELD, WL_IDLE_STATUS, WL_SCAN_COMPLETED, WL_CONNECTED,
           WL_CONNECT_FAILED, WL_DISCONNECTED}
Events == LinkEvents \union {"found", "nothing", "result"}

\* The type invariant with what it needs of the variables it leaves out; a
\* module that is switched off is as it is at power-up, and nobody waits for it.
ControlType ==
    /\ TypeOK
    /\ events \in Seq(Events)
    /\ tmp \in Status
    /\ call \in {"none", "begin"} \union Scanning
    /\ ~inited =>
         /\ call = "none" /\ mode = "reset" /\ order = "none" /\ link = "down"
         /\ events = <<>> /\ owed = NothingOwed

\* What is told of a connection: what ends it or shows that there is none, what
\* ends it, what makes it and what makes it usable with DHCP.
Down   == {"disconnected", "no default"}
Losses == {"disconnected"}
Joins  == {"connected"}
Leases == {"dhcp"}

\* Nothing of S is told after the i-th event that waits, or at all.
SilentAfter(i, S) == \A j \in DOMAIN events : j > i => events[j] \notin S
Quiet(S)          == \A j \in DOMAIN events : events[j] \notin S

\* The events that wait are what the link has gone through: the last of them
\* agree with what it has come to.
QueueInv ==
    \A i \in DOMAIN events :
        /\ events[i] = "dhcp" /\ SilentAfter(i, Losses) => link = "leased"
        /\ events[i] = "connected" /\ SilentAfter(i, Losses) =>
             link \in {"joined", "leased"}
        /\ events[i] \in Down /\ SilentAfter(i, Leases) => link # "leased"
        /\ events[i] \in Down /\ SilentAfter(i, Joins) =>
             link \notin {"joined", "leased"}

\* What makes AddressTrue inductive: an address outlives its lease only until
\* the loss is heard, and is not there when the loss would not be listened to:
\* begin() leaves the mode reset only when it has heard of nothing.
AddressInv ==
    /\ inited /\ dhcp /\ localip # 0 /\ Quiet(Losses) => link = "leased"
    /\ inited /\ dhcp /\ mode = "reset" => localip = 0
    /\ call = "begin" => status \notin {WL_CONNECT_FAILED, WL_NO_SHIELD}
    /\ call = "begin" /\ dhcp /\ status = WL_IDLE_STATUS => localip = 0

\* The status, or the one a scan has put aside.
Kept == IF call \in Scanning THEN tmp ELSE status

\* The events that decide what the status says of the network.
Deciding == Down \union {"dhcp"} \union (IF dhcp THEN {} ELSE {"connected"})

\* What makes StatusTrue inductive: when nothing that decides waits to be heard,
\* the status kept is not that of a connection without one, whatever has been
\* ordered; and it is that of a connection with one, unless begin() has just
\* been called or refused.
StatusInv ==
    ~upset /\ mode = "station" /\ Quiet(Deciding) =>
        /\ ~Up => Kept # WL_CONNECTED
        /\ Up /\ order = "none" /\ Kept # WL_CONNECT_FAILED => Kept = WL_CONNECTED

----------------------------------------------------------------------------
(* The queue of events *)

\* One event more: the others stay where they are.
LEMMA TellQueue ==
    ASSUME events \in Seq(Events), NEW e \in Events, Tell(e)
    PROVE  /\ events' \in Seq(Events) /\ Len(events') <= MaxEvents
           /\ DOMAIN events = 1 .. Len(events) /\ Len(events) \in Nat
           /\ DOMAIN events' = 1 .. Len(events) + 1
           /\ \A i \in 1 .. Len(events) : events'[i] = events[i]
           /\ events'[Len(events) + 1] = e
<1>1. events' = Append(events, e) /\ Len(events) < MaxEvents
  BY DEF Tell, Room
<1>2. QED
  BY <1>1, AppendProperties, LenProperties

\* One event less: the others move up.
LEMMA PumpQueue ==
    ASSUME events \in Seq(Events), Len(events) <= MaxEvents, events # <<>>,
           events' = Tail(events)
    PROVE  /\ events' \in Seq(Events) /\ Len(events') <= MaxEvents
           /\ DOMAIN events = 1 .. Len(events) /\ Len(events) \in Nat \ {0}
           /\ DOMAIN events' = 1 .. Len(events) - 1
           /\ \A i \in 1 .. Len(events) - 1 : events'[i] = events[i + 1]
           /\ Head(events) \in Events /\ Head(events) = events[1]
<1>1. Len(events) \in Nat \ {0} /\ DOMAIN events = 1 .. Len(events)
  BY EmptySeq, LenProperties
<1>2. /\ Head(events) \in Events /\ Tail(events) \in Seq(Events)
      /\ Len(Tail(events)) = Len(events) - 1
      /\ \A i \in 1 .. Len(Tail(events)) : Tail(events)[i] = events[i + 1]
  BY HeadTailProperties
<1>3. DOMAIN Tail(events) = 1 .. Len(events) - 1
  BY <1>2, LenProperties
<1>4. QED
  BY <1>1, <1>2, <1>3

\* What is silent after an event, or altogether, when one more is told.
LEMMA TellSilent ==
    ASSUME events \in Seq(Events), NEW e \in Events, Tell(e), NEW S
    PROVE  /\ \A i \in 1 .. Len(events) :
                SilentAfter(i, S)' <=> SilentAfter(i, S) /\ e \notin S
           /\ Quiet(S)' <=> Quiet(S) /\ e \notin S
  BY TellQueue DEF SilentAfter, Quiet

LEMMA LastOrBefore == \A n \in Nat : \A i \in 1 .. n + 1 : i = n + 1 \/ i \in 1 .. n
  OBVIOUS

LEMMA ShiftSilent ==
    ASSUME NEW n \in Nat \ {0}, NEW q, NEW r, \A i \in 1 .. n - 1 : r[i] = q[i + 1],
           NEW S, NEW i \in 0 .. n - 1
    PROVE  (\A j \in 1 .. n - 1 : j > i => r[j] \notin S)
             <=> (\A j \in 1 .. n : j > i + 1 => q[j] \notin S)
<1>1. ASSUME \A j \in 1 .. n - 1 : j > i => r[j] \notin S, NEW j \in 1 .. n, j > i + 1
      PROVE  q[j] \notin S
  <2>1. j - 1 \in 1 .. n - 1 /\ j - 1 > i
    BY <1>1
  <2>2. r[j - 1] = q[j - 1 + 1] /\ j - 1 + 1 = j
    BY <2>1
  <2>3. QED
    BY <1>1, <2>1, <2>2
<1>2. ASSUME \A j \in 1 .. n : j > i + 1 => q[j] \notin S, NEW j \in 1 .. n - 1, j > i
      PROVE  r[j] \notin S
  BY <1>2
<1>3. QED
  BY <1>1, <1>2

\* And when the first has been looked at.
LEMMA PumpSilent ==
    ASSUME events \in Seq(Events), Len(events) <= MaxEvents, events # <<>>,
           events' = Tail(events), NEW S
    PROVE  /\ \A i \in 1 .. Len(events) - 1 : SilentAfter(i, S)' <=> SilentAfter(i + 1, S)
           /\ Quiet(S)' <=> SilentAfter(1, S)
           /\ Quiet(S) <=> Quiet(S)' /\ Head(events) \notin S
<1>1. /\ DOMAIN events = 1 .. Len(events) /\ Len(events) \in Nat \ {0}
      /\ DOMAIN events' = 1 .. Len(events) - 1
      /\ \A i \in 1 .. Len(events) - 1 : events'[i] = events[i + 1]
      /\ Head(events) = events[1]
  BY PumpQueue
<1>2. ASSUME NEW i \in 0 .. Len(events) - 1
      PROVE  SilentAfter(i, S)' <=> SilentAfter(i + 1, S)
  <2>1. (\A j \in 1 .. Len(events) - 1 : j > i => events'[j] \notin S)
          <=> (\A j \in 1 .. Len(events) : j > i + 1 => events[j] \notin S)
    <3> DEFINE n == Len(events)
               q == events
               r == events'
    <3>1. n \in Nat \ {0} /\ (\A k \in 1 .. n - 1 : r[k] = q[k + 1]) /\ i \in 0 .. n - 1
      BY <1>1, <1>2
    <3>2. SUFFICES (\A j \in 1 .. n - 1 : j > i => r[j] \notin S)
                     <=> (\A j \in 1 .. n : j > i + 1 => q[j] \notin S)
      OBVIOUS
    <3> HIDE DEF n, q, r
    <3>3. QED
      BY <3>1, ShiftSilent
  <2>2. QED
    BY <1>1, <2>1, Zenon DEF SilentAfter
<1>3. Quiet(S)' <=> SilentAfter(0, S)'
  BY <1>1 DEF SilentAfter, Quiet
<1>4. Quiet(S)' <=> SilentAfter(1, S)
  BY <1>1, <1>2, <1>3
<1>5. Quiet(S) <=> SilentAfter(1, S) /\ Head(events) \notin S
  BY <1>1 DEF Quiet, SilentAfter
<1>6. QED
  BY <1>1, <1>2, <1>4, <1>5

----------------------------------------------------------------------------
(* Types *)

LEMMA AskedType ==
    ASSUME NEW a \in Scanning, owed \in [Scanning -> 0 .. MaxOwed], Asked(a)
    PROVE  owed' \in [Scanning -> 0 .. MaxOwed]
  BY DEF Asked

\* The calls that return at once.
LEMMA CallType ==
    ASSUME ControlType, init \/ config \/ disconnect \/ end \/ SetupAgain
    PROVE  ControlType'
<1> USE DEF ControlType, TypeOK, Status
<1>1. CASE init
  BY <1>1 DEF init, sketch, firmware
<1>2. CASE config
  BY <1>2 DEF config, Called, sketch, firmware
<1>3. CASE disconnect
  BY <1>3 DEF disconnect, Called, driver, sketch
<1>4. CASE end
  <2>1. <<>> \in Seq(Events) /\ Len(<<>>) = 0
    BY EmptySeq
  <2>2. NothingOwed \in [Scanning -> 0 .. MaxOwed]
    BY DEF NothingOwed
  <2>3. inited' \in BOOLEAN /\ setup' \in BOOLEAN /\ upset' \in BOOLEAN
    BY <1>4, Zenon DEF end
  <2>4. events' \in Seq(Events) /\ Len(events') <= MaxEvents
    BY <1>4, <2>1 DEF end
  <2>5. QED
    BY <1>4, <2>2, <2>3, <2>4 DEF end, Called
<1>5. CASE SetupAgain
  BY <1>5 DEF SetupAgain, Called, driver, firmware
<1>6. QED
  BY <1>1, <1>2, <1>3, <1>4, <1>5

\* The calls that wait, when they begin and when they end.
LEMMA WaitType ==
    ASSUME ControlType,
           StartBegin \/ BeginRefused \/ FirstScan \/ StartScan \/ StartResult
             \/ BeginReturns \/ ScanReturns
    PROVE  ControlType'
<1> USE DEF ControlType, TypeOK, Status
<1>1. CASE StartBegin
  BY <1>1 DEF StartBegin, Begin, Called, ModeOfBegin
<1>2. CASE BeginRefused
  BY <1>2 DEF BeginRefused, Begin, Called
<1>3. CASE StartScan
  <2>1. owed' \in [Scanning -> 0 .. MaxOwed]
    BY <1>3, AskedType DEF StartScan, Scanning
  <2>2. QED
    BY <1>3, <2>1 DEF StartScan, Called, Scanning
<1>4. CASE StartResult
  <2>1. owed' \in [Scanning -> 0 .. MaxOwed]
    BY <1>4, AskedType DEF StartResult, Scanning
  <2>2. QED
    BY <1>4, <2>1 DEF StartResult, Called, Scanning
<1>5. CASE BeginReturns
  <2>1. setup' \in BOOLEAN
    BY <1>5, Zenon DEF BeginReturns
  <2>2. QED
    BY <1>5, <2>1 DEF BeginReturns, firmware
<1>6. CASE ScanReturns
  <2>1. upset' \in BOOLEAN
    BY <1>6, Zenon DEF ScanReturns
  <2>2. QED
    BY <1>6, <2>1 DEF ScanReturns, firmware, StatusAfterScan
<1>7. CASE FirstScan
  <2>1. owed' \in [Scanning -> 0 .. MaxOwed]
    BY <1>7, AskedType DEF FirstScan, Scanning
  <2>2. QED
    BY <1>7, <2>1 DEF FirstScan, Scanning
<1>8. QED
  BY <1>1, <1>2, <1>3, <1>4, <1>5, <1>6, <1>7

LEMMA PumpType == ControlType /\ Pump => ControlType'
<1> SUFFICES ASSUME ControlType, Pump PROVE ControlType'
  OBVIOUS
<1>1. events' \in Seq(Events) /\ Len(events') <= MaxEvents
  BY PumpQueue DEF ControlType, TypeOK, Pump
<1>2. inProgress' \in BOOLEAN /\ upset' \in BOOLEAN
  BY Zenon DEF Pump
<1>3. status' \in Status /\ localip' \in {0, ADDRESS}
  BY DEF ControlType, TypeOK, Pump, OnStateChanged, OnDhcpConf, AddressLost, Status
<1>4. QED
  BY <1>1, <1>2, <1>3 DEF ControlType, TypeOK, Pump, sketch, Status

\* What every step of the firmware leaves alone, and how far it goes.
FirmwareStep ==
    /\ inited
    /\ UNCHANGED <<inited, status, mode, dhcp, localip, inProgress, call, tmp, setup, upset>>
    /\ order' \in {order, "none"} /\ link' \in {"down", "joining", "joined", "leased"}
    /\ owed' \in [Scanning -> 0 .. MaxOwed]

LEMMA FirmwareSteps == ControlType /\ Firmware => FirmwareStep
<1> SUFFICES ASSUME ControlType, Firmware PROVE FirmwareStep
  OBVIOUS
<1> USE DEF ControlType, TypeOK, FirmwareStep, driver, sketch
<1>1. CASE FwObeys
  BY <1>1 DEF FwObeys
<1>2. CASE FwJoins
  BY <1>2 DEF FwJoins
<1>3. CASE FwFails
  BY <1>3 DEF FwFails
<1>4. CASE FwLeases
  BY <1>4 DEF FwLeases
<1>5. CASE FwLoses
  BY <1>5 DEF FwLoses
<1>6. ASSUME NEW a \in Scanning, FwAnswers(a) PROVE FirmwareStep
  <2>1. inited
    BY <1>6 DEF FwAnswers, NothingOwed
  <2>2. owed' \in [Scanning -> 0 .. MaxOwed]
    BY <1>6 DEF FwAnswers
  <2>3. QED
    BY <1>6, <2>1, <2>2 DEF FwAnswers
<1>7. QED
  BY <1>1, <1>2, <1>3, <1>4, <1>5, <1>6 DEF Firmware

LEMMA EventsListed ==
    \A e \in {"connected", "disconnected", "dhcp", "no default", "found", "nothing",
              "result"} : e \in Events
<1>1. {"connected", "disconnected", "dhcp", "no default", "found", "nothing", "result"}
        = Events
  BY DEF Events, LinkEvents
<1>2. QED
  BY <1>1

LEMMA FirmwareTells == Firmware => UNCHANGED events \/ \E e \in Events : Tell(e)
  BY EventsListed, Zenon DEF Firmware, FwObeys, FwJoins, FwFails, FwLeases, FwLoses, FwAnswers

LEMMA FirmwareType == ControlType /\ Firmware => ControlType'
<1> SUFFICES ASSUME ControlType, Firmware PROVE ControlType'
  OBVIOUS
<1>1. \A e \in Events : Tell(e) => events' \in Seq(Events) /\ Len(events') <= MaxEvents
  BY TellQueue DEF ControlType
<1>3. UNCHANGED events \/ \E e \in Events : Tell(e)
  BY FirmwareTells
<1>4. events' \in Seq(Events) /\ Len(events') <= MaxEvents
  BY <1>1, <1>3 DEF ControlType, TypeOK
<1>5. QED
  BY <1>4, FirmwareSteps DEF ControlType, TypeOK, FirmwareStep

LEMMA InitType == Init => ControlType
<1> SUFFICES ASSUME Init PROVE ControlType
  OBVIOUS
<1>1. <<>> \in Seq(Events) /\ Len(<<>>) = 0
  BY EmptySeq
<1>2. NothingOwed \in [Scanning -> 0 .. MaxOwed]
  BY DEF NothingOwed
<1>3. /\ inited \in BOOLEAN /\ dhcp \in BOOLEAN /\ inProgress \in BOOLEAN
      /\ setup \in BOOLEAN /\ upset \in BOOLEAN
  BY Zenon DEF Init
<1>4. events \in Seq(Events) /\ Len(events) <= MaxEvents
  BY <1>1 DEF Init
<1>5. QED
  BY <1>2, <1>3, <1>4 DEF Init, ControlType, TypeOK, Status

LEMMA TypeStep == ControlType /\ [Next]_vars => ControlType'
<1> SUFFICES ASSUME ControlType, [Next]_vars PROVE ControlType'
  OBVIOUS
<1>1. CASE UNCHANGED vars
  BY <1>1 DEF vars, driver, sketch, firmware, ControlType, TypeOK
<1>2. QED
  BY <1>1, CallType, WaitType, PumpType, FirmwareType DEF Next

\* Every variable keeps its type: the firmware never tells more than the host
\* has room for, and the status is one of those the sketch knows.
THEOREM TypeCorrect == Spec => [](TypeOK /\ ControlType)
<1>1. ControlType => TypeOK
  BY DEF ControlType
<1>2. QED
  BY <1>1, InitType, TypeStep, PTL DEF Spec

----------------------------------------------------------------------------
(* The queue and the link *)

LEMMA QueueTold ==
    ASSUME ControlType, QueueInv, NEW e \in Events, Tell(e),
           \/ /\ e # "connected" /\ e # "dhcp" /\ e # "disconnected" /\ e # "no default"
              /\ link' = link
           \/ link = "joining" /\ e = "connected" /\ link' = "joined"
           \/ link = "joined" /\ e = "dhcp" /\ link' = "leased"
           \/ e = "disconnected" /\ (link' = "down" \/ link' = "joining")
           \/ link = "joining" /\ e = "no default" /\ link' = "down"
    PROVE  QueueInv'
<1>1. /\ DOMAIN events' = 1 .. Len(events) + 1 /\ Len(events) \in Nat
      /\ \A i \in 1 .. Len(events) : events'[i] = events[i]
      /\ events'[Len(events) + 1] = e /\ DOMAIN events = 1 .. Len(events)
  BY TellQueue DEF ControlType
<1>2. /\ \A i \in 1 .. Len(events) :
           SilentAfter(i, Losses)'
             <=> SilentAfter(i, Losses) /\ e \notin Losses
      /\ \A i \in 1 .. Len(events) : SilentAfter(i, Leases)'
             <=> SilentAfter(i, Leases) /\ e \notin Leases
      /\ \A i \in 1 .. Len(events) : SilentAfter(i, Joins)'
             <=> SilentAfter(i, Joins) /\ e \notin Joins
  BY TellSilent DEF ControlType
<1> SUFFICES ASSUME NEW i \in 1 .. Len(events) + 1
    PROVE  /\ events'[i] = "dhcp" /\ SilentAfter(i, Losses)' => link' = "leased"
           /\ events'[i] = "connected" /\ SilentAfter(i, Losses)' =>
                link' \in {"joined", "leased"}
           /\ events'[i] \in Down /\ SilentAfter(i, Leases)' => link' # "leased"
           /\ events'[i] \in Down /\ SilentAfter(i, Joins)' =>
                link' \notin {"joined", "leased"}
  BY <1>1 DEF QueueInv
<1>3. CASE i = Len(events) + 1
  <2>1. events'[i] = e
    BY <1>1, <1>3
  <2>2. /\ e = "dhcp" => link' = "leased"
        /\ e = "connected" => link' \in {"joined", "leased"}
        /\ e \in Down => link' \notin {"joined", "leased"} /\ link' # "leased"
    BY DEF Down
  <2>3. QED
    BY <2>1, <2>2, Zenon
<1>4. CASE i \in 1 .. Len(events)
  <2>1. /\ e \in Losses <=> e = "disconnected"
        /\ e \in Leases <=> e = "dhcp"
        /\ e \in Joins <=> e = "connected"
    BY DEF Losses, Leases, Joins
  <2>2. events'[i] = events[i] /\ i \in DOMAIN events
    BY <1>1, <1>4
  <2>3. /\ SilentAfter(i, Losses)' <=> SilentAfter(i, Losses) /\ e \notin Losses
        /\ SilentAfter(i, Leases)' <=> SilentAfter(i, Leases) /\ e \notin Leases
        /\ SilentAfter(i, Joins)' <=> SilentAfter(i, Joins) /\ e \notin Joins
    BY <1>2, <1>4
  <2>4. /\ events[i] = "dhcp" /\ SilentAfter(i, Losses) => link = "leased"
        /\ events[i] = "connected" /\ SilentAfter(i, Losses) =>
             link \in {"joined", "leased"}
        /\ events[i] \in Down /\ SilentAfter(i, Leases) => link # "leased"
        /\ events[i] \in Down /\ SilentAfter(i, Joins) =>
             link \notin {"joined", "leased"}
    BY <2>2, Zenon DEF QueueInv
  <2>5. QED
    BY <2>1, <2>2, <2>3, <2>4
<1>5. i = Len(events) + 1 \/ i \in 1 .. Len(events)
  BY <1>1, LastOrBefore, Zenon
<1>6. QED
  BY <1>3, <1>4, <1>5, Zenon

LEMMA QueueStep == ControlType /\ QueueInv /\ [Next]_vars => QueueInv'
<1> SUFFICES ASSUME ControlType, QueueInv, [Next]_vars PROVE QueueInv'
  OBVIOUS
<1>1. ASSUME UNCHANGED <<events, link>> PROVE QueueInv'
  BY <1>1 DEF QueueInv, SilentAfter
<1>2. CASE UNCHANGED vars
  BY <1>1, <1>2 DEF vars, firmware
<1>3. CASE init \/ config \/ disconnect \/ SetupAgain
  BY <1>1, <1>3 DEF init, config, disconnect, SetupAgain, firmware
<1>4. CASE end
  <2>1. DOMAIN events' = {}
    BY <1>4, EmptySeq, LenProperties DEF end
  <2>2. QED
    BY <2>1 DEF QueueInv
<1>5. CASE \/ StartBegin \/ BeginRefused \/ FirstScan \/ StartScan \/ StartResult
            \/ BeginReturns \/ ScanReturns
  BY <1>1, <1>5 DEF StartBegin, BeginRefused, Begin, FirstScan, StartScan, StartResult,
     BeginReturns, ScanReturns, firmware
<1>6. CASE Pump
  <2>1. /\ DOMAIN events' = 1 .. Len(events) - 1 /\ Len(events) \in Nat \ {0}
        /\ \A i \in 1 .. Len(events) - 1 : events'[i] = events[i + 1]
        /\ DOMAIN events = 1 .. Len(events)
    BY <1>6, PumpQueue DEF ControlType, TypeOK, Pump
  <2>2. \A S : \A i \in 1 .. Len(events) - 1 : SilentAfter(i, S)' <=> SilentAfter(i + 1, S)
    BY <1>6, PumpSilent DEF ControlType, TypeOK, Pump
  <2>3. link' = link
    BY <1>6 DEF Pump
  <2>4. \A i \in 1 .. Len(events) - 1 : i + 1 \in DOMAIN events
    BY <2>1
  <2>5. QED
    BY <2>1, <2>2, <2>3, <2>4 DEF QueueInv
<1>7. CASE Firmware
  <2> USE DEF LinkEvents, Events
  <2>1. CASE FwObeys
    <3>1. CASE Tell("disconnected")
      BY <2>1, <3>1, QueueTold DEF FwObeys
    <3>2. CASE link \notin {"joined", "leased"} /\ UNCHANGED events /\ link' \in {"down", "joining"}
      BY <3>2 DEF QueueInv, SilentAfter
    <3>3. QED
      BY <2>1, <3>1, <3>2 DEF FwObeys
  <2>2. CASE FwJoins
    BY <2>2, QueueTold DEF FwJoins
  <2>3. CASE FwFails
    BY <2>3, QueueTold DEF FwFails
  <2>4. CASE FwLeases
    BY <2>4, QueueTold DEF FwLeases
  <2>5. CASE FwLoses
    BY <2>5, QueueTold DEF FwLoses
  <2>6. ASSUME NEW a \in Scanning, FwAnswers(a) PROVE QueueInv'
    <3>1. link' = link /\ (Tell("found") \/ Tell("nothing") \/ Tell("result"))
      BY <2>6, Zenon DEF FwAnswers
    <3>2. QED
      BY <3>1, QueueTold
  <2>7. QED
    BY <1>7, <2>1, <2>2, <2>3, <2>4, <2>5, <2>6 DEF Firmware
<1>8. QED
  BY <1>2, <1>3, <1>4, <1>5, <1>6, <1>7 DEF Next

----------------------------------------------------------------------------
(* The address *)

\* The statuses that have a bit of WL_CONNECTED are all but those of a call
\* that has not been answered, or not been made.
LEMMA BitsOfConnected ==
    \A s \in Status : ~Has(s, WL_CONNECTED) => s \in {WL_IDLE_STATUS, WL_CONNECT_FAILED}
<1>1. (1 \div 1) % 2 = 1 /\ (3 \div 1) % 2 = 1 /\ (255 \div 1) % 2 = 1
  OBVIOUS
<1>2. (2 \div 2) % 2 = 1 /\ (3 \div 2) % 2 = 1 /\ (6 \div 2) % 2 = 1
  OBVIOUS
<1>3. Has(2, 3) /\ Has(3, 3) /\ Has(6, 3) /\ Has(255, 3)
  BY <1>1, <1>2 DEF Has
<1>4. QED
  BY <1>3 DEF Status, WL_NO_SHIELD, WL_IDLE_STATUS, WL_SCAN_COMPLETED, WL_CONNECTED,
              WL_CONNECT_FAILED, WL_DISCONNECTED

\* What the status and the address become when e is heard.
Heard(e) ==
    /\ e = "connected" =>
         /\ status' = IF mode = "station" /\ ~dhcp THEN WL_CONNECTED ELSE status
         /\ localip' = localip
    /\ e = "disconnected" =>
         /\ status' = IF mode = "station" THEN WL_DISCONNECTED ELSE status
         /\ localip' = IF mode = "station" /\ dhcp THEN 0 ELSE localip
    /\ e = "dhcp" =>
         /\ status' = IF mode = "station" THEN WL_CONNECTED ELSE status
         /\ localip' = IF mode = "station" THEN ADDRESS ELSE localip
    /\ e = "no default" => status' = WL_DISCONNECTED /\ localip' = localip
    /\ e = "nothing" => status' = status /\ localip' = localip
    /\ e = "found" \/ e = "result" => status' = WL_SCAN_COMPLETED /\ localip' = localip
    /\ \/ e = "connected" \/ e = "disconnected" \/ e = "dhcp" \/ e = "no default"
       \/ e = "nothing" \/ e = "found" \/ e = "result"

LEMMA PumpHears ==
    ASSUME ControlType, Pump
    PROVE  \E e \in Events : e = Head(events) /\ Heard(e)
<1>1. Head(events) \in Events
  BY PumpQueue DEF ControlType, TypeOK, Pump
<1>2. Heard(Head(events))
  BY Zenon DEF Heard, Pump, OnStateChanged, OnDhcpConf, AddressLost
<1>3. QED
  BY <1>1, <1>2

LEMMA AddressStep ==
    ControlType /\ QueueInv /\ AddressInv /\ [Next]_vars => AddressInv'
<1> SUFFICES ASSUME ControlType, QueueInv, AddressInv, [Next]_vars PROVE AddressInv'
  OBVIOUS
<1> USE DEF WL_NO_SHIELD, WL_IDLE_STATUS, WL_SCAN_COMPLETED, WL_CONNECTED,
            WL_CONNECT_FAILED, WL_DISCONNECTED
<1>1. ASSUME UNCHANGED events PROVE Quiet(Losses)' <=> Quiet(Losses)
  BY <1>1 DEF Quiet
<1>2. CASE UNCHANGED vars
  BY <1>1, <1>2 DEF vars, driver, sketch, firmware, AddressInv
<1>3. CASE init
  BY <1>3 DEF init, sketch, firmware, AddressInv
<1>4. CASE config
  BY <1>4 DEF config, Called, sketch, firmware, AddressInv
<1>5. CASE disconnect \/ SetupAgain
  BY <1>1, <1>5 DEF disconnect, SetupAgain, Called, driver, sketch, firmware, AddressInv
<1>6. CASE end
  BY <1>6 DEF end, Called, AddressInv
<1>7. CASE StartBegin
  BY <1>7 DEF StartBegin, Begin, Called, ModeOfBegin, AddressInv
<1>8. CASE BeginRefused
  BY <1>8 DEF BeginRefused, Begin, Called, AddressInv
<1>9. CASE FirstScan \/ StartScan \/ StartResult
  BY <1>1, <1>9 DEF FirstScan, StartScan, StartResult, Called, AddressInv
<1>10. CASE BeginReturns
  <2>1. dhcp /\ mode' = "reset" /\ mode # "reset" => localip = 0
    BY <1>10, BitsOfConnected DEF BeginReturns, AddressInv, ControlType, TypeOK, Status
  <2>2. QED
    BY <1>1, <1>10, <2>1 DEF BeginReturns, AddressInv, firmware
<1>11. CASE ScanReturns
  BY <1>1, <1>11 DEF ScanReturns, AddressInv, firmware
<1>12. CASE Pump
  <2>1. /\ UNCHANGED <<inited, mode, dhcp, call, link>> /\ events # <<>>
        /\ events' = Tail(events)
    BY <1>12 DEF Pump, sketch
  <2>2. PICK e \in Events : e = Head(events) /\ Heard(e)
    BY <1>12, PumpHears
  <2>3. /\ Quiet(Losses)' <=> SilentAfter(1, Losses)
        /\ Quiet(Losses) <=> Quiet(Losses)' /\ e # "disconnected"
    BY <2>1, <2>2, PumpSilent DEF ControlType, TypeOK, Losses
  <2>4. e = events[1] /\ 1 \in DOMAIN events
    BY <2>1, <2>2, PumpQueue DEF ControlType, TypeOK
  <2>5. e = "dhcp" /\ Quiet(Losses)' => link = "leased"
    BY <2>3, <2>4 DEF QueueInv
  <2>6. inited' /\ dhcp' /\ localip' # 0 /\ Quiet(Losses)' => link' = "leased"
    BY <2>1, <2>2, <2>3, <2>5 DEF Heard, AddressInv, ControlType, TypeOK
  <2>7. inited' /\ dhcp' /\ mode' = "reset" => localip' = 0
    BY <2>1, <2>2 DEF Heard, AddressInv
  <2>8. \A s \in {WL_SCAN_COMPLETED, WL_CONNECTED, WL_DISCONNECTED} :
           s \notin {WL_CONNECT_FAILED, WL_NO_SHIELD} /\ s # WL_IDLE_STATUS
    OBVIOUS
  <2> HIDE DEF WL_NO_SHIELD, WL_IDLE_STATUS, WL_SCAN_COMPLETED, WL_CONNECTED,
               WL_CONNECT_FAILED, WL_DISCONNECTED
  <2>9. \/ status' \in {WL_SCAN_COMPLETED, WL_CONNECTED, WL_DISCONNECTED}
        \/ UNCHANGED <<status, localip>>
    BY <2>2, Zenon DEF Heard
  <2>10. call' = "begin" => status' \notin {WL_CONNECT_FAILED, WL_NO_SHIELD}
    BY <2>1, <2>8, <2>9, Zenon DEF AddressInv
  <2>11. call' = "begin" /\ dhcp' /\ status' = WL_IDLE_STATUS => localip' = 0
    BY <2>1, <2>8, <2>9, Zenon DEF AddressInv
  <2>12. QED
    BY <2>6, <2>7, <2>10, <2>11, Zenon DEF AddressInv
<1>13. CASE Firmware
  <2>1. UNCHANGED <<inited, status, mode, dhcp, localip, call>>
    BY <1>13, FirmwareSteps DEF FirmwareStep
  <2>2. Quiet(Losses)' /\ link = "leased" => link' = "leased"
    <3>1. ASSUME Tell("disconnected") PROVE ~Quiet(Losses)'
      BY <3>1, TellSilent DEF ControlType, Events, LinkEvents, Losses
    <3>2. QED
      BY <1>13, <3>1 DEF Firmware, FwObeys, FwJoins, FwFails, FwLeases, FwLoses, FwAnswers
  <2>3. Quiet(Losses)' => Quiet(Losses)
    <3>1. ASSUME NEW e \in Events, Tell(e) PROVE Quiet(Losses)' => Quiet(Losses)
      BY <3>1, TellSilent DEF ControlType
    <3>2. QED
      BY <1>1, <1>13, <3>1, FirmwareTells
  <2>4. QED
    BY <2>1, <2>2, <2>3 DEF AddressInv
<1>14. QED
  BY <1>2, <1>3, <1>4, <1>5, <1>6, <1>7, <1>8, <1>9, <1>10, <1>11, <1>12, <1>13 DEF Next

----------------------------------------------------------------------------
(* The status *)

LEMMA DecidingTold ==
    ASSUME ControlType, NEW e \in Events, Tell(e), dhcp' = dhcp
    PROVE  Quiet(Deciding)' <=> Quiet(Deciding) /\ e \notin Deciding
<1>1. Deciding' = Deciding
  BY DEF Deciding
<1>2. QED
  BY <1>1, TellQueue DEF Quiet, ControlType

LEMMA DecidingHeard ==
    ASSUME ControlType, QueueInv, Pump, Quiet(Deciding)', NEW e, e = Head(events)
    PROVE  /\ Quiet(Deciding) <=> e \notin Deciding
           /\ e = "dhcp" => link = "leased"
           /\ e = "connected" /\ ~dhcp => link \in {"joined", "leased"}
           /\ e \in Down => link # "leased" /\ (~dhcp => link # "joined")
<1>1. /\ DOMAIN events = 1 .. Len(events) /\ Len(events) \in Nat \ {0}
      /\ DOMAIN events' = 1 .. Len(events) - 1
      /\ \A i \in 1 .. Len(events) - 1 : events'[i] = events[i + 1]
      /\ e = events[1] /\ 1 \in DOMAIN events
  <2>1. events # <<>> /\ events' = Tail(events)
    BY DEF Pump
  <2>2. QED
    BY <2>1, PumpQueue DEF ControlType, TypeOK
<1>2. Deciding' = Deciding
  BY DEF Deciding, Pump
<1>3. ASSUME NEW j \in DOMAIN events, j > 1 PROVE events[j] \notin Deciding
  <2>1. j - 1 \in DOMAIN events' /\ events'[j - 1] = events[j]
    BY <1>1, <1>3
  <2>2. QED
    BY <1>2, <2>1 DEF Quiet
<1>4. Quiet(Deciding) <=> e \notin Deciding
  BY <1>1, <1>3 DEF Quiet
<1>5. SilentAfter(1, Losses) /\ SilentAfter(1, Leases) /\ (~dhcp => SilentAfter(1, Joins))
  BY <1>3 DEF SilentAfter, Deciding, Down, Losses, Leases, Joins
<1>6. /\ e = "dhcp" /\ SilentAfter(1, Losses) => link = "leased"
      /\ e = "connected" /\ SilentAfter(1, Losses) => link \in {"joined", "leased"}
      /\ e \in Down /\ SilentAfter(1, Leases) => link # "leased"
      /\ e \in Down /\ SilentAfter(1, Joins) => link \notin {"joined", "leased"}
  BY <1>1, Zenon DEF QueueInv
<1>7. QED
  BY <1>4, <1>5, <1>6, Zenon

\* What does not change the link, the order, the queue nor the status kept.
LEMMA StatusUnchanged ==
    ASSUME StatusInv,
           UNCHANGED <<dhcp, order, link, events>>, Kept' = Kept,
           ~upset' => ~upset, mode' = "station" => mode = "station"
    PROVE  StatusInv'
<1>1. Quiet(Deciding)' <=> Quiet(Deciding)
  BY DEF Quiet, Deciding
<1>2. Up' <=> Up
  BY DEF Up
<1>3. QED
  BY <1>1, <1>2, Zenon DEF StatusInv

LEMMA StatusCalls ==
    ASSUME ControlType, StatusInv,
           init \/ config \/ disconnect \/ end \/ SetupAgain \/ StartBegin \/ BeginRefused
             \/ FirstScan \/ StartScan \/ StartResult \/ BeginReturns \/ ScanReturns
    PROVE  StatusInv'
<1>1. WL_CONNECT_FAILED # WL_CONNECTED /\ WL_IDLE_STATUS # WL_CONNECTED
  BY DEF WL_CONNECT_FAILED, WL_CONNECTED, WL_IDLE_STATUS
<1>2. CASE init
  <2>1. mode' # "station"
    BY <1>2 DEF init, ControlType
  <2>2. QED
    BY <2>1 DEF StatusInv
<1>3. CASE config
  <2>1. /\ ~Up /\ ~Up' /\ Kept' = Kept /\ UNCHANGED <<mode, upset>>
    BY <1>3 DEF config, Called, Up, Kept, sketch, firmware
  <2>2. Quiet(Deciding)' => Quiet(Deciding)
    BY <1>3 DEF config, Quiet, Deciding, firmware
  <2>3. QED
    BY <2>1, <2>2, Zenon DEF StatusInv
<1>4. CASE disconnect
  <2>1. /\ UNCHANGED <<dhcp, link, events, mode, upset>> /\ Kept' = Kept /\ order' # "none"
    BY <1>4 DEF disconnect, Called, driver, sketch, Kept
  <2>2. (Quiet(Deciding)' <=> Quiet(Deciding)) /\ (Up' <=> Up)
    BY <2>1 DEF Quiet, Deciding, Up
  <2>3. QED
    BY <2>1, <2>2, Zenon DEF StatusInv
<1>5. CASE end
  BY <1>5 DEF end, StatusInv
<1>6. CASE SetupAgain
  BY <1>6, StatusUnchanged DEF SetupAgain, Called, driver, firmware, Kept
<1>7. CASE StartBegin
  <2>1. Kept' = WL_IDLE_STATUS /\ order' # "none"
    BY <1>7 DEF StartBegin, Begin, Kept, Scanning
  <2>2. QED
    BY <1>1, <2>1, Zenon DEF StatusInv
<1>8. CASE BeginRefused
  <2>1. Kept' = WL_CONNECT_FAILED
    BY <1>8 DEF BeginRefused, Begin, Called, Kept, Scanning
  <2>2. QED
    BY <1>1, <2>1, Zenon DEF StatusInv
<1>9. CASE StartScan \/ StartResult
  BY <1>9, StatusUnchanged DEF StartScan, StartResult, Called, Kept, Scanning
<1>10. CASE BeginReturns
  BY <1>10, StatusUnchanged DEF BeginReturns, Kept, Scanning, firmware
<1>11. CASE ScanReturns
  <2>1. Kept' = Kept /\ (~upset' => ~upset) /\ UNCHANGED <<dhcp, mode, order, link, events>>
    BY <1>11 DEF ScanReturns, StatusAfterScan, Kept, Scanning, firmware
  <2>2. QED
    BY <2>1, StatusUnchanged
<1>12. CASE FirstScan
  <2>1. mode' # "station"
    BY <1>12 DEF FirstScan, ControlType
  <2>2. QED
    BY <2>1 DEF StatusInv
<1>13. QED
  BY <1>2, <1>3, <1>4, <1>5, <1>6, <1>7, <1>8, <1>9, <1>10, <1>11, <1>12

LEMMA StatusPump ==
    ASSUME ControlType, QueueInv, StatusInv, Pump
    PROVE  StatusInv'
<1>1. /\ UNCHANGED <<mode, dhcp, call, tmp, order, link>> /\ (~upset' => ~upset)
      /\ ~upset' => ~(call \in Scanning /\ Head(events) \in LinkEvents)
      /\ ~upset' => ~(call \notin Scanning /\ Head(events) \in {"found", "result"})
  BY Zenon DEF Pump, sketch
<1>2. PICK e \in Events : e = Head(events) /\ Heard(e)
  BY PumpHears
<1> SUFFICES ASSUME ~upset', mode' = "station", Quiet(Deciding)'
             PROVE  /\ ~Up' => Kept' # WL_CONNECTED
                    /\ Up' /\ order' = "none" /\ Kept' # WL_CONNECT_FAILED =>
                         Kept' = WL_CONNECTED
  BY DEF StatusInv
<1>3. /\ Quiet(Deciding) <=> e \notin Deciding
      /\ e = "dhcp" => link = "leased"
      /\ e = "connected" /\ ~dhcp => link \in {"joined", "leased"}
      /\ e \in Down => link # "leased" /\ (~dhcp => link # "joined")
  BY <1>2, DecidingHeard
<1>4. Up' <=> Up
  BY <1>1 DEF Up
<1>5. WL_DISCONNECTED # WL_CONNECTED
  BY DEF WL_DISCONNECTED, WL_CONNECTED
<1>6. /\ e = "connected" => e \notin Down /\ e # "dhcp"
      /\ e = "dhcp" => e \in Deciding
      /\ e \in Down => e \in Deciding /\ (e = "disconnected" \/ e = "no default")
      /\ e = "nothing" \/ e = "found" \/ e = "result" => e \notin Deciding
      /\ e = "connected" /\ dhcp => e \notin Deciding
      /\ e \in {"connected", "disconnected", "dhcp", "no default"} => e \in LinkEvents
  BY Zenon DEF Deciding, Down, LinkEvents
<1>7. CASE e \notin Deciding
  <2>1. Kept' = Kept
    BY <1>1, <1>2, <1>6, <1>7, Zenon DEF Heard, Kept, Deciding, Down
  <2>2. QED
    BY <1>1, <1>3, <1>4, <1>7, <2>1, Zenon DEF StatusInv
<1>8. CASE e \in Deciding
  <2>1. call \notin Scanning /\ Kept' = status'
    BY <1>1, <1>2, <1>6, <1>8, Zenon DEF Kept, Deciding, Down
  <2>2. CASE e \in Down
    <3>1. status' = WL_DISCONNECTED /\ ~Up
      BY <1>1, <1>2, <1>3, <1>6, <2>2, Zenon DEF Heard, Up
    <3>2. QED
      BY <1>4, <1>5, <2>1, <3>1, Zenon
  <2>3. CASE e = "dhcp" \/ (e = "connected" /\ ~dhcp)
    <3>1. status' = WL_CONNECTED /\ Up
      BY <1>1, <1>2, <1>3, <2>3, Zenon DEF Heard, Up
    <3>2. QED
      BY <1>4, <2>1, <3>1, Zenon
  <2>4. QED
    BY <1>8, <2>2, <2>3, Zenon DEF Deciding
<1>9. QED
  BY <1>7, <1>8

LEMMA StatusFirmware ==
    ASSUME ControlType, StatusInv, Firmware
    PROVE  StatusInv'
<1>1. UNCHANGED <<mode, dhcp, upset>> /\ Kept' = Kept
  BY FirmwareSteps DEF FirmwareStep, Kept
<1>2. ASSUME NEW e \in Deciding, e \in Events, Tell(e) PROVE StatusInv'
  BY <1>1, <1>2, DecidingTold DEF StatusInv
<1>4. \A e \in {"connected", "disconnected", "dhcp", "no default", "found", "nothing",
                "result"} : e \in Events
  BY EventsListed
<1>5. /\ "disconnected" \in Deciding /\ "no default" \in Deciding /\ "dhcp" \in Deciding
      /\ ~dhcp => "connected" \in Deciding
      /\ dhcp => "connected" \notin Deciding
  BY Zenon DEF Deciding, Down
<1>6. CASE FwObeys
  <2>1. CASE Tell("disconnected")
    BY <1>2, <1>4, <1>5, <2>1, Zenon
  <2>2. CASE UNCHANGED events /\ link \notin {"joined", "leased"} /\ link' \notin {"joined", "leased"}
    <3>1. ~Up /\ ~Up' /\ (Quiet(Deciding)' <=> Quiet(Deciding))
      BY <1>1, <2>2 DEF Up, Quiet, Deciding
    <3>2. QED
      BY <1>1, <3>1, Zenon DEF StatusInv
  <2>3. QED
    BY <1>6, <2>1, <2>2 DEF FwObeys
<1>7. CASE FwJoins
  <2>1. CASE ~dhcp
    BY <1>2, <1>4, <1>5, <1>7, <2>1, Zenon DEF FwJoins
  <2>2. CASE dhcp
    <3>1. Quiet(Deciding)' => Quiet(Deciding)
      BY <1>1, <1>4, <1>7, DecidingTold, Zenon DEF FwJoins
    <3>2. ~Up /\ ~Up'
      BY <1>1, <1>7, <2>2, Zenon DEF FwJoins, Up
    <3>3. QED
      BY <1>1, <3>1, <3>2, Zenon DEF StatusInv
  <2>3. QED
    BY <2>1, <2>2
<1>8. CASE FwFails \/ FwLoses
  BY <1>2, <1>4, <1>5, <1>8, Zenon DEF FwFails, FwLoses
<1>9. CASE FwLeases
  BY <1>2, <1>4, <1>5, <1>9, Zenon DEF FwLeases
<1>10. ASSUME NEW a \in Scanning, FwAnswers(a) PROVE StatusInv'
  <2>1. PICK e \in Events : Tell(e)
    BY <1>4, <1>10, Zenon DEF FwAnswers
  <2>2. Quiet(Deciding)' => Quiet(Deciding)
    BY <1>1, <2>1, DecidingTold
  <2>3. (Up' <=> Up) /\ order' = order
    BY <1>1, <1>10, Zenon DEF FwAnswers, Up
  <2>4. QED
    BY <1>1, <2>2, <2>3, Zenon DEF StatusInv
<1>11. QED
  BY <1>6, <1>7, <1>8, <1>9, <1>10 DEF Firmware

----------------------------------------------------------------------------
(* Theorems *)

LEMMA QueueInit == Init => ControlType /\ QueueInv /\ AddressInv /\ StatusInv
<1> SUFFICES ASSUME Init PROVE QueueInv /\ AddressInv /\ StatusInv
  BY InitType
<1>1. DOMAIN events = {}
  BY EmptySeq, LenProperties DEF Init
<1>2. QED
  BY <1>1 DEF Init, QueueInv, AddressInv, StatusInv

LEMMA ControlStep ==
    ControlType /\ QueueInv /\ [Next]_vars => ControlType' /\ QueueInv'
  BY TypeStep, QueueStep

\* WiFi.cpp's wifi_cb: however late the loss of the network is heard, in
\* whatever call, a leased address is not kept once it has been.
THEOREM AddressCorrect == Spec => []AddressTrue
<1> DEFINE IInv == ControlType /\ QueueInv /\ AddressInv
<1>1. Init => IInv
  BY QueueInit
<1>2. IInv /\ [Next]_vars => IInv'
  BY ControlStep, AddressStep
<1>3. IInv => AddressTrue
  <2>1. ControlType /\ Told => Quiet(Losses)
    BY DEF Told, Quiet, Losses, LinkEvents
  <2>2. QED
    BY <2>1 DEF AddressInv, AddressTrue
<1>4. QED
  BY <1>1, <1>2, <1>3, PTL DEF Spec

\* begin(), the scans and wifi_cb: once all has been heard the status is that of
\* a connection exactly when there is one, as long as no scan was disturbed.
THEOREM StatusCorrect == Spec => []StatusTrue
<1> DEFINE IInv == ControlType /\ QueueInv /\ StatusInv
<1>1. Init => IInv
  BY QueueInit
<1>2. IInv /\ [Next]_vars => IInv'
  <2> SUFFICES ASSUME IInv, [Next]_vars PROVE StatusInv'
    BY ControlStep
  <2>1. CASE UNCHANGED vars
    BY <2>1, StatusUnchanged DEF vars, driver, sketch, firmware, Kept
  <2>2. QED
    BY <2>1, StatusCalls, StatusPump, StatusFirmware DEF Next
<1>3. IInv => StatusTrue
  <2>1. Told => Quiet(Deciding)
    BY DEF Told, Quiet, Deciding, Down, LinkEvents
  <2>2. QED
    BY <2>1 DEF StatusInv, StatusTrue, Kept
<1>4. QED
  BY <1>1, <1>2, <1>3, PTL DEF Spec
=============================================================================
