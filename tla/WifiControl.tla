---------------------------- MODULE WifiControl ----------------------------
(***************************************************************************)
(* WiFi.cpp of the WiFi101 library in station mode: joining a network,     *)
(* losing it, leaving it and scanning, with wifi_cb under the event pump   *)
(* and the firmware of the module as the other side.                       *)
(*                                                                         *)
(* One status says both how the network is and what a waiting call has     *)
(* come to: a call of the scanning family puts it aside and back.  A call  *)
(* that waits looks at the status after each pump, and one pump may handle *)
(* several events.                                                         *)
(***************************************************************************)
EXTENDS Naturals, Sequences

CONSTANTS
    ADDRESS,    \* the address the sketch configures, or the router leases
    MaxEvents,  \* bound: events the host has not handled yet
    MaxOwed     \* bound: answers of one kind the firmware has yet to give

ASSUME ControlAssumption ==
    ADDRESS # 0 /\ MaxEvents \in Nat /\ MaxOwed \in Nat

VARIABLES
    inited,      \* the module has been initialised
    status, mode, dhcp, localip,
    inProgress, \* gu8scanInProgress
    call,       \* the call that waits, or "none"
    tmp,        \* the status it has put aside, of a scan
    setup,      \* the sketch is in its loop that ends with WL_CONNECTED
    order,      \* what the firmware has last been asked to do
    link,       \* what it has come to
    owed,       \* how many answers to scans and accessors it has yet to give
    events,     \* what it has told and the host has not looked at
    upset       \* a wait for a scan was disturbed since the last begin()

driver   == <<inited, status, mode, dhcp, localip, inProgress>>
sketch   == <<call, tmp, setup>>
firmware == <<order, link, owed, events>>
vars     == <<driver, sketch, firmware, upset>>

\* wl_status_t
WL_NO_SHIELD      == 255
WL_IDLE_STATUS    == 0
WL_SCAN_COMPLETED == 2
WL_CONNECTED      == 3
WL_CONNECT_FAILED == 4
WL_DISCONNECTED   == 6

\* bitsof & mask, of two bytes
Has(bitsof, mask) ==
    \E bit \in {1, 2, 4, 8, 16, 32, 64, 128} :
        (bitsof \div bit) % 2 = 1 /\ (mask \div bit) % 2 = 1

Scanning == {"scan", "result"}

NothingOwed == [a \in Scanning |-> 0]

LinkEvents == {"connected", "disconnected", "dhcp", "no default"}

Init ==
    /\ inited = FALSE /\ status = WL_NO_SHIELD /\ mode = "reset"
    /\ dhcp = TRUE /\ localip = 0 /\ inProgress = FALSE
    /\ call = "none" /\ tmp = WL_NO_SHIELD /\ setup = TRUE
    /\ order = "none" /\ link = "down" /\ owed = NothingOwed /\ events = <<>>
    /\ upset = FALSE

----------------------------------------------------------------------------
(* Calls that return at once *)

\* init(), of the first call that needs the module: a reset of all there is.
init ==
    /\ call = "none" /\ ~inited
    /\ inited' = TRUE /\ status' = WL_IDLE_STATUS
    /\ dhcp' = TRUE /\ localip' = 0 /\ inProgress' = FALSE
    /\ UNCHANGED <<mode, sketch, firmware, upset>>

\* A call of the sketch, once the module is initialised.
Called == call = "none" /\ inited

\* config(): no DHCP, and an address of its own.  The sketches call it before
\* they join.
config ==
    /\ Called /\ setup
    /\ link = "down" /\ order = "none"
    /\ dhcp' = FALSE /\ localip' = ADDRESS
    /\ UNCHANGED <<inited, status, mode, inProgress, sketch, firmware, upset>>

disconnect ==
    /\ Called /\ ~setup
    /\ order' = "leave"
    /\ UNCHANGED <<driver, sketch, link, owed, events, upset>>

\* end(): the module is switched off.
end ==
    /\ Called /\ ~setup
    /\ inited' = FALSE /\ status' = WL_NO_SHIELD /\ mode' = "reset"
    /\ order' = "none" /\ link' = "down" /\ owed' = NothingOwed /\ events' = <<>>
    /\ setup' = TRUE /\ upset' = FALSE
    /\ UNCHANGED <<dhcp, localip, inProgress, call, tmp>>

\* The sketch goes back to its loop.
SetupAgain ==
    /\ Called /\ ~setup
    /\ setup' = TRUE
    /\ UNCHANGED <<driver, call, tmp, firmware, upset>>

----------------------------------------------------------------------------
(* Calls that wait *)

\* Variant: begin() does not set the mode, which stays reset after a timeout.
ModeOfBegin_Kept == mode
ModeOfBegin == "station"

\* begin() and startConnect(): with DHCP the address is given up.
Begin ==
    /\ Called
    /\ localip' = IF dhcp THEN 0 ELSE localip
    /\ UNCHANGED <<inited, dhcp, inProgress, tmp, setup, link, owed, events>>

StartBegin ==
    /\ Begin
    /\ status' = WL_IDLE_STATUS /\ mode' = ModeOfBegin
    /\ order' = "join" /\ call' = "begin"
    /\ upset' = FALSE

\* The request cannot be sent: the mode stays.
BeginRefused ==
    /\ Begin
    /\ status' = WL_CONNECT_FAILED
    /\ UNCHANGED <<mode, order, call, upset>>

Asked(answer) ==
    owed[answer] < MaxOwed /\ owed' = [owed EXCEPT ![answer] = @ + 1]

\* scanNetworks(): while a scan is in progress it returns 0 at once.
StartScan ==
    /\ Called /\ ~setup /\ ~inProgress
    /\ inProgress' = TRUE
    /\ Asked("scan")
    /\ call' = "scan" /\ tmp' = status /\ status' = WL_IDLE_STATUS
    /\ UNCHANGED <<inited, mode, dhcp, localip, setup, order, link, events,
                   upset>>

\* scanNetworks() as the first call that needs the module: the status of before
\* init() is put aside, and comes back after the scan.
FirstScan ==
    /\ call = "none" /\ ~inited
    /\ inited' = TRUE
    /\ dhcp' = TRUE /\ localip' = 0 /\ inProgress' = TRUE
    /\ Asked("scan")
    /\ call' = "scan" /\ tmp' = status /\ status' = WL_IDLE_STATUS
    /\ UNCHANGED <<mode, setup, order, link, events, upset>>

\* SSID(pos), RSSI(pos), encryptionType(pos), channel(pos) and BSSID(pos).
StartResult ==
    /\ Called /\ ~setup
    /\ Asked("result")
    /\ call' = "result" /\ tmp' = status /\ status' = WL_IDLE_STATUS
    /\ UNCHANGED <<inited, mode, dhcp, localip, inProgress, setup, order,
                   link, events, upset>>

\* What the loops of the calls look at after each pump.
Waits ==
    IF call = "begin"
    THEN ~Has(status, WL_CONNECTED) /\ ~Has(status, WL_DISCONNECTED)
    ELSE ~Has(status, WL_SCAN_COMPLETED)

\* The time of the call is over: a minute, or a few seconds.  Its loop has
\* handled what came in.
TimedOut == events = <<>>

\* begin() ends.  WL_DISCONNECTED has a bit of WL_CONNECTED: only after the
\* minute is the mode reset.
BeginReturns ==
    /\ call = "begin" /\ (Waits => TimedOut)
    /\ mode' = IF Has(status, WL_CONNECTED) THEN mode ELSE "reset"
    /\ call' = "none"
    /\ setup' = (setup /\ status # WL_CONNECTED)
    /\ UNCHANGED <<inited, status, dhcp, localip, inProgress, tmp, firmware,
                   upset>>

\* Variants: the status is left as the scan has made it, or without its bit.
StatusAfterScan_Left == status
StatusAfterScan_Bit  == IF Has(status, WL_SCAN_COMPLETED)
                        THEN status - WL_SCAN_COMPLETED ELSE status
StatusAfterScan == tmp

\* A scan ends, or is given up: the status is put back, whatever has been
\* handled meanwhile.
ScanReturns ==
    /\ call \in Scanning /\ (Waits => TimedOut)
    /\ status' = StatusAfterScan
    /\ call' = "none" /\ tmp' = WL_NO_SHIELD
    /\ upset' = (upset \/ status # WL_SCAN_COMPLETED)
    /\ UNCHANGED <<inited, mode, dhcp, localip, inProgress, setup, firmware>>

----------------------------------------------------------------------------
(* wifi_cb *)

\* Variant: the address is kept when the network is lost.
AddressLost_Kept == localip
AddressLost == IF dhcp THEN 0 ELSE localip

OnStateChanged(e) ==
    IF e = "connected"
    THEN /\ status' = IF mode = "station" /\ ~dhcp THEN WL_CONNECTED
                                                       ELSE status
         /\ UNCHANGED localip
    ELSE IF mode = "station"
         THEN status' = WL_DISCONNECTED /\ localip' = AddressLost
         ELSE UNCHANGED <<status, localip>>

OnDhcpConf ==
    IF mode = "station" THEN status' = WL_CONNECTED /\ localip' = ADDRESS
                         ELSE UNCHANGED <<status, localip>>

\* m2m_wifi_handle_events, in a call that waits, in status() or refresh(): in
\* its loop the sketch calls neither of these.
Pump ==
    /\ inited /\ events # <<>> /\ (call = "none" => ~setup)
    /\ LET e == Head(events) IN
        /\ \/ e \in {"connected", "disconnected"} /\ OnStateChanged(e)
           \/ e = "dhcp" /\ OnDhcpConf
           \/ e = "no default" /\ status' = WL_DISCONNECTED /\ UNCHANGED localip
           \/ e = "nothing" /\ UNCHANGED <<status, localip>>
           \/ /\ e \in {"found", "result"}
              /\ status' = WL_SCAN_COMPLETED /\ UNCHANGED localip
        /\ inProgress' = (inProgress /\ e \notin {"found", "nothing"})
        /\ upset' = \/ upset
                    \/ call \in Scanning /\ e \in LinkEvents
                    \/ call \notin Scanning /\ e \in {"found", "result"}
    /\ events' = Tail(events)
    /\ UNCHANGED <<inited, mode, dhcp, sketch, order, link, owed>>

----------------------------------------------------------------------------
(* The firmware and the access point *)

Room == Len(events) < MaxEvents

Tell(e) == Room /\ events' = Append(events, e)

\* It obeys: a network it was in is left, and that is told.
FwObeys ==
    /\ order # "none"
    /\ order' = "none"
    /\ link' = IF order = "join" THEN "joining" ELSE "down"
    /\ IF link \in {"joined", "leased"} \/ order = "leave"
       THEN Tell("disconnected") ELSE UNCHANGED events
    /\ UNCHANGED <<driver, sketch, owed, upset>>

FwJoins ==
    /\ link = "joining" /\ link' = "joined" /\ Tell("connected")
    /\ UNCHANGED <<driver, sketch, order, owed, upset>>

\* The access point refuses, or is not there.
FwFails ==
    /\ link = "joining" /\ link' = "down"
    /\ Tell("disconnected") \/ Tell("no default")
    /\ UNCHANGED <<driver, sketch, order, owed, upset>>

FwLeases ==
    /\ link = "joined" /\ dhcp /\ link' = "leased" /\ Tell("dhcp")
    /\ UNCHANGED <<driver, sketch, order, owed, upset>>

FwLoses ==
    /\ link \in {"joined", "leased"} /\ link' = "down" /\ Tell("disconnected")
    /\ UNCHANGED <<driver, sketch, order, owed, upset>>

FwAnswers(answer) ==
    /\ owed[answer] > 0 /\ owed' = [owed EXCEPT ![answer] = @ - 1]
    /\ IF answer = "scan" THEN Tell("found") \/ Tell("nothing") ELSE Tell("result")
    /\ UNCHANGED <<driver, sketch, order, link, upset>>

Firmware ==
    \/ FwObeys \/ FwJoins \/ FwFails \/ FwLeases \/ FwLoses
    \/ \E answer \in Scanning : FwAnswers(answer)

----------------------------------------------------------------------------
Next ==
    \/ init \/ config \/ disconnect \/ end \/ SetupAgain
    \/ StartBegin \/ BeginRefused \/ FirstScan \/ StartScan \/ StartResult
    \/ BeginReturns \/ ScanReturns
    \/ Pump \/ Firmware

Spec == Init /\ [][Next]_vars

\* The processor does not stop, and the firmware does what it is asked.  The
\* access point and its router do not refuse for ever; nor does the network,
\* each time, come and go again within one pump of begin().
FairSpec ==
    /\ Spec
    /\ WF_vars(init) /\ WF_vars(StartBegin /\ setup)
    /\ WF_vars(Pump /\ call # "none") /\ WF_vars(BeginReturns \/ ScanReturns)
    /\ SF_vars(BeginReturns /\ status = WL_CONNECTED)
    /\ WF_vars(FwObeys) /\ SF_vars(FwJoins) /\ SF_vars(FwLeases)

----------------------------------------------------------------------------
(* Properties *)

Up == link = "leased" \/ (link = "joined" /\ ~dhcp)

TypeOK ==
    /\ inited \in BOOLEAN /\ dhcp \in BOOLEAN /\ inProgress \in BOOLEAN
    /\ status \in {WL_NO_SHIELD, WL_IDLE_STATUS, WL_SCAN_COMPLETED,
                    WL_CONNECTED, WL_CONNECT_FAILED, WL_DISCONNECTED}
    /\ mode \in {"reset", "station"} /\ localip \in {0, ADDRESS}
    /\ owed \in [Scanning -> 0 .. MaxOwed] /\ Len(events) <= MaxEvents
    /\ setup \in BOOLEAN /\ upset \in BOOLEAN
    /\ order \in {"none", "join", "leave"}
    /\ link \in {"down", "joining", "joined", "leased"}

\* All that the firmware has told of the network has been looked at.
Told == \A i \in DOMAIN events : events[i] \notin LinkEvents

\* Once the firmware has obeyed and been heard, the status says that there is a
\* network exactly when there is one.  A scan, whose loop takes the same
\* status, may be disturbed, or answer when nobody waits: until the sketch
\* joins again, nothing is promised then.
StatusTrue ==
    /\ Told /\ order = "none" /\ ~upset
    /\ mode = "station" /\ call \notin Scanning
    /\ status # WL_CONNECT_FAILED
    => (status = WL_CONNECTED <=> Up)

\* A leased address is not kept when the network it belongs to is lost, even
\* where a scan hides the loss from the status.
AddressTrue ==
    inited /\ dhcp /\ Told /\ localip # 0 => link = "leased"

\* The loop of setup() ends, although begin() takes what it hears of earlier
\* connections, and the end of them, for the answer to its own request.
SetupEnds == setup ~> ~setup
=============================================================================
