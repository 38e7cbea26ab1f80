---------------------------- MODULE WifiClient -----------------------------
(***************************************************************************)
(* The TCP client path of the WiFi101 library: WiFiClient.cpp on top of    *)
(* socket_buffer.c, socket.c and the event pump of m2m_hif.c, with the     *)
(* firmware of the WINC1500 module at the other end of the SPI bus.        *)
(*                                                                         *)
(* The sketch is one thread.  Requests go to the firmware and its replies  *)
(* come back asynchronously, each in order; a reply is looked at only when *)
(* some call of the library pumps m2m_wifi_handle_events, so a call of the *)
(* API is split into the pumps it makes and what it does between them.     *)
(* A reply larger than the user buffer is read in chunks, and the bus is   *)
(* paused between them (hif_small_xfer).                                   *)
(***************************************************************************)
EXTENDS Naturals, Sequences, FiniteSets

CONSTANTS
    Clients,       \* the WiFiClient objects of the sketch
    NoClient,      \* a null pointer to one
    SocketMax,     \* TCP_SOCK_MAX
    MTU,           \* SOCKET_BUFFER_MTU: what one recv() asks for
    TCP_SIZE,      \* SOCKET_BUFFER_TCP_SIZE: the buffer of a client
    Segments,      \* sizes of the data replies of the firmware
    SlowConnect,   \* TRUE: a connect reply may take more than 20 seconds
    FlushFirst,    \* TRUE: the sketch calls stop() only after flush()
    StopsFirst,    \* TRUE: it connects one client with no other gone stale
    StreamLength,  \* bound: bytes a peer sends on a connection
    MaxSessions,   \* bound: sockets opened in a behaviour
    MaxLosses      \* bound: times the network is lost

ASSUME WifiAssumption ==
    /\ NoClient \notin Clients
    /\ SocketMax \in Nat \ {0} /\ MTU \in Nat \ {0}
    /\ TCP_SIZE \in Nat /\ MTU <= TCP_SIZE
    /\ Segments \subseteq Nat \ {0}
    /\ SlowConnect \in BOOLEAN /\ FlushFirst \in BOOLEAN
    /\ StreamLength \in Nat /\ MaxSessions \in Nat /\ MaxLosses \in Nat

ASSUME StopsAssumption == StopsFirst \in BOOLEAN

VARIABLES
    cl,        \* the fields of each WiFiClient
    sk,        \* gastrSockets
    reg,       \* gastrSocketBuffer: the client whose fields are registered
    holders,   \* WiFi._client: the client connect() last returned 1 for
    nextTcp,   \* u8NextTcpSock
    sessions,  \* gu16SessionID: sessions opened so far
    xfer,      \* the paused transfer (hif_small_xfer), or NoXfer
    calling,   \* the client whose connect() is waiting, or NoClient
    requests,  \* host to firmware
    replies,   \* firmware to host
    fw,        \* the connections of the firmware, by session
    network,   \* whether the firmware is joined, and how often it was lost
    got        \* the bytes each client has read since its connect()

host   == <<cl, sk, reg, holders, nextTcp, sessions, xfer, calling, got>>
vars   == <<cl, sk, reg, holders, nextTcp, sessions, xfer, calling, requests,
            replies, fw, network, got>>

Sockets  == 0 .. SocketMax - 1
NoSocket == SocketMax
Sessions == 1 .. MaxSessions
Places   == 0 .. TCP_SIZE - 1
Bytes    == Sessions \X (1 .. StreamLength)   \* the n-th byte of a session
NoByte   == <<0, 0>>
NoXfer   == [sock |-> NoSocket, rest |-> <<>>]
Joined   == [up |-> TRUE, losses |-> 0]

ClosedSocket ==
    [used |-> FALSE, session |-> 0, buf |-> NoClient, off |-> 0,
     pending |-> FALSE]

NewClient ==
    [socket |-> NoSocket, connected |-> FALSE, full |-> FALSE,
     head |-> 0, tail |-> 0, data |-> [i \in Places |-> NoByte]]

NoConnection ==
    [state |-> "none", sock |-> NoSocket, opened |-> FALSE, wants |-> FALSE,
     sent |-> 0]

Init ==
    /\ cl = [c \in Clients |-> NewClient]
    /\ sk = [s \in Sockets |-> ClosedSocket]
    /\ reg = [s \in Sockets |-> NoClient]
    /\ holders = [s \in Sockets |-> NoClient]
    /\ nextTcp = 0 /\ sessions = 0
    /\ xfer = NoXfer /\ calling = NoClient
    /\ requests = <<>> /\ replies = <<>>
    /\ fw = [x \in Sessions |-> NoConnection]
    /\ network = Joined
    /\ got = [c \in Clients |-> <<>>]

\* The sketch begins anew: its variables are initialised, and begin() resets
\* the module.
Reset ==
    /\ cl' = [c \in Clients |-> NewClient]
    /\ sk' = [s \in Sockets |-> ClosedSocket]
    /\ reg' = [s \in Sockets |-> NoClient]
    /\ holders' = [s \in Sockets |-> NoClient]
    /\ nextTcp' = 0 /\ sessions' = 0
    /\ xfer' = NoXfer /\ calling' = NoClient
    /\ requests' = <<>> /\ replies' = <<>>
    /\ fw' = [x \in Sessions |-> NoConnection]
    /\ network' = Joined
    /\ got' = [c \in Clients |-> <<>>]

----------------------------------------------------------------------------
(* socket.c: what recv() and close() make of a socket, and the request each *)
(* sends.  Neither does anything to a socket that is not used.              *)

AfterRecv(so, c, offset) ==
    IF so.used THEN [so EXCEPT !.buf = c, !.off = offset, !.pending = TRUE]
               ELSE so

\* Variant: recv() sends a request although one is under way.
RecvRequest_Always(s, so) ==
    IF so.used THEN <<[kind |-> "recv", sock |-> s, session |-> so.session]>>
               ELSE <<>>

RecvRequest(s, so) ==
    IF so.used /\ ~so.pending
    THEN <<[kind |-> "recv", sock |-> s, session |-> so.session]>>
    ELSE <<>>

\* Variant: close() leaves the session of the socket in its entry.
Closed_KeepsSession(so) == [so EXCEPT !.used = FALSE, !.pending = FALSE]

\* Variant: close() tells the firmware, and does not free the entry.
Closed_StaysUsed(so) == [so EXCEPT !.pending = FALSE]

Closed(so) == IF so.used THEN ClosedSocket ELSE so

CloseRequest(s, so) ==
    IF so.used
    THEN <<[kind |-> "close", sock |-> s, session |-> so.session]>>
    ELSE <<>>

\* close() of each of a set of sockets; of -1 it does nothing.
ClosedAll(socks) ==
    [s \in Sockets |-> IF s \in socks THEN Closed(sk[s]) ELSE sk[s]]

\* Those that are used are closed in their order.
CloseRequests(socks) ==
    LET open   == {s \in socks \cap Sockets : sk[s].used}
        Nth(n) == CHOOSE s \in open : Cardinality({t \in open : t < s}) = n - 1
    IN  [n \in 1 .. Cardinality(open) |-> CloseRequest(Nth(n), sk[Nth(n)])[1]]

\* Variant: socket() takes the next one without a look at bIsUsed.
FreeFrom_Next(n) == n % SocketMax

\* socket(): the first free socket from nextTcp on, with the next session.
FreeFrom(n) == (n + CHOOSE i \in Sockets :
                        /\ ~sk[(n + i) % SocketMax].used
                        /\ \A j \in 0 .. i - 1 : sk[(n + j) % SocketMax].used)
               % SocketMax

----------------------------------------------------------------------------
(* WiFiClient *)

\* No event is handled while a registered client has no room.
PumpOpen == \A s \in Sockets : reg[s] # NoClient => ~cl[reg[s]].full

\* Nor once the socket of a paused transfer is closed.
PumpStuck == ~PumpOpen \/ (xfer # NoXfer /\ ~sk[xfer.sock].used)

\* How many bytes may be read, and whether there is still something to wait
\* for, once the pumps of available() and connected() have been made.
available(c) ==
    IF cl[c].socket = NoSocket THEN 0 ELSE cl[c].head - cl[c].tail

connected(c) == available(c) > 0 \/ cl[c].connected

\* Variant: connect() does not empty the buffer of the last connection.
Fresh_KeepsUnread(c, s) ==
    [cl[c] EXCEPT !.socket = s, !.connected = FALSE, !.full = FALSE]

\* The fields of a client at the beginning of connect().
Fresh(c, s) == [NewClient EXCEPT !.socket = s, !.data = cl[c].data]

\* connect(): a new socket, registered, and a connect request for it.
StartConnect(c) ==
    /\ calling = NoClient
    /\ sessions < MaxSessions
    /\ \E s \in Sockets : ~sk[s].used
    /\ LET s == FreeFrom(nextTcp) IN
        /\ cl' = [cl EXCEPT ![c] = Fresh(c, s)]
        /\ sk' = [sk EXCEPT ![s] = [ClosedSocket EXCEPT
                                      !.used = TRUE, !.session = sessions + 1]]
        /\ reg' = [reg EXCEPT ![s] = c]
        /\ nextTcp' = (s + 1) % SocketMax
        /\ requests' = Append(requests, [kind |-> "connect", sock |-> s,
                                         session |-> sessions + 1])
    /\ sessions' = sessions + 1
    /\ calling' = c
    /\ got' = [got EXCEPT ![c] = <<>>]
    /\ UNCHANGED <<holders, xfer, replies, fw, network>>

\* No socket is free: connect() returns 0 at once.
NoSocketFree(c) ==
    /\ calling = NoClient
    /\ \A s \in Sockets : sk[s].used
    /\ cl' = [cl EXCEPT ![c] = Fresh(c, NoSocket)]
    /\ got' = [got EXCEPT ![c] = <<>>]
    /\ UNCHANGED <<sk, reg, holders, nextTcp, sessions, xfer, calling, requests,
                   replies, fw, network>>

\* Variant: connect() does not note for which client it returns.
Held_NotNoted == holders
Held == [holders EXCEPT ![cl[calling].socket] = calling]

\* The wait ends with the flag: connect() returns 1.
ConnectReturns ==
    /\ calling # NoClient
    /\ cl[calling].connected
    /\ calling' = NoClient
    /\ holders' = Held
    /\ UNCHANGED <<cl, sk, reg, nextTcp, sessions, xfer, requests, replies,
                   fw, network, got>>

\* Variant: a refused connection, whose socket is closed, is waited for.
TimedOut_NotRefused(s) == replies = <<>> /\ xfer = NoXfer /\ sk[s].used

\* Twenty seconds have gone by.  The loop has handled what came in, unless the
\* pump is stuck; no connect reply has, when the firmware is slow, and the
\* flag stays clear when it has refused, or the client was stopped: even then
\* a firmware that is not slow has done what it was asked.
TimedOut(s) ==
    \/ PumpStuck
    \/ /\ replies = <<>> /\ xfer = NoXfer
       /\ SlowConnect \/ IF s = NoSocket
                         THEN /\ requests = <<>>
                              /\ \A x \in Sessions : fw[x].state # "connecting"
                         ELSE ~sk[s].used

\* Without the flag: close, and return 0.  The socket stays registered.
ConnectTimeout ==
    /\ calling # NoClient
    /\ ~cl[calling].connected
    /\ LET s == cl[calling].socket IN
        /\ TimedOut(s)
        /\ requests' = requests \o CloseRequests({s})
        /\ sk' = ClosedAll({s})
    /\ cl' = [cl EXCEPT ![calling].socket = NoSocket]
    /\ calling' = NoClient
    /\ UNCHANGED <<reg, holders, nextTcp, sessions, xfer, replies, fw, network,
                   got>>

\* Variant: read() drains the buffer and leaves it marked as full.
Consumed_StaysFull(c) ==
    IF cl[c].tail + 1 = cl[c].head
    THEN [cl[c] EXCEPT !.tail = 0, !.head = 0]
    ELSE [cl[c] EXCEPT !.tail = @ + 1]

Consumed(c) ==
    IF cl[c].tail + 1 = cl[c].head
    THEN [cl[c] EXCEPT !.tail = 0, !.head = 0, !.full = FALSE]
    ELSE [cl[c] EXCEPT !.tail = @ + 1]

\* read() of one byte, after the pump of available(): a drained buffer starts
\* again from its beginning and asks for more.
Read(c) ==
    /\ calling = NoClient
    /\ available(c) > 0
    /\ LET s == cl[c].socket
           drained == cl[c].tail + 1 = cl[c].head
       IN
        /\ got' = [got EXCEPT ![c] = Append(@, cl[c].data[cl[c].tail])]
        /\ cl' = [cl EXCEPT ![c] = Consumed(c)]
        /\ IF drained
           THEN /\ requests' = requests \o RecvRequest(s, sk[s])
                /\ sk' = [sk EXCEPT ![s] = AfterRecv(@, c, 0)]
           ELSE UNCHANGED <<requests, sk>>
    /\ UNCHANGED <<reg, holders, nextTcp, sessions, xfer, calling, replies, fw,
                   network>>

\* flush() ends when the pump of available() has brought nothing more: a
\* paused transfer of this client would have.
Flushed(c) ==
    available(c) = 0 /\ ~(PumpOpen /\ xfer # NoXfer /\ xfer.sock = cl[c].socket)

\* stop() of clients that have a socket: head and tail keep their values,
\* available() no longer looks.
Stopped(cs) ==
    LET socks == {cl[c].socket : c \in cs} IN
    /\ requests' = requests \o CloseRequests(socks)
    /\ sk' = ClosedAll(socks)
    /\ reg' = [s \in Sockets |-> IF s \in socks THEN NoClient ELSE reg[s]]
    /\ cl' = [c \in Clients |->
                IF c \in cs THEN [cl[c] EXCEPT !.socket = NoSocket,
                                               !.connected = FALSE,
                                               !.full = FALSE]
                            ELSE cl[c]]

Stop(c) ==
    /\ calling = NoClient
    /\ cl[c].socket # NoSocket
    /\ Stopped({c})
    /\ UNCHANGED <<holders, nextTcp, sessions, xfer, calling, replies, fw,
                   network, got>>

----------------------------------------------------------------------------
(* m2m_wifi_handle_events and the callbacks under it *)

\* m2m_ip_cb and socketBufferCb for a connect reply.  The session of a connect
\* reply is not looked at.
OnConnected(s) ==
    /\ sk' = [sk EXCEPT ![s] = AfterRecv(@, reg[s], 0)]
    /\ requests' = requests \o RecvRequest(s, sk[s])
    /\ cl' = [cl EXCEPT ![reg[s]].connected = TRUE]
    /\ UNCHANGED xfer

OnConnectFailed(s) ==
    /\ sk' = [sk EXCEPT ![s] = Closed(@)]
    /\ requests' = requests \o CloseRequest(s, sk[s])
    /\ UNCHANGED <<cl, xfer>>

\* Variant: the end of the stream does not clear the flag.
OnEof_KeepsFlag(s) ==
    /\ sk' = [sk EXCEPT ![s] = Closed(@)]
    /\ requests' = requests \o CloseRequest(s, sk[s])
    /\ UNCHANGED <<cl, xfer>>

\* The peer has closed: the socket is closed under the client, which keeps
\* its number until stop().
OnEof(s) ==
    /\ sk' = [sk EXCEPT ![s] = Closed(@)]
    /\ requests' = requests \o CloseRequest(s, sk[s])
    /\ cl' = [cl EXCEPT ![reg[s]].connected = FALSE]
    /\ UNCHANGED xfer

\* Variants: reception goes on with less room than a recv() may fill, or none.
More_OffByOne(head) == TCP_SIZE + 1 >= head + MTU
More_Always(head)   == TRUE

\* There is room for whatever the next recv() brings.
More(head) == TCP_SIZE >= head + MTU

\* Variant: the size of a reply is added without a look at the room.
Fits_Always(head) == TRUE

\* "Protect against overflow": the bytes a reply has brought are accounted for.
Fits(head) == TCP_SIZE >= head

\* One chunk of a data reply goes where the last recv() of the socket said,
\* and socketBufferCb accounts for it with the fields registered.  so is the
\* socket as the reply left it.
OnData(s, so, bytes) ==
    LET n    == IF Len(bytes) <= MTU THEN Len(bytes) ELSE MTU
        rest == SubSeq(bytes, n + 1, Len(bytes))
        c    == reg[s]
        head == cl[c].head + n
        more == More(head)
        data == [i \in Places |->
                    IF i \in so.off .. so.off + n - 1 THEN bytes[i - so.off + 1]
                    ELSE cl[so.buf].data[i]]
        stored == [cl EXCEPT ![so.buf].data = data]
    IN
    /\ xfer' = IF rest = <<>> THEN NoXfer ELSE [sock |-> s, rest |-> rest]
    /\ cl' = IF Fits(head)
             THEN [stored EXCEPT ![c].head = head,
                                 ![c].full = @ \/ (~more /\ rest # <<>>)]
             ELSE [stored EXCEPT ![c].full = TRUE]
    /\ sk' = [sk EXCEPT ![s] = IF more THEN AfterRecv(so, c, head) ELSE so]
    /\ requests' = requests \o (IF more THEN RecvRequest(s, so) ELSE <<>>)

\* Variant: the receive stays pending after its reply.
Replied_StaysPending(so) == so

Replied(so) == [so EXCEPT !.pending = FALSE]

\* m2m_ip_cb for a receive reply: the pending mark goes before the session is
\* compared, and a reply of another session is thrown away.
OnReceived(e) ==
    LET so == Replied(sk[e.sock]) IN
    IF e.session # so.session
    THEN sk' = [sk EXCEPT ![e.sock] = so] /\ UNCHANGED <<cl, requests, xfer>>
    ELSE IF e.bytes = <<>> THEN OnEof(e.sock)
    ELSE OnData(e.sock, so, e.bytes)

\* wifi_cb, when the network is lost: the clients that connect() has returned
\* 1 for are stopped, even one that is connecting again.
OnDisconnected ==
    /\ Stopped({c \in Clients : /\ \E s \in Sockets : holders[s] = c
                                /\ cl[c].socket # NoSocket})
    /\ UNCHANGED xfer

\* The callback writes through the registered pointers without looking at
\* them: what follows a null one is not modelled.
CallbackSafe(e) ==
    e.kind = "connected" \/ (e.kind = "received" /\ e.session = sk[e.sock].session)
        => reg[e.sock] # NoClient

Pump ==
    /\ PumpOpen /\ xfer = NoXfer
    /\ replies # <<>> /\ CallbackSafe(Head(replies))
    /\ LET e == Head(replies) IN
        \/ e.kind = "connected" /\ OnConnected(e.sock) /\ UNCHANGED reg
        \/ e.kind = "refused"   /\ OnConnectFailed(e.sock) /\ UNCHANGED reg
        \/ e.kind = "received"  /\ OnReceived(e) /\ UNCHANGED reg
        \/ e.kind = "disconnected" /\ OnDisconnected
    /\ replies' = Tail(replies)
    /\ UNCHANGED <<holders, nextTcp, sessions, calling, fw, network, got>>

\* Socket_ReadSocketData_Small: the next chunk of a paused transfer.  With its
\* socket closed nothing happens, and nothing else is handled either.
PumpChunk ==
    /\ PumpOpen /\ xfer # NoXfer
    /\ sk[xfer.sock].used /\ sk[xfer.sock].buf # NoClient
    /\ OnData(xfer.sock, sk[xfer.sock], xfer.rest)
    /\ UNCHANGED <<reg, holders, nextTcp, sessions, calling, replies, fw, network,
                   got>>

----------------------------------------------------------------------------
(* The firmware and the peer *)

FwRequest ==
    /\ requests # <<>>
    /\ LET r == Head(requests) IN
       fw' = [fw EXCEPT ![r.session] =
                CASE r.kind = "connect" ->
                        [@ EXCEPT !.state = "connecting", !.sock = r.sock]
                  [] r.kind = "recv"  -> [@ EXCEPT !.wants = fw[r.session].state = "open"]
                  [] r.kind = "close" -> [@ EXCEPT !.state = "closed"]]
    /\ requests' = Tail(requests)
    /\ UNCHANGED <<host, replies, network>>

FwReplies(x, kind, state, bytes) ==
    /\ fw' = [fw EXCEPT ![x] =
                [fw[x] EXCEPT !.state = state, !.wants = FALSE,
                              !.opened = fw[x].opened \/ state = "open",
                              !.sent = fw[x].sent + Len(bytes)]]
    /\ replies' = Append(replies, [kind |-> kind, sock |-> fw[x].sock,
                                   session |-> x, bytes |-> bytes])
    /\ UNCHANGED <<host, requests, network>>

FwConnects(x) ==
    /\ fw[x].state = "connecting"
    /\ \/ network.up /\ FwReplies(x, "connected", "open", <<>>)
       \/ FwReplies(x, "refused", "closed", <<>>)

\* A segment of the stream, whose bytes are numbered.
FwData(x) ==
    /\ fw[x].state = "open" /\ fw[x].wants
    /\ \E n \in Segments :
        /\ fw[x].sent + n <= StreamLength
        /\ FwReplies(x, "received", "open", [i \in 1 .. n |-> <<x, fw[x].sent + i>>])

FwEof(x) ==
    /\ fw[x].state = "open" /\ fw[x].wants
    /\ FwReplies(x, "received", "closed", <<>>)

Firmware ==
    FwRequest \/ \E x \in Sessions : FwConnects(x) \/ FwData(x) \/ FwEof(x)

\* The access point is gone: what was open will bring nothing more.
LoseNetwork ==
    /\ network.up /\ network.losses < MaxLosses
    /\ network' = [up |-> FALSE, losses |-> network.losses + 1]
    /\ fw' = [x \in Sessions |->
                IF fw[x].state = "open"
                THEN [fw[x] EXCEPT !.state = "lost", !.wants = FALSE] ELSE fw[x]]
    /\ replies' = Append(replies, [kind |-> "disconnected", sock |-> NoSocket,
                                   session |-> 0, bytes |-> <<>>])
    /\ UNCHANGED <<host, requests>>

\* The sketch joins again with begin(), which handles what came in before: the
\* firmware does not join by itself.
Rejoin ==
    /\ calling = NoClient /\ ~network.up
    /\ \A i \in DOMAIN replies : replies[i].kind # "disconnected"
    /\ network' = [network EXCEPT !.up = TRUE]
    /\ UNCHANGED <<host, requests, replies, fw>>

----------------------------------------------------------------------------
Connecting == ConnectReturns \/ ConnectTimeout
Handling   == Pump \/ PumpChunk

\* A client whose socket was closed under it has kept the number, which the
\* next socket() may give to another client.
Stale(c) == cl[c].socket # NoSocket /\ ~sk[cl[c].socket].used

\* The calls of a sketch that connects a client only when it is not
\* connected(), as all the sketches of the repository do.  StopsFirst is a
\* discipline of the sketch, which the library neither asks for nor checks.
Calls(c) ==
    \/ /\ ~connected(c)
       /\ StopsFirst => \A d \in Clients \ {c} : ~Stale(d)
       /\ StartConnect(c) \/ NoSocketFree(c)
    \/ Read(c)
    \/ (FlushFirst => Flushed(c)) /\ Stop(c)

Next ==
    \/ \E c \in Clients : Calls(c)
    \/ Connecting \/ Handling \/ Firmware
    \/ LoseNetwork \/ Rejoin
    \/ Reset

Spec == Init /\ [][Next]_vars

\* connect() pumps until it returns, and the firmware works through what it
\* is asked: it answers a connect request, one way or the other.
FairSpec ==
    /\ Spec
    /\ WF_vars(Connecting) /\ WF_vars(Handling /\ calling # NoClient)
    /\ WF_vars(FwRequest)
    /\ \A x \in Sessions : WF_vars(FwConnects(x))

----------------------------------------------------------------------------
(* Properties *)

Replies  == [kind : {"connected", "refused", "received", "disconnected"},
             sock : Sockets \union {NoSocket}, session : Sessions \union {0},
             bytes : Seq(Bytes)]
Requests == [kind : {"connect", "recv", "close"}, sock : Sockets,
             session : Sessions]

TypeOK ==
    /\ cl \in [Clients -> [socket : Sockets \union {NoSocket},
                           connected : BOOLEAN, full : BOOLEAN,
                           head : 0 .. TCP_SIZE, tail : 0 .. TCP_SIZE,
                           data : [Places -> Bytes \union {NoByte}]]]
    /\ sk \in [Sockets -> [used : BOOLEAN, session : Sessions \union {0},
                           buf : Clients \union {NoClient},
                           off : 0 .. TCP_SIZE, pending : BOOLEAN]]
    /\ reg \in [Sockets -> Clients \union {NoClient}]
    /\ holders \in [Sockets -> Clients \union {NoClient}]
    /\ network \in [up : BOOLEAN, losses : 0 .. MaxLosses]
    /\ nextTcp \in Sockets /\ sessions \in 0 .. MaxSessions
    /\ xfer.sock \in Sockets \union {NoSocket} /\ xfer.rest \in Seq(Bytes)
    /\ calling \in Clients \union {NoClient}
    /\ requests \in Seq(Requests) /\ replies \in Seq(Replies)
    /\ fw \in [Sessions -> [state : {"none", "connecting", "open", "closed",
                                     "lost"},
                            sock : Sockets \union {NoSocket},
                            opened : BOOLEAN, wants : BOOLEAN,
                            sent : 0 .. StreamLength]]
    /\ got \in [Clients -> Seq(Bytes \union {NoByte})]

\* What a reply still to come will write, or the next chunk of a paused one,
\* goes right behind the unread bytes of the registered client and fits: the
\* place was chosen by an earlier recv(), and head has moved since.
WritesBehindUnread ==
    \A s \in Sockets :
        /\ sk[s].used /\ reg[s] # NoClient
        /\ sk[s].pending \/ xfer.sock = s
        /\ ~cl[reg[s]].full
        =>
        /\ sk[s].buf = reg[s]
        /\ sk[s].off = cl[reg[s]].head
        /\ sk[s].off + MTU <= TCP_SIZE

\* bIsRecvPending tells the truth: one receive request of the session is under
\* way while it is set and none while it is not.  m2m_ip_cb clears it before
\* it compares sessions, and sockets are reused.
Underway(s) ==
    LET Mine(r) == r.sock = s /\ r.session = sk[s].session IN
      Cardinality({i \in DOMAIN requests :
                     requests[i].kind = "recv" /\ Mine(requests[i])})
    + Cardinality({i \in DOMAIN replies :
                     replies[i].kind = "received" /\ Mine(replies[i])})
    + IF fw[sk[s].session].wants THEN 1 ELSE 0

OneRecv ==
    \A s \in Sockets :
        sk[s].used /\ fw[sk[s].session].state # "lost" =>
            Underway(s) = IF sk[s].pending THEN 1 ELSE 0

\* What a client has read since connect() is the beginning of what one peer
\* sent: no byte is lost, repeated, out of order or another connection's.
StreamIntact ==
    \A c \in Clients : \A i \in DOMAIN got[c] :
        got[c][i][2] = i /\ got[c][i][1] = got[c][1][1]

\* A client that connected() reports as closed has been given all of it.
AllDelivered ==
    \A c \in Clients :
        got[c] # <<>> /\ cl[c].socket # NoSocket /\ ~connected(c)
            => Len(got[c]) = fw[got[c][1][1]].sent

\* "connected" is said only of a connection the firmware has opened, on the
\* socket the client holds: connect() returned 1 for it, not for another.
ConnectedIsReal ==
    \A c \in Clients :
        cl[c].connected =>
            /\ cl[c].socket # NoSocket
            /\ sk[cl[c].socket].used
            /\ fw[sk[cl[c].socket].session].opened

\* When the library is told that the network is lost, no client is left that
\* goes on waiting for a connection that is gone.  The one whose connect() has
\* not returned yet may be: nothing holds it so far.
LossClosesClients ==
    [][ replies # <<>> /\ Head(replies).kind = "disconnected"
        /\ replies' = Tail(replies) =>
        \A c \in Clients \ {calling} :
            /\ ~cl'[c].connected
            /\ cl[c].connected => ~sk'[cl[c].socket].used ]_vars

\* A reply that is handled finds its client registered: no callback of the
\* pump writes through a null pointer.
HandlerRegistered == replies # <<>> => CallbackSafe(Head(replies))

\* A paused transfer always has a socket to be finished on.  Without one, no
\* event of any socket would be handled any more.
PumpAlive == xfer # NoXfer => sk[xfer.sock].used

\* connect() returns, whatever the server and the other sockets do, or it meets
\* a callback that writes through a null pointer.
ConnectEnds == calling # NoClient ~> calling = NoClient \/ ~HandlerRegistered
=============================================================================
