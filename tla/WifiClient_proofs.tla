------------------------- MODULE WifiClient_proofs -------------------------
(***************************************************************************)
(* Theorems about WifiClient with a single client (Alone), as in every     *)
(* sketch, for any number of sockets, sessions and lost networks and every *)
(* size of the buffer.  The invariant Base ties the client and its socket  *)
(* to the requests and replies on their way and to the firmware's side.    *)
(***************************************************************************)
EXTENDS WifiClient, SequenceTheorems, FiniteSetTheorems, TLAPS

USE WifiAssumption DEF WifiAssumption

----------------------------------------------------------------------------
(* Messages *)

\* What the firmware tells: of a socket and a session, unless the network is
\* lost, and with data of the size of a segment.
Messages ==
    {e \in Replies :
        /\ e.kind # "disconnected" => e.sock \in Sockets /\ e.session \in Sessions
        /\ e.kind = "received" => e.bytes = <<>> \/ Len(e.bytes) \in Segments}

Asks(kind, x)   == {r \in Requests : r.kind = kind /\ r.session = x}
Answers(x)      == {e \in Messages : e.kind \in {"connected", "refused"} /\ e.session = x}
Connecteds      == {e \in Messages : e.kind = "connected"}
Refusals        == {e \in Messages : e.kind = "refused"}
Losses          == {e \in Messages : e.kind = "disconnected"}
Received(x)     == {e \in Messages : e.kind = "received" /\ e.session = x}
Eofs(x)         == {e \in Received(x) : e.bytes = <<>>}
Earlier(x)      == {e \in Messages : e.kind = "received" /\ e.session < x}
AskedEarlier(x) == {r \in Requests : r.session < x}
About(x)        == {e \in Messages : e.kind # "disconnected" /\ e.session = x}
Elsewhere(x, s) == {e \in About(x) : e.sock # s}
AsksElsewhere(x, s) == {r \in Requests : r.session = x /\ r.sock # s}

\* No message of S in a queue; at most one; none of R behind one of S.
None(q, S)         == \A i \in DOMAIN q : q[i] \notin S
AtMostOne(q, S)    == \A i, j \in DOMAIN q : q[i] \in S /\ q[j] \in S => i = j
NoneAfter(q, S, R) == \A i, j \in DOMAIN q : q[i] \in S /\ i < j => q[j] \notin R

----------------------------------------------------------------------------
(* The inductive invariant *)

Client ==
    [socket : Sockets \union {NoSocket}, connected : BOOLEAN, full : BOOLEAN,
     head : 0 .. TCP_SIZE, tail : 0 .. TCP_SIZE,
     data : [Places -> Bytes \union {NoByte}]]
Entry ==
    [used : BOOLEAN, session : Sessions \union {0}, buf : Clients \union {NoClient},
     off : 0 .. TCP_SIZE, pending : BOOLEAN]
Connection ==
    [state : {"none", "connecting", "open", "closed", "lost"},
     sock : Sockets \union {NoSocket}, opened : BOOLEAN, wants : BOOLEAN,
     sent : 0 .. StreamLength]

Types ==
    /\ cl \in [Clients -> Client] /\ sk \in [Sockets -> Entry]
    /\ reg \in [Sockets -> Clients \union {NoClient}]
    /\ holders \in [Sockets -> Clients \union {NoClient}]
    /\ network \in [up : BOOLEAN, losses : 0 .. MaxLosses]
    /\ nextTcp \in Sockets /\ sessions \in 0 .. MaxSessions
    /\ xfer \in [sock : Sockets \union {NoSocket}, rest : Seq(Bytes)]
    /\ xfer # NoXfer => xfer.sock \in Sockets /\ xfer.rest # <<>>
    /\ calling \in Clients \union {NoClient}
    /\ requests \in Seq(Requests) /\ replies \in Seq(Messages)
    /\ fw \in [Sessions -> Connection]
    /\ \A x \in Sessions :
         fw[x].state = "connecting" \/ fw[x].state = "open" => fw[x].sock \in Sockets
    /\ got \in [Clients -> Seq(Bytes \union {NoByte})]

\* The client has a socket that is used.
Open(c) == cl[c].socket \in Sockets /\ sk[cl[c].socket].used

Place(c) == sk[cl[c].socket]

SocketInv(c) ==
    /\ \A s \in Sockets : sk[s].used =>
         s = cl[c].socket /\ reg[s] = c /\ sk[s].session = sessions /\ sessions # 0
    /\ \A s \in Sockets : ~sk[s].used => sk[s] = ClosedSocket
    /\ cl[c].connected => Open(c) /\ Place(c).buf = c
    /\ Open(c) /\ ~cl[c].connected =>
         calling = c /\ ~Place(c).pending /\ cl[c].head = 0 /\ got[c] = <<>>
    /\ cl[c].tail < cl[c].head \/ (cl[c].head = 0 /\ cl[c].tail = 0)
    /\ cl[c].full => cl[c].connected /\ cl[c].tail < cl[c].head
    /\ xfer # NoXfer => xfer.sock = cl[c].socket /\ cl[c].connected
    /\ (\A n \in Segments : n <= MTU) => xfer = NoXfer
    /\ cl[c].connected /\ calling = NoClient => \E s \in Sockets : holders[s] = c

\* A connect request of session x, or the firmware's work at it, or its answer.
Wanted(x)   == ~None(requests, Asks("connect", x)) \/ fw[x].state = "connecting"
Answered(x) == ~None(replies, Answers(x))

\* Nothing is known yet of the sessions to come.
Unborn(x) ==
    /\ fw[x] = NoConnection /\ None(replies, About(x))
    /\ \A k \in {"connect", "recv", "close"} : None(requests, Asks(k, x))

ToCome == \A x \in Sessions : x > sessions => Unborn(x)

\* A connect request is asked, worked at or answered, once, while the client
\* that waits for it is not connected, and has its socket or has lost it with
\* the network.
WantedInv(c) ==
    \A x \in Sessions :
        /\ Wanted(x) \/ Answered(x) => x = sessions /\ calling = c /\ ~cl[c].connected
        /\ Wanted(x) => ~Answered(x)
        /\ Wanted(x) => Open(c) \/ (cl[c].socket = NoSocket /\ ~network.up)
        /\ fw[x].state = "connecting" => None(requests, Asks("connect", x))
        /\ AtMostOne(requests, Asks("connect", x)) /\ AtMostOne(replies, Answers(x))

\* A connection is reported to the client it is for, and never after a loss.
AnswerInv(c) ==
    /\ ~None(replies, Connecteds) =>
         Open(c) /\ fw[sessions].opened /\ fw[sessions].state \in {"open", "lost"}
    /\ ~None(replies, Refusals) => fw[sessions].state = "closed"
    /\ NoneAfter(replies, Losses, Connecteds)
    /\ network.up => None(replies, Losses)

\* Whatever is asked or told of the session in use is of the client's socket.
CurrentInv(c) ==
    /\ Open(c) =>
         /\ None(requests, AsksElsewhere(sessions, cl[c].socket))
         /\ fw[sessions].state # "none" => fw[sessions].sock = cl[c].socket
         /\ None(replies, Elsewhere(sessions, cl[c].socket))
         /\ None(requests, Asks("close", sessions))
    /\ cl[c].connected => fw[sessions].opened

ConnectInv(c) == ToCome /\ WantedInv(c) /\ AnswerInv(c) /\ CurrentInv(c)

\* Sessions of earlier connections are over before the next one is made.
EarlierInv(c) ==
    /\ NoneAfter(requests, Asks("connect", sessions), AskedEarlier(sessions))
    /\ None(requests, Asks("connect", sessions)) => None(requests, AskedEarlier(sessions))
    /\ \A x \in Sessions : (x < sessions \/ ~Open(c)) /\ fw[x].state = "open" =>
         ~None(requests, Asks("close", x))
    /\ NoneAfter(replies, Connecteds, Earlier(sessions))
    /\ cl[c].connected => None(replies, Earlier(sessions))

RecvInv(c) ==
    Open(c) =>
    LET asked    == ~None(requests, Asks("recv", sessions))
        answered == ~None(replies, Received(sessions))
        wants    == fw[sessions].wants
    IN  /\ ~Place(c).pending => ~asked /\ ~answered /\ ~wants
        /\ asked => ~answered /\ ~wants
        /\ answered => ~wants
        /\ AtMostOne(requests, Asks("recv", sessions))
        /\ AtMostOne(replies, Received(sessions))
        /\ Place(c).pending /\ fw[sessions].state # "lost" => asked \/ answered \/ wants
        /\ cl[c].connected =>
             \/ fw[sessions].state \in {"open", "lost"}
             \/ fw[sessions].state = "closed" /\ ~None(replies, Eofs(sessions))

Whole == \A n \in Segments : n <= MTU

----------------------------------------------------------------------------
(* Queues *)

LEMMA NoneAppend ==
    ASSUME NEW T, NEW q \in Seq(T), NEW e \in T, NEW S
    PROVE  /\ Append(q, e) \in Seq(T)
           /\ None(Append(q, e), S) <=> None(q, S) /\ e \notin S
           /\ AtMostOne(q, S) /\ (e \notin S \/ None(q, S)) => AtMostOne(Append(q, e), S)
<1>1. /\ Append(q, e) \in Seq(T) /\ Len(q) \in Nat
      /\ DOMAIN q = 1 .. Len(q) /\ DOMAIN Append(q, e) = 1 .. Len(q) + 1
      /\ \A i \in 1 .. Len(q) : Append(q, e)[i] = q[i]
      /\ Append(q, e)[Len(q) + 1] = e
  BY AppendProperties, LenProperties
<1>2. QED
  BY <1>1 DEF None, AtMostOne

LEMMA NoneAfterAppend ==
    ASSUME NEW T, NEW q \in Seq(T), NEW e \in T, NEW S, NEW R,
           NoneAfter(q, S, R), e \notin R \/ None(q, S)
    PROVE  NoneAfter(Append(q, e), S, R)
<1>1. /\ Append(q, e) \in Seq(T) /\ Len(q) \in Nat
      /\ DOMAIN q = 1 .. Len(q) /\ DOMAIN Append(q, e) = 1 .. Len(q) + 1
      /\ \A i \in 1 .. Len(q) : Append(q, e)[i] = q[i]
      /\ Append(q, e)[Len(q) + 1] = e
  BY AppendProperties, LenProperties
<1>2. QED
  BY <1>1 DEF None, NoneAfter

\* The elements of a queue without its head.
LEMMA TailElements ==
    ASSUME NEW T, NEW q \in Seq(T), q # <<>>
    PROVE  /\ Head(q) \in T /\ Tail(q) \in Seq(T) /\ Head(q) = q[1]
           /\ Len(q) \in Nat \ {0} /\ 1 \in 1 .. Len(q)
           /\ DOMAIN q = 1 .. Len(q) /\ DOMAIN Tail(q) = 1 .. Len(q) - 1
           /\ \A i \in 1 .. Len(q) - 1 :
                i + 1 \in 1 .. Len(q) /\ 1 < i + 1 /\ Tail(q)[i] = q[i + 1]
           /\ \A i, j \in 1 .. Len(q) - 1 : i < j => i + 1 < j + 1
           /\ \A i \in 1 .. Len(q) :
                i # 1 => i - 1 \in 1 .. Len(q) - 1 /\ Tail(q)[i - 1] = q[i]
<1> DEFINE n == Len(q)
           r == Tail(q)
           h == Head(q)
<1>1. /\ h \in T /\ r \in Seq(T) /\ n \in Nat \ {0} /\ h = q[1]
      /\ DOMAIN q = 1 .. n /\ DOMAIN r = 1 .. n - 1
      /\ \A i \in 1 .. n - 1 : r[i] = q[i + 1]
  <2>1. n \in Nat \ {0} /\ DOMAIN q = 1 .. n
    BY EmptySeq, LenProperties
  <2>2. /\ h \in T /\ r \in Seq(T) /\ Len(r) = n - 1
        /\ \A i \in 1 .. Len(r) : r[i] = q[i + 1]
    BY HeadTailProperties
  <2>3. QED
    BY <2>1, <2>2, LenProperties
<1> HIDE DEF n, r, h
<1>2. /\ \A i \in 1 .. n - 1 : i + 1 \in 1 .. n /\ 1 < i + 1 /\ r[i] = q[i + 1]
      /\ \A i, j \in 1 .. n - 1 : i < j => i + 1 < j + 1
  BY <1>1
<1>3. \A i \in 1 .. n : i # 1 => i - 1 \in 1 .. n - 1 /\ r[i - 1] = q[i]
  BY <1>1
<1>4. 1 \in 1 .. n
  BY <1>1
<1>5. QED
  BY <1>1, <1>2, <1>3, <1>4 DEF n, r, h

LEMMA NoneTail ==
    ASSUME NEW T, NEW q \in Seq(T), q # <<>>, NEW S
    PROVE  /\ Head(q) \in T /\ Tail(q) \in Seq(T)
           /\ None(q, S) <=> None(Tail(q), S) /\ Head(q) \notin S
           /\ AtMostOne(q, S) =>
                AtMostOne(Tail(q), S) /\ (Head(q) \in S => None(Tail(q), S))
<1> DEFINE n == Len(q)
           r == Tail(q)
           h == Head(q)
<1>1. /\ h = q[1] /\ 1 \in 1 .. n /\ DOMAIN q = 1 .. n /\ DOMAIN r = 1 .. n - 1
      /\ \A i \in 1 .. n - 1 : i + 1 \in 1 .. n /\ 1 < i + 1 /\ r[i] = q[i + 1]
      /\ \A i \in 1 .. n : i # 1 => i - 1 \in 1 .. n - 1 /\ r[i - 1] = q[i]
      /\ n \in Nat
  BY TailElements
<1> SUFFICES /\ None(q, S) <=> None(r, S) /\ h \notin S
             /\ AtMostOne(q, S) => AtMostOne(r, S) /\ (h \in S => None(r, S))
  BY TailElements
<1> HIDE DEF n, r, h
<1>2. None(q, S) => None(r, S) /\ h \notin S
  BY <1>1 DEF None
<1>3. None(r, S) /\ h \notin S => None(q, S)
  BY <1>1 DEF None
<1>4. AtMostOne(q, S) => AtMostOne(r, S)
  <2> SUFFICES ASSUME AtMostOne(q, S), NEW i \in 1 .. n - 1, NEW j \in 1 .. n - 1,
                      r[i] \in S, r[j] \in S
               PROVE  i = j
    BY <1>1 DEF AtMostOne
  <2>1. i + 1 = j + 1
    BY <1>1 DEF AtMostOne
  <2>2. QED
    BY <1>1, <2>1
<1>5. AtMostOne(q, S) /\ h \in S => None(r, S)
  <2> SUFFICES ASSUME AtMostOne(q, S), h \in S, NEW i \in 1 .. n - 1, r[i] \in S
               PROVE  FALSE
    BY <1>1 DEF None
  <2>1. i + 1 = 1
    BY <1>1 DEF AtMostOne
  <2>2. QED
    BY <1>1, <2>1
<1>6. QED
  BY <1>2, <1>3, <1>4, <1>5

LEMMA NoneAfterTail ==
    ASSUME NEW T, NEW q \in Seq(T), q # <<>>, NEW S, NEW R, NoneAfter(q, S, R)
    PROVE  NoneAfter(Tail(q), S, R) /\ (Head(q) \in S => None(Tail(q), R))
<1> DEFINE n == Len(q)
           r == Tail(q)
           h == Head(q)
<1>1. /\ h = q[1] /\ 1 \in 1 .. n /\ DOMAIN q = 1 .. n /\ DOMAIN r = 1 .. n - 1
      /\ \A i \in 1 .. n - 1 : i + 1 \in 1 .. n /\ 1 < i + 1 /\ r[i] = q[i + 1]
      /\ \A i, j \in 1 .. n - 1 : i < j => i + 1 < j + 1
  BY TailElements
<1> SUFFICES NoneAfter(r, S, R) /\ (h \in S => None(r, R))
  OBVIOUS
<1> HIDE DEF n, r, h
<1>2. NoneAfter(r, S, R)
  BY <1>1 DEF NoneAfter
<1>3. h \in S => \A i \in 1 .. n - 1 : q[i + 1] \notin R
  BY <1>1 DEF NoneAfter
<1>4. h \in S => None(r, R)
  BY <1>1, <1>3 DEF None
<1>5. QED
  BY <1>2, <1>4

LEMMA NoneSubset ==
    ASSUME NEW q, NEW S, NEW R, S \subseteq R, None(q, R)
    PROVE  None(q, S)
  BY DEF None

LEMMA NoneIsAfter ==
    ASSUME NEW q, NEW S, NEW R, None(q, S)
    PROVE  NoneAfter(q, S, R)
  BY DEF None, NoneAfter

LEMMA NoneEmpty ==
    \A S, R : None(<<>>, S) /\ AtMostOne(<<>>, S) /\ NoneAfter(<<>>, S, R)
<1>1. DOMAIN <<>> = {}
  BY EmptySeq, LenProperties
<1>2. QED
  BY <1>1 DEF None, AtMostOne, NoneAfter

----------------------------------------------------------------------------
(* Types *)

\* A request of the host.
Ask(kind, s, x) == [kind |-> kind, sock |-> s, session |-> x]

LEMMA Ranges ==
    /\ NoSocket \notin Sockets /\ 0 \notin Sessions /\ 0 \in 0 .. TCP_SIZE
    /\ Sockets \subseteq Nat /\ Sessions \subseteq Nat /\ 0 \in Sockets
    /\ \A n \in 0 .. TCP_SIZE : n \in Nat /\ n <= TCP_SIZE
    /\ Places \subseteq Nat /\ SocketMax \in Nat /\ NoSocket \in Nat
  BY DEF NoSocket, Sockets, Sessions, Places

LEMMA EntryTypes ==
    /\ ClosedSocket \in Entry /\ NewClient \in Client /\ NoConnection \in Connection
    /\ NewClient.data \in [Places -> Bytes \union {NoByte}]
  BY Ranges DEF ClosedSocket, NewClient, NoConnection, Entry, Client, Connection, NoByte

LEMMA ConcatOne ==
    ASSUME NEW T, NEW q \in Seq(T), NEW e \in T
    PROVE  q \o <<e>> = Append(q, e) /\ q \o <<>> = q
  BY AppendIsConcat, ConcatEmptySeq

LEMMA AskIn ==
    ASSUME NEW s \in Sockets, NEW x \in Sessions, NEW k \in {"connect", "recv", "close"}
    PROVE  Ask(k, s, x) \in Requests
  BY DEF Ask, Requests

\* One request more, or less: what the queue no longer has none of.
MoreAsked(k, s, x) ==
    /\ requests' \in Seq(Requests)
    /\ \A l, z : None(requests', Asks(l, z))
         <=> None(requests, Asks(l, z)) /\ ~(l = k /\ z = x)
    /\ \A l, z : AtMostOne(requests, Asks(l, z))
         /\ (~(l = k /\ z = x) \/ None(requests, Asks(l, z)))
         => AtMostOne(requests', Asks(l, z))
    /\ \A z : None(requests', AskedEarlier(z))
         <=> None(requests, AskedEarlier(z)) /\ ~(x < z)
    /\ \A z, t : None(requests', AsksElsewhere(z, t))
         <=> None(requests, AsksElsewhere(z, t)) /\ ~(x = z /\ s # t)
    /\ \A z : NoneAfter(requests, Asks("connect", z), AskedEarlier(z))
         /\ (~(x < z) \/ None(requests, Asks("connect", z)))
         => NoneAfter(requests', Asks("connect", z), AskedEarlier(z))

FewerAsked(k, s, x) ==
    /\ requests' \in Seq(Requests)
    /\ \A l, z : None(requests, Asks(l, z))
         <=> None(requests', Asks(l, z)) /\ ~(l = k /\ z = x)
    /\ \A l, z : AtMostOne(requests, Asks(l, z)) =>
         /\ AtMostOne(requests', Asks(l, z))
         /\ l = k /\ z = x => None(requests', Asks(l, z))
    /\ \A z : None(requests, AskedEarlier(z))
         <=> None(requests', AskedEarlier(z)) /\ ~(x < z)
    /\ \A z, t : None(requests, AsksElsewhere(z, t))
         <=> None(requests', AsksElsewhere(z, t)) /\ ~(x = z /\ s # t)
    /\ \A z : NoneAfter(requests, Asks("connect", z), AskedEarlier(z)) =>
         /\ NoneAfter(requests', Asks("connect", z), AskedEarlier(z))
         /\ k = "connect" /\ z = x => None(requests', AskedEarlier(z))

LEMMA Asked ==
    ASSUME requests \in Seq(Requests), NEW k, NEW s, NEW x, Ask(k, s, x) \in Requests,
           requests' = Append(requests, Ask(k, s, x))
    PROVE  MoreAsked(k, s, x)
<1> DEFINE r == Ask(k, s, x)
<1>1. /\ \A l, z : r \in Asks(l, z) <=> l = k /\ z = x
      /\ \A z : r \in AskedEarlier(z) <=> x < z
      /\ \A z, t : r \in AsksElsewhere(z, t) <=> x = z /\ s # t
  BY DEF Ask, Asks, AskedEarlier, AsksElsewhere
<1> HIDE DEF r
<1>2. /\ requests' \in Seq(Requests)
      /\ \A S : None(requests', S) <=> None(requests, S) /\ r \notin S
      /\ \A S : AtMostOne(requests, S) /\ (r \notin S \/ None(requests, S)) =>
            AtMostOne(requests', S)
  BY NoneAppend DEF r
<1>3. \A S, R : NoneAfter(requests, S, R) /\ (r \notin R \/ None(requests, S)) =>
            NoneAfter(requests', S, R)
  BY NoneAfterAppend DEF r
<1>4. QED
  BY <1>1, <1>2, <1>3 DEF MoreAsked

\* One request less.
LEMMA Taken ==
    ASSUME requests \in Seq(Requests), requests # <<>>, requests' = Tail(requests)
    PROVE  \E k \in {"connect", "recv", "close"}, s \in Sockets, x \in Sessions :
             Head(requests) = Ask(k, s, x) /\ FewerAsked(k, s, x)
<1> DEFINE r == Head(requests)
           k == r.kind
           s == r.sock
           x == r.session
<1>1. r \in Requests
  BY TailElements
<1>2. /\ k \in {"connect", "recv", "close"} /\ s \in Sockets /\ x \in Sessions
      /\ r = Ask(k, s, x)
      /\ \A l, z : r \in Asks(l, z) <=> l = k /\ z = x
      /\ \A z : r \in AskedEarlier(z) <=> x < z
      /\ \A z, t : r \in AsksElsewhere(z, t) <=> x = z /\ s # t
  BY <1>1 DEF Ask, Asks, AskedEarlier, AsksElsewhere, Requests
<1>3. /\ requests' \in Seq(Requests)
      /\ \A S : None(requests, S) <=> None(requests', S) /\ r \notin S
      /\ \A S : AtMostOne(requests, S) =>
            AtMostOne(requests', S) /\ (r \in S => None(requests', S))
  BY NoneTail
<1>4. \A S, R : NoneAfter(requests, S, R) =>
            NoneAfter(requests', S, R) /\ (r \in S => None(requests', R))
  BY NoneAfterTail
<1> HIDE DEF r, k, s, x
<1>5. QED
  BY <1>2, <1>3, <1>4 DEF r, FewerAsked

\* What is told of a session is of one of these kinds.
LEMMA NoneAbout ==
    ASSUME NEW q, NEW x \in Sessions, None(q, About(x))
    PROVE  /\ None(q, Answers(x)) /\ None(q, Received(x)) /\ None(q, Eofs(x))
           /\ \A s : None(q, Elsewhere(x, s))
<1>1. /\ Answers(x) \subseteq About(x) /\ Received(x) \subseteq About(x)
      /\ Eofs(x) \subseteq About(x) /\ \A s : Elsewhere(x, s) \subseteq About(x)
  BY DEF Answers, Received, About, Eofs, Elsewhere
<1>2. QED
  BY <1>1, NoneSubset

LEMMA NoneAsked ==
    ASSUME NEW q \in Seq(Requests), NEW x,
           \A k \in {"connect", "recv", "close"} : None(q, Asks(k, x))
    PROVE  \A s : None(q, AsksElsewhere(x, s))
<1>1. \A i \in DOMAIN q : q[i] \in Requests
  BY LenProperties
<1>2. \A r \in Requests : r.kind \in {"connect", "recv", "close"}
  BY DEF Requests
<1>3. QED
  BY <1>1, <1>2 DEF None, Asks, AsksElsewhere

\* What one more reply, and one less, change.
Kinds == {"connected", "refused", "received", "disconnected"}

InAnswers(e, z)    == (e.kind = "connected" \/ e.kind = "refused") /\ e.session = z
InReceived(e, z)   == e.kind = "received" /\ e.session = z
InEofs(e, z)       == InReceived(e, z) /\ e.bytes = <<>>
InEarlier(e, z)    == e.kind = "received" /\ e.session < z
InAbout(e, z)      == e.kind # "disconnected" /\ e.session = z
InElsewhere(e, z, t) == InAbout(e, z) /\ e.sock # t

LEMMA MessageSets ==
    ASSUME NEW e \in Messages
    PROVE  /\ e.kind \in Kinds
           /\ \A z : e \in Answers(z) <=> InAnswers(e, z)
           /\ e \in Connecteds <=> e.kind = "connected"
           /\ e \in Refusals <=> e.kind = "refused"
           /\ e \in Losses <=> e.kind = "disconnected"
           /\ \A z : e \in Received(z) <=> InReceived(e, z)
           /\ \A z : e \in Eofs(z) <=> InEofs(e, z)
           /\ \A z : e \in Earlier(z) <=> InEarlier(e, z)
           /\ \A z : e \in About(z) <=> InAbout(e, z)
           /\ \A z, t : e \in Elsewhere(z, t) <=> InElsewhere(e, z, t)
<1>1. e.kind \in Kinds
  BY DEF Messages, Replies, Kinds
<1>2. /\ e \in Connecteds <=> e.kind = "connected"
      /\ e \in Refusals <=> e.kind = "refused"
      /\ e \in Losses <=> e.kind = "disconnected"
  BY DEF Connecteds, Refusals, Losses
<1>3. \A z : e \in Answers(z) <=> InAnswers(e, z)
  BY DEF Answers, InAnswers
<1>4. \A z : e \in Received(z) <=> InReceived(e, z)
  BY DEF Received, InReceived
<1>5. \A z : e \in Eofs(z) <=> InEofs(e, z)
  <2> SUFFICES ASSUME NEW z PROVE e \in Eofs(z) <=> InEofs(e, z)
    OBVIOUS
  <2>1. e \in Eofs(z) <=> e \in Received(z) /\ e.bytes = <<>>
    BY DEF Eofs
  <2>2. QED
    BY <1>4, <2>1 DEF InEofs
<1>6. \A z : e \in Earlier(z) <=> InEarlier(e, z)
  BY DEF Earlier, InEarlier
<1>7. \A z : e \in About(z) <=> InAbout(e, z)
  BY DEF About, InAbout
<1>8. \A z, t : e \in Elsewhere(z, t) <=> InElsewhere(e, z, t)
  <2> SUFFICES ASSUME NEW z, NEW t PROVE e \in Elsewhere(z, t) <=> InElsewhere(e, z, t)
    OBVIOUS
  <2>1. e \in Elsewhere(z, t) <=> e \in About(z) /\ e.sock # t
    BY DEF Elsewhere
  <2>2. QED
    BY <1>7, <2>1 DEF InElsewhere
<1>9. QED
  BY <1>1, <1>2, <1>3, <1>4, <1>5, <1>6, <1>7, <1>8

\* One reply more, or less.
MoreTold(e) ==
    /\ replies' \in Seq(Messages)
    /\ \A z : None(replies', Answers(z)) <=> None(replies, Answers(z)) /\ ~InAnswers(e, z)
    /\ \A z : AtMostOne(replies, Answers(z))
         /\ (~InAnswers(e, z) \/ None(replies, Answers(z)))
         => AtMostOne(replies', Answers(z))
    /\ None(replies', Connecteds) <=> None(replies, Connecteds) /\ e.kind # "connected"
    /\ None(replies', Refusals) <=> None(replies, Refusals) /\ e.kind # "refused"
    /\ None(replies', Losses) <=> None(replies, Losses) /\ e.kind # "disconnected"
    /\ \A z : None(replies', Received(z))
         <=> None(replies, Received(z)) /\ ~InReceived(e, z)
    /\ \A z : AtMostOne(replies, Received(z))
         /\ (~InReceived(e, z) \/ None(replies, Received(z)))
         => AtMostOne(replies', Received(z))
    /\ \A z : None(replies', Eofs(z)) <=> None(replies, Eofs(z)) /\ ~InEofs(e, z)
    /\ \A z : None(replies', Earlier(z)) <=> None(replies, Earlier(z)) /\ ~InEarlier(e, z)
    /\ \A z : None(replies', About(z)) <=> None(replies, About(z)) /\ ~InAbout(e, z)
    /\ \A z, t : None(replies', Elsewhere(z, t))
         <=> None(replies, Elsewhere(z, t)) /\ ~InElsewhere(e, z, t)
    /\ NoneAfter(replies, Losses, Connecteds)
         /\ (e.kind # "connected" \/ None(replies, Losses))
         => NoneAfter(replies', Losses, Connecteds)
    /\ \A z : NoneAfter(replies, Connecteds, Earlier(z))
         /\ (~InEarlier(e, z) \/ None(replies, Connecteds))
         => NoneAfter(replies', Connecteds, Earlier(z))

FewerTold(e) ==
    /\ replies' \in Seq(Messages)
    /\ \A z : None(replies, Answers(z)) <=> None(replies', Answers(z)) /\ ~InAnswers(e, z)
    /\ \A z : AtMostOne(replies, Answers(z)) =>
         /\ AtMostOne(replies', Answers(z))
         /\ InAnswers(e, z) => None(replies', Answers(z))
    /\ None(replies, Connecteds) <=> None(replies', Connecteds) /\ e.kind # "connected"
    /\ None(replies, Refusals) <=> None(replies', Refusals) /\ e.kind # "refused"
    /\ None(replies, Losses) <=> None(replies', Losses) /\ e.kind # "disconnected"
    /\ \A z : None(replies, Received(z))
         <=> None(replies', Received(z)) /\ ~InReceived(e, z)
    /\ \A z : AtMostOne(replies, Received(z)) =>
         /\ AtMostOne(replies', Received(z))
         /\ InReceived(e, z) => None(replies', Received(z))
    /\ \A z : None(replies, Eofs(z)) <=> None(replies', Eofs(z)) /\ ~InEofs(e, z)
    /\ \A z : None(replies, Earlier(z)) <=> None(replies', Earlier(z)) /\ ~InEarlier(e, z)
    /\ \A z : None(replies, About(z)) <=> None(replies', About(z)) /\ ~InAbout(e, z)
    /\ \A z, t : None(replies, Elsewhere(z, t))
         <=> None(replies', Elsewhere(z, t)) /\ ~InElsewhere(e, z, t)
    /\ NoneAfter(replies, Losses, Connecteds) =>
         /\ NoneAfter(replies', Losses, Connecteds)
         /\ e.kind = "disconnected" => None(replies', Connecteds)
    /\ \A z : NoneAfter(replies, Connecteds, Earlier(z)) =>
         /\ NoneAfter(replies', Connecteds, Earlier(z))
         /\ e.kind = "connected" => None(replies', Earlier(z))

LEMMA Told ==
    ASSUME replies \in Seq(Messages), NEW e \in Messages, replies' = Append(replies, e)
    PROVE  MoreTold(e)
<1>1. /\ replies' \in Seq(Messages)
      /\ \A S : None(replies', S) <=> None(replies, S) /\ e \notin S
      /\ \A S : AtMostOne(replies, S) /\ (e \notin S \/ None(replies, S)) =>
            AtMostOne(replies', S)
  BY NoneAppend
<1>2. \A S, R : NoneAfter(replies, S, R) /\ (e \notin R \/ None(replies, S)) =>
            NoneAfter(replies', S, R)
  BY NoneAfterAppend
<1>3. QED
  BY <1>1, <1>2, MessageSets DEF MoreTold

LEMMA Handled ==
    ASSUME replies \in Seq(Messages), replies # <<>>, replies' = Tail(replies)
    PROVE  \E e \in Messages : e = Head(replies) /\ FewerTold(e)
<1>1. /\ Head(replies) \in Messages /\ replies' \in Seq(Messages)
      /\ \A S : None(replies, S) <=> None(replies', S) /\ Head(replies) \notin S
      /\ \A S : AtMostOne(replies, S) =>
            AtMostOne(replies', S) /\ (Head(replies) \in S => None(replies', S))
  BY NoneTail
<1>2. \A S, R : NoneAfter(replies, S, R) =>
            NoneAfter(replies', S, R) /\ (Head(replies) \in S => None(replies', R))
  BY NoneAfterTail
<1>3. PICK e \in Messages : e = Head(replies)
  BY <1>1
<1>4. QED
  BY <1>1, <1>2, <1>3, MessageSets DEF FewerTold

\* Every answer is to a session.
LEMMA NoneAnswered ==
    ASSUME NEW q \in Seq(Messages), \A x \in Sessions : None(q, Answers(x))
    PROVE  None(q, Connecteds) /\ None(q, Refusals)
<1>1. \A e \in Connecteds \union Refusals : \E x \in Sessions : e \in Answers(x)
  BY DEF Connecteds, Refusals, Answers, Messages
<1>2. QED
  BY <1>1 DEF None

\* What recv() and close() add to the requests.
LEMMA RecvAsks ==
    ASSUME requests \in Seq(Requests), NEW s \in Sockets, NEW so \in Entry,
           so.used => so.session \in Sessions
    PROVE  requests \o RecvRequest(s, so) =
             IF so.used /\ ~so.pending THEN Append(requests, Ask("recv", s, so.session))
                                        ELSE requests
<1>1. CASE so.used /\ ~so.pending
  BY <1>1, AskIn, ConcatOne DEF RecvRequest, Ask
<1>2. CASE ~(so.used /\ ~so.pending)
  BY <1>2, ConcatEmptySeq DEF RecvRequest
<1>3. QED
  BY <1>1, <1>2

LEMMA CloseAsks ==
    ASSUME requests \in Seq(Requests), NEW s \in Sockets, NEW so \in Entry,
           so.used => so.session \in Sessions
    PROVE  requests \o CloseRequest(s, so) =
             IF so.used THEN Append(requests, Ask("close", s, so.session)) ELSE requests
<1>1. CASE so.used
  BY <1>1, AskIn, ConcatOne DEF CloseRequest, Ask
<1>2. CASE ~so.used
  BY <1>2, ConcatEmptySeq DEF CloseRequest
<1>3. QED
  BY <1>1, <1>2

\* close() of one socket, or of -1.
LEMMA CloseAllAsks ==
    ASSUME requests \in Seq(Requests), sk \in [Sockets -> Entry],
           NEW s \in Sockets \union {NoSocket},
           \A t \in Sockets : sk[t].used => sk[t].session \in Sessions
    PROVE  requests \o CloseRequests({s}) =
             IF s \in Sockets /\ sk[s].used
             THEN Append(requests, Ask("close", s, sk[s].session)) ELSE requests
<1> DEFINE open == {t \in {s} \cap Sockets : sk[t].used}
           Nth(n) == CHOOSE t \in open : Cardinality({u \in open : u < t}) = n - 1
<1>1. CASE s \in Sockets /\ sk[s].used
  <2>1. open = {s} /\ Cardinality(open) = 1
    <3>1. open = {s}
      BY <1>1
    <3>2. Cardinality({s}) = 1
      BY FS_Singleton
    <3>3. QED
      BY <3>1, <3>2
  <2>2. {u \in open : u < s} = {}
    BY <1>1, <2>1, Ranges
  <2>3. Nth(1) = s
    BY <2>1, <2>2, FS_EmptySet
  <2>4. CloseRequests({s}) = [n \in 1 .. 1 |-> CloseRequest(Nth(n), sk[Nth(n)])[1]]
    BY <2>1 DEF CloseRequests
  <2>5. CloseRequest(s, sk[s])[1] = Ask("close", s, sk[s].session)
    BY <1>1 DEF CloseRequest, Ask
  <2> HIDE DEF Nth
  <2>6. CloseRequests({s}) = <<Ask("close", s, sk[s].session)>>
    BY <2>3, <2>4, <2>5
  <2>7. QED
    BY <1>1, <2>6, AskIn, ConcatOne
<1>2. CASE ~(s \in Sockets /\ sk[s].used)
  <2>1. open = {} /\ Cardinality(open) = 0
    BY <1>2, FS_EmptySet
  <2>2. CloseRequests({s}) = [n \in 1 .. 0 |-> CloseRequest(Nth(n), sk[Nth(n)])[1]]
    BY <2>1 DEF CloseRequests
  <2> HIDE DEF Nth
  <2>3. CloseRequests({s}) = <<>>
    BY <2>2
  <2>4. QED
    BY <1>2, <2>3, ConcatEmptySeq
<1>3. QED
  BY <1>1, <1>2

----------------------------------------------------------------------------
(* Connecting *)

Base(c) == Types /\ SocketInv(c) /\ ConnectInv(c) /\ EarlierInv(c) /\ RecvInv(c)

\* The sketch connects only when no socket is used: the free one is any.
LEMMA NoneUsed ==
    ASSUME NEW c, Clients = {c}, Types, SocketInv(c), calling = NoClient, ~connected(c)
    PROVE  /\ \A s \in Sockets : ~sk[s].used /\ sk[s] = ClosedSocket
           /\ ~Open(c) /\ ~cl[c].connected /\ xfer = NoXfer
  BY DEF SocketInv, connected, Open

LEMMA FreeSocket ==
    ASSUME Types, \A s \in Sockets : ~sk[s].used
    PROVE  FreeFrom(nextTcp) \in Sockets
<1>1. nextTcp \in Nat /\ \A n \in Nat : n % SocketMax \in Sockets
  BY DEF Types, Sockets
<1>2. \E i \in Sockets : /\ ~sk[(nextTcp + i) % SocketMax].used
                         /\ \A j \in 0 .. i - 1 : sk[(nextTcp + j) % SocketMax].used
  <2>1. ~sk[(nextTcp + 0) % SocketMax].used
    BY <1>1
  <2>2. QED
    BY <2>1, Ranges
<1>3. PICK i \in Sockets : FreeFrom(nextTcp) = (nextTcp + i) % SocketMax
  BY <1>2 DEF FreeFrom
<1>4. nextTcp + i \in Nat
  BY <1>1, Ranges
<1>5. QED
  BY <1>1, <1>3, <1>4

LEMMA StartConnectDoes ==
    ASSUME NEW c, Clients = {c}, Types, SocketInv(c), StartConnect(c), ~connected(c)
    PROVE  \E s \in Sockets :
             /\ cl' = [cl EXCEPT ![c] = Fresh(c, s)] /\ Fresh(c, s) \in Client
             /\ sk' = [t \in Sockets |->
                          IF t = s THEN [ClosedSocket EXCEPT !.used = TRUE,
                                                             !.session = sessions + 1]
                                   ELSE ClosedSocket]
             /\ reg' = [reg EXCEPT ![s] = c]
             /\ nextTcp' \in Sockets
             /\ requests' = Append(requests, Ask("connect", s, sessions + 1))
             /\ Ask("connect", s, sessions + 1) \in Requests
             /\ sessions + 1 \in Sessions
<1>0. sessions + 1 \in Sessions
  BY DEF StartConnect, Types, Sessions
<1>1. \A s \in Sockets : ~sk[s].used /\ sk[s] = ClosedSocket
  BY NoneUsed DEF StartConnect
<1> DEFINE s == FreeFrom(nextTcp)
<1>2. s \in Sockets
  BY <1>1, FreeSocket
<1>3. (s + 1) % SocketMax \in Sockets
  BY <1>2 DEF Sockets
<1>4. Fresh(c, s) \in Client
  BY <1>2, Ranges DEF Fresh, Types, Client, NewClient
<1>5. /\ cl' = [cl EXCEPT ![c] = Fresh(c, s)]
      /\ sk' = [sk EXCEPT ![s] = [ClosedSocket EXCEPT !.used = TRUE, !.session = sessions + 1]]
      /\ reg' = [reg EXCEPT ![s] = c] /\ nextTcp' = (s + 1) % SocketMax
      /\ requests' = Append(requests, Ask("connect", s, sessions + 1))
  BY DEF StartConnect, Ask
<1> HIDE DEF s
<1>6. sk' = [t \in Sockets |->
               IF t = s THEN [ClosedSocket EXCEPT !.used = TRUE, !.session = sessions + 1]
                        ELSE ClosedSocket]
  BY <1>1, <1>2, <1>5 DEF Types
<1>7. QED
  BY <1>0, <1>2, <1>3, <1>4, <1>5, <1>6, AskIn

LEMMA StartConnectTypes ==
    ASSUME NEW c, Clients = {c}, Types, SocketInv(c), StartConnect(c), ~connected(c)
    PROVE  Types'
<1>1. PICK s \in Sockets :
             /\ cl' = [cl EXCEPT ![c] = Fresh(c, s)] /\ Fresh(c, s) \in Client
             /\ sk' = [t \in Sockets |->
                          IF t = s THEN [ClosedSocket EXCEPT !.used = TRUE,
                                                             !.session = sessions + 1]
                                   ELSE ClosedSocket]
             /\ reg' = [reg EXCEPT ![s] = c]
             /\ nextTcp' \in Sockets
             /\ requests' = Append(requests, Ask("connect", s, sessions + 1))
             /\ Ask("connect", s, sessions + 1) \in Requests
             /\ sessions + 1 \in Sessions
  BY StartConnectDoes
<1>2. requests' \in Seq(Requests)
  BY <1>1, NoneAppend DEF Types
<1>3. sk' \in [Sockets -> Entry]
  BY <1>1, Ranges DEF ClosedSocket, Entry
<1>4. /\ sessions' \in 0 .. MaxSessions /\ calling' \in Clients
      /\ UNCHANGED <<holders, xfer, replies, fw, network>>
      /\ got' \in [Clients -> Seq(Bytes \union {NoByte})]
  BY <1>1 DEF StartConnect, Types, Sessions
<1>5. QED
  BY <1>1, <1>2, <1>3, <1>4 DEF Types

LEMMA StartConnectKeeps ==
    ASSUME NEW c, Clients = {c}, Base(c), StartConnect(c), ~connected(c)
    PROVE  Base(c)'
<1> USE DEF Base
<1>1. PICK s \in Sockets :
             /\ cl' = [cl EXCEPT ![c] = Fresh(c, s)] /\ Fresh(c, s) \in Client
             /\ sk' = [t \in Sockets |->
                          IF t = s THEN [ClosedSocket EXCEPT !.used = TRUE,
                                                             !.session = sessions + 1]
                                   ELSE ClosedSocket]
             /\ reg' = [reg EXCEPT ![s] = c]
             /\ nextTcp' \in Sockets
             /\ requests' = Append(requests, Ask("connect", s, sessions + 1))
             /\ Ask("connect", s, sessions + 1) \in Requests
             /\ sessions + 1 \in Sessions
  BY StartConnectDoes
<1> DEFINE y == sessions + 1
<1>2. /\ calling' = c /\ c # NoClient /\ calling = NoClient /\ sessions' = y
      /\ got'[c] = <<>>
      /\ UNCHANGED <<holders, xfer, replies, fw, network>>
  BY DEF StartConnect, Types
<1>3. /\ cl'[c].socket = s /\ ~cl'[c].connected /\ ~cl'[c].full
      /\ cl'[c].head = 0 /\ cl'[c].tail = 0
  BY <1>1 DEF Fresh, NewClient, Types
<1>4. /\ \A t \in Sockets : t # s => sk'[t] = ClosedSocket /\ ~sk'[t].used
      /\ sk'[s].used /\ sk'[s].session = y /\ ~sk'[s].pending /\ reg'[s] = c
  BY <1>1 DEF ClosedSocket, Types
<1>5. Open(c)' /\ Place(c)' = sk'[s]
  BY <1>3, <1>4 DEF Open, Place
<1>6. ~Open(c) /\ ~cl[c].connected /\ xfer = NoXfer
  BY <1>2, NoneUsed
<1>7. y \in Sessions /\ y > sessions /\ y # 0 /\ sessions \in Nat
  BY <1>1 DEF Types, Sessions
<1>8. MoreAsked("connect", s, y)
  BY <1>1, Asked DEF Types
<1>9. Unborn(y)
  BY <1>7 DEF ConnectInv, ToCome
<1>10. /\ fw[y] = NoConnection /\ None(requests, AsksElsewhere(y, s))
       /\ \A k \in {"connect", "recv", "close"} : None(requests, Asks(k, y))
       /\ None(replies, Answers(y)) /\ None(replies, Received(y))
       /\ \A t : None(replies, Elsewhere(y, t))
  BY <1>7, <1>9, NoneAsked, NoneAbout DEF Unborn, Types
<1> HIDE DEF y
<1>11. Types'
  BY <1>2, StartConnectTypes
<1>12. SocketInv(c)'
  BY <1>2, <1>3, <1>4, <1>5, <1>6, <1>7 DEF SocketInv
<1>13. ToCome'
  <2> SUFFICES ASSUME NEW x \in Sessions, x > y PROVE Unborn(x)'
    BY <1>2 DEF ToCome
  <2>1. Unborn(x) /\ x # y
    BY <1>7 DEF ConnectInv, ToCome, Sessions
  <2>2. QED
    BY <1>2, <1>8, <2>1 DEF Unborn, MoreAsked
<1>14. \A x \in Sessions : ~Wanted(x) /\ ~Answered(x)
  BY <1>2 DEF ConnectInv, WantedInv
<1>15. WantedInv(c)'
  <2> SUFFICES ASSUME NEW x \in Sessions
      PROVE /\ Wanted(x)' \/ Answered(x)' => x = y /\ calling' = c /\ ~cl'[c].connected
            /\ Wanted(x)' => ~Answered(x)'
            /\ Wanted(x)' => Open(c)'
            /\ fw'[x].state = "connecting" => None(requests', Asks("connect", x))
            /\ AtMostOne(requests', Asks("connect", x)) /\ AtMostOne(replies', Answers(x))
    BY <1>2 DEF WantedInv
  <2>1. ~Answered(x)' /\ fw'[x].state # "connecting"
    BY <1>2, <1>14 DEF Answered, Wanted
  <2>2. None(requests, Asks("connect", x))
    BY <1>14 DEF Wanted
  <2>3. AtMostOne(requests, Asks("connect", x)) /\ AtMostOne(replies, Answers(x))
    BY DEF ConnectInv, WantedInv
  <2>4. Wanted(x)' => x = y
    BY <1>8, <2>1, <2>2 DEF Wanted, MoreAsked
  <2>5. AtMostOne(requests', Asks("connect", x))
    BY <1>8, <2>2, <2>3 DEF MoreAsked
  <2>6. QED
    BY <1>2, <1>3, <1>5, <2>1, <2>3, <2>4, <2>5
<1>16. AnswerInv(c)'
  <2>1. None(replies, Connecteds) /\ None(replies, Refusals)
    BY <1>14, NoneAnswered DEF Answered, Types
  <2>2. QED
    BY <1>2, <2>1 DEF AnswerInv, ConnectInv
<1>17. CurrentInv(c)'
  BY <1>2, <1>3, <1>5, <1>8, <1>10 DEF CurrentInv, NoConnection, MoreAsked
<1>18. EarlierInv(c)'
  <2>1. NoneAfter(requests', Asks("connect", y), AskedEarlier(y))
    <3>1. NoneAfter(requests, Asks("connect", y), AskedEarlier(y))
      BY <1>10, NoneIsAfter
    <3>2. QED
      BY <1>8, <1>10, <3>1 DEF MoreAsked
  <2>2. ~None(requests', Asks("connect", y))
    BY <1>8 DEF MoreAsked
  <2>3. ASSUME NEW x \in Sessions, fw'[x].state = "open"
        PROVE  ~None(requests', Asks("close", x))
    <3>1. ~None(requests, Asks("close", x))
      BY <1>2, <1>6, <2>3 DEF EarlierInv
    <3>2. QED
      BY <1>8, <3>1 DEF MoreAsked
  <2>4. NoneAfter(replies', Connecteds, Earlier(y))
    <3>1. None(replies, Connecteds)
      BY <1>14, NoneAnswered DEF Answered, Types
    <3>2. NoneAfter(replies, Connecteds, Earlier(y))
      BY <3>1, NoneIsAfter
    <3>3. QED
      BY <1>2, <3>2
  <2>5. QED
    BY <1>2, <1>3, <2>1, <2>2, <2>3, <2>4 DEF EarlierInv
<1>19. RecvInv(c)'
  <2>1. /\ None(requests', Asks("recv", y)) /\ None(replies', Received(y))
        /\ ~fw'[y].wants /\ AtMostOne(requests', Asks("recv", y))
        /\ AtMostOne(replies', Received(y))
    BY <1>2, <1>8, <1>10 DEF NoConnection, MoreAsked, None, AtMostOne
  <2>2. QED
    BY <1>2, <1>3, <1>4, <1>5, <2>1 DEF RecvInv
<1>20. QED
  BY <1>11, <1>12, <1>13, <1>15, <1>16, <1>17, <1>18, <1>19 DEF ConnectInv

----------------------------------------------------------------------------
(* Closing *)

\* Nothing is told that was not told before.
NoMoreTold ==
    /\ replies' \in Seq(Messages)
    /\ \A z : None(replies, Answers(z)) => None(replies', Answers(z))
    /\ \A z : AtMostOne(replies, Answers(z)) => AtMostOne(replies', Answers(z))
    /\ None(replies, Connecteds) => None(replies', Connecteds)
    /\ None(replies, Refusals) => None(replies', Refusals)
    /\ None(replies, Losses) => None(replies', Losses)
    /\ \A z : None(replies, Earlier(z)) => None(replies', Earlier(z))
    /\ \A z : None(replies, About(z)) => None(replies', About(z))
    /\ \A z, t : None(replies, Elsewhere(z, t)) => None(replies', Elsewhere(z, t))
    /\ NoneAfter(replies, Losses, Connecteds) => NoneAfter(replies', Losses, Connecteds)
    /\ \A z : NoneAfter(replies, Connecteds, Earlier(z))
         => NoneAfter(replies', Connecteds, Earlier(z))

LEMMA FewerIsNoMore ==
    /\ \A e : FewerTold(e) => NoMoreTold
    /\ replies \in Seq(Messages) /\ UNCHANGED replies => NoMoreTold
<1>1. \A e : FewerTold(e) => NoMoreTold
  BY DEF FewerTold, NoMoreTold
<1>2. replies \in Seq(Messages) /\ UNCHANGED replies => NoMoreTold
  BY DEF NoMoreTold
<1>3. QED
  BY <1>1, <1>2

\* The socket of the client is closed, if it was used: by the client, or
\* under it.
LEMMA ClosingAsks ==
    ASSUME NEW c, Clients = {c}, Types, SocketInv(c),
           requests' = IF Open(c) THEN Append(requests, Ask("close", cl[c].socket, sessions))
                                  ELSE requests
    PROVE  /\ requests' \in Seq(Requests)
           /\ \A x : None(requests', Asks("connect", x)) <=> None(requests, Asks("connect", x))
           /\ \A x : AtMostOne(requests, Asks("connect", x))
                => AtMostOne(requests', Asks("connect", x))
           /\ \A k, x : x # sessions =>
                (None(requests', Asks(k, x)) <=> None(requests, Asks(k, x)))
           /\ \A x : ~None(requests, Asks("close", x)) => ~None(requests', Asks("close", x))
           /\ Open(c) => ~None(requests', Asks("close", sessions))
           /\ None(requests', AskedEarlier(sessions)) <=> None(requests, AskedEarlier(sessions))
           /\ NoneAfter(requests, Asks("connect", sessions), AskedEarlier(sessions))
                => NoneAfter(requests', Asks("connect", sessions), AskedEarlier(sessions))
<1>1. CASE Open(c)
  <2>1. cl[c].socket \in Sockets /\ sessions \in Sessions /\ ~(sessions < sessions)
    BY <1>1 DEF Open, SocketInv, Types, Sessions
  <2>2. MoreAsked("close", cl[c].socket, sessions)
    BY <1>1, <2>1, AskIn, Asked DEF Types
  <2>3. QED
    BY <1>1, <2>1, <2>2 DEF MoreAsked
<1>2. CASE ~Open(c)
  BY <1>2 DEF Types
<1>3. QED
  BY <1>1, <1>2

LEMMA ClosingKeeps ==
    ASSUME NEW c, Clients = {c}, Base(c), Types', NoMoreTold,
           \A s \in Sockets : sk'[s] = ClosedSocket,
           requests' = IF Open(c) THEN Append(requests, Ask("close", cl[c].socket, sessions))
                                  ELSE requests,
           ~cl'[c].connected, ~cl'[c].full,
           cl'[c].head = cl[c].head, cl'[c].tail = cl[c].tail, xfer' = NoXfer,
           UNCHANGED <<sessions, fw, network>>,
           \/ \A x \in Sessions : ~Wanted(x) /\ None(replies', Answers(x))
           \/ /\ cl'[c].socket = NoSocket /\ ~network.up /\ None(replies', Connecteds)
              /\ calling' = calling
    PROVE  Base(c)'
<1>1. /\ \A s \in Sockets : ~sk'[s].used /\ sk'[s] = ClosedSocket
      /\ ~Open(c)'
  <2>1. ~ClosedSocket.used
    BY DEF ClosedSocket
  <2>2. QED
    BY <2>1 DEF Open
<1> USE DEF Base
<1>2. /\ \A x : None(requests', Asks("connect", x)) <=> None(requests, Asks("connect", x))
      /\ \A x : AtMostOne(requests, Asks("connect", x))
           => AtMostOne(requests', Asks("connect", x))
      /\ \A k, x : x # sessions =>
           (None(requests', Asks(k, x)) <=> None(requests, Asks(k, x)))
      /\ \A x : ~None(requests, Asks("close", x)) => ~None(requests', Asks("close", x))
      /\ Open(c) => ~None(requests', Asks("close", sessions))
      /\ None(requests', AskedEarlier(sessions)) <=> None(requests, AskedEarlier(sessions))
      /\ NoneAfter(requests, Asks("connect", sessions), AskedEarlier(sessions))
           => NoneAfter(requests', Asks("connect", sessions), AskedEarlier(sessions))
  BY ClosingAsks
<1>3. \A x \in Sessions : (Wanted(x)' <=> Wanted(x)) /\ (Answered(x)' => Answered(x))
  BY <1>2 DEF Wanted, Answered, NoMoreTold
<1>4. SocketInv(c)'
  BY <1>1 DEF SocketInv
<1>5. ToCome'
  <2> SUFFICES ASSUME NEW x \in Sessions, x > sessions PROVE Unborn(x)'
    BY DEF ToCome
  <2>1. Unborn(x) /\ x # sessions
    BY DEF ConnectInv, ToCome, Types, Sessions
  <2>2. QED
    BY <1>2, <2>1 DEF Unborn, NoMoreTold
<1>6. WantedInv(c)'
  <2> SUFFICES ASSUME NEW x \in Sessions
      PROVE /\ Wanted(x)' \/ Answered(x)' => x = sessions /\ calling' = c
            /\ Wanted(x)' => ~Answered(x)'
            /\ Wanted(x)' => cl'[c].socket = NoSocket /\ ~network.up
            /\ fw[x].state = "connecting" => None(requests', Asks("connect", x))
            /\ AtMostOne(requests', Asks("connect", x)) /\ AtMostOne(replies', Answers(x))
    BY DEF WantedInv
  <2>1. /\ Wanted(x) \/ Answered(x) => x = sessions /\ calling = c
        /\ Wanted(x) => ~Answered(x)
        /\ fw[x].state = "connecting" => None(requests, Asks("connect", x))
        /\ AtMostOne(requests, Asks("connect", x)) /\ AtMostOne(replies, Answers(x))
    BY DEF ConnectInv, WantedInv
  <2>2. AtMostOne(requests', Asks("connect", x)) /\ AtMostOne(replies', Answers(x))
    BY <1>2, <2>1 DEF NoMoreTold
  <2>3. QED
    BY <1>2, <1>3, <2>1, <2>2 DEF Answered
<1>7. AnswerInv(c)'
  <2>1. None(replies', Connecteds)
    BY NoneAnswered DEF NoMoreTold
  <2>2. QED
    BY <2>1 DEF ConnectInv, AnswerInv, NoMoreTold
<1>8. CurrentInv(c)'
  BY <1>1 DEF CurrentInv
<1>9. EarlierInv(c)'
  <2>1. ASSUME NEW x \in Sessions, fw[x].state = "open"
        PROVE  ~None(requests', Asks("close", x))
    <3>1. CASE x < sessions \/ ~Open(c)
      BY <1>2, <2>1, <3>1 DEF EarlierInv
    <3>2. CASE x = sessions /\ Open(c)
      BY <1>2, <3>2
    <3>3. x > sessions => FALSE
      BY <2>1 DEF ConnectInv, ToCome, Unborn, NoConnection
    <3>4. QED
      BY <3>1, <3>2, <3>3 DEF Types, Sessions
  <2>2. QED
    BY <1>2, <2>1 DEF EarlierInv, NoMoreTold
<1>10. RecvInv(c)'
  BY <1>1 DEF RecvInv
<1>11. QED
  BY <1>4, <1>5, <1>6, <1>7, <1>8, <1>9, <1>10 DEF ConnectInv

----------------------------------------------------------------------------
(* Receiving *)

\* recv() of the socket of the client, when it asks the firmware (asks), and
\* when one is under way or nothing is used (~asks).
LEMMA RecvingAsks ==
    ASSUME NEW c, Clients = {c}, Types, SocketInv(c), NEW asks, asks => Open(c),
           requests' = IF asks THEN Append(requests, Ask("recv", cl[c].socket, sessions))
                               ELSE requests
    PROVE  /\ requests' \in Seq(Requests)
           /\ \A k, x : k # "recv" \/ x # sessions =>
                (None(requests', Asks(k, x)) <=> None(requests, Asks(k, x)))
           /\ \A x : AtMostOne(requests, Asks("connect", x))
                => AtMostOne(requests', Asks("connect", x))
           /\ None(requests', Asks("recv", sessions))
                <=> None(requests, Asks("recv", sessions)) /\ ~asks
           /\ AtMostOne(requests, Asks("recv", sessions))
                /\ (~asks \/ None(requests, Asks("recv", sessions)))
                => AtMostOne(requests', Asks("recv", sessions))
           /\ None(requests', AskedEarlier(sessions)) <=> None(requests, AskedEarlier(sessions))
           /\ None(requests', AsksElsewhere(sessions, cl[c].socket))
                <=> None(requests, AsksElsewhere(sessions, cl[c].socket))
           /\ NoneAfter(requests, Asks("connect", sessions), AskedEarlier(sessions))
                => NoneAfter(requests', Asks("connect", sessions), AskedEarlier(sessions))
<1>1. CASE asks
  <2>1. cl[c].socket \in Sockets /\ sessions \in Sessions /\ ~(sessions < sessions)
    BY <1>1 DEF Open, SocketInv, Types, Sessions
  <2>2. MoreAsked("recv", cl[c].socket, sessions)
    BY <1>1, <2>1, AskIn, Asked DEF Types
  <2>3. QED
    BY <1>1, <2>1, <2>2 DEF MoreAsked
<1>2. CASE ~asks
  BY <1>2 DEF Types
<1>3. QED
  BY <1>1, <1>2

LEMMA RecvingKeeps ==
    ASSUME NEW c, Clients = {c}, Base(c), NoMoreTold, NEW asks, asks => Open(c),
           requests' = IF asks THEN Append(requests, Ask("recv", cl[c].socket, sessions))
                               ELSE requests,
           cl'[c].socket = cl[c].socket, Open(c)' = Open(c),
           UNCHANGED <<sessions, fw, network, calling>>,
           \/ cl'[c].connected = cl[c].connected
           \/ /\ cl'[c].connected /\ fw[sessions].opened /\ None(replies', Earlier(sessions))
              /\ \A x \in Sessions : ~Wanted(x) /\ None(replies', Answers(x))
    PROVE  ConnectInv(c)' /\ EarlierInv(c)'
<1> USE DEF Base
<1>1. /\ \A k, x : k # "recv" \/ x # sessions =>
           (None(requests', Asks(k, x)) <=> None(requests, Asks(k, x)))
      /\ \A x : AtMostOne(requests, Asks("connect", x))
           => AtMostOne(requests', Asks("connect", x))
      /\ None(requests', AskedEarlier(sessions)) <=> None(requests, AskedEarlier(sessions))
      /\ None(requests', AsksElsewhere(sessions, cl[c].socket))
           <=> None(requests, AsksElsewhere(sessions, cl[c].socket))
      /\ NoneAfter(requests, Asks("connect", sessions), AskedEarlier(sessions))
           => NoneAfter(requests', Asks("connect", sessions), AskedEarlier(sessions))
  BY RecvingAsks
<1>2. \A x : /\ None(requests', Asks("connect", x)) <=> None(requests, Asks("connect", x))
             /\ None(requests', Asks("close", x)) <=> None(requests, Asks("close", x))
  BY <1>1
<1>3. \A x \in Sessions : (Wanted(x)' <=> Wanted(x)) /\ (Answered(x)' => Answered(x))
  BY <1>2 DEF Wanted, Answered, NoMoreTold
<1>4. ToCome'
  <2> SUFFICES ASSUME NEW x \in Sessions, x > sessions PROVE Unborn(x)'
    BY DEF ToCome
  <2>1. Unborn(x) /\ x # sessions
    BY DEF ConnectInv, ToCome, Types, Sessions
  <2>2. QED
    BY <1>1, <2>1 DEF Unborn, NoMoreTold
<1>5. WantedInv(c)'
  <2> SUFFICES ASSUME NEW x \in Sessions
      PROVE /\ Wanted(x)' \/ Answered(x)' =>
                 x = sessions /\ calling = c /\ ~cl'[c].connected
            /\ Wanted(x)' => ~Answered(x)'
            /\ Wanted(x)' => Open(c)' \/ (cl'[c].socket = NoSocket /\ ~network.up)
            /\ fw[x].state = "connecting" => None(requests', Asks("connect", x))
            /\ AtMostOne(requests', Asks("connect", x)) /\ AtMostOne(replies', Answers(x))
    BY DEF WantedInv
  <2>1. /\ Wanted(x) \/ Answered(x) => x = sessions /\ calling = c /\ ~cl[c].connected
        /\ Wanted(x) => ~Answered(x)
        /\ Wanted(x) => Open(c) \/ (cl[c].socket = NoSocket /\ ~network.up)
        /\ fw[x].state = "connecting" => None(requests, Asks("connect", x))
        /\ AtMostOne(requests, Asks("connect", x)) /\ AtMostOne(replies, Answers(x))
    BY DEF ConnectInv, WantedInv
  <2>2. AtMostOne(requests', Asks("connect", x)) /\ AtMostOne(replies', Answers(x))
    BY <1>1, <2>1 DEF NoMoreTold
  <2>3. QED
    BY <1>2, <1>3, <2>1, <2>2 DEF Answered
<1>6. AnswerInv(c)'
  BY DEF ConnectInv, AnswerInv, NoMoreTold
<1>7. CurrentInv(c)'
  <2>1. Open(c)' => /\ None(requests', AsksElsewhere(sessions, cl[c].socket))
                    /\ fw[sessions].state # "none" => fw[sessions].sock = cl[c].socket
                    /\ None(replies', Elsewhere(sessions, cl[c].socket))
                    /\ None(requests', Asks("close", sessions))
    BY <1>1, <1>2 DEF ConnectInv, CurrentInv, NoMoreTold
  <2>2. cl'[c].connected => fw[sessions].opened
    BY DEF ConnectInv, CurrentInv
  <2>3. QED
    BY <2>1, <2>2 DEF CurrentInv
<1>8. EarlierInv(c)'
  <2>1. cl'[c].connected => None(replies', Earlier(sessions))
    BY DEF EarlierInv, NoMoreTold
  <2>2. QED
    BY <1>1, <1>2, <2>1 DEF EarlierInv, NoMoreTold
<1>9. QED
  BY <1>4, <1>5, <1>6, <1>7, <1>8 DEF ConnectInv

----------------------------------------------------------------------------
(* The calls of the sketch *)

LEMMA NoSocketFreeNever ==
    ASSUME NEW c, Clients = {c}, Types, SocketInv(c), NoSocketFree(c), ~connected(c)
    PROVE  FALSE
  BY NoneUsed, Ranges DEF NoSocketFree

LEMMA ConnectReturnsKeeps ==
    ASSUME NEW c, Clients = {c}, Base(c), ConnectReturns
    PROVE  Base(c)'
<1> USE DEF Base
<1>1. /\ calling = c /\ cl[c].connected /\ Open(c) /\ calling' = NoClient
      /\ holders' = [holders EXCEPT ![cl[c].socket] = c]
      /\ UNCHANGED <<cl, sk, reg, nextTcp, sessions, xfer, requests, replies, fw,
                     network, got>>
  BY DEF ConnectReturns, Held, Types, SocketInv
<1>2. cl[c].socket \in Sockets /\ holders'[cl[c].socket] = c
  BY <1>1 DEF Open, Types
<1>3. Open(c)' = Open(c) /\ Place(c)' = Place(c)
  BY <1>1 DEF Open, Place
<1>4. Types'
  BY <1>1, <1>2 DEF Types
<1>5. SocketInv(c)'
  BY <1>1, <1>2, <1>3 DEF SocketInv
<1>6. \A x \in Sessions : ~Wanted(x) /\ ~Answered(x)
  BY <1>1 DEF ConnectInv, WantedInv
<1>7. \A x \in Sessions : Wanted(x)' = Wanted(x) /\ Answered(x)' = Answered(x)
  BY <1>1 DEF Wanted, Answered
<1>8. WantedInv(c)'
  BY <1>1, <1>6, <1>7 DEF ConnectInv, WantedInv
<1>9. ToCome' /\ AnswerInv(c)' /\ CurrentInv(c)' /\ EarlierInv(c)'
  BY <1>1, <1>3 DEF ConnectInv, ToCome, Unborn, AnswerInv, CurrentInv, EarlierInv
<1>10. RecvInv(c)'
  BY <1>1, <1>3 DEF RecvInv
<1>11. QED
  BY <1>4, <1>5, <1>8, <1>9, <1>10 DEF ConnectInv

\* A client that waits is not full, and no transfer is paused.
LEMMA TimeoutDone ==
    ASSUME NEW c, Clients = {c}, Base(c), ConnectTimeout, ~SlowConnect
    PROVE  /\ calling = c /\ ~cl[c].connected
           /\ replies = <<>> /\ xfer = NoXfer
           /\ \A x \in Sessions : ~Wanted(x)
<1> USE DEF Base
<1>1. calling = c /\ ~cl[c].connected
  BY DEF ConnectTimeout, Types
<1>2. PumpOpen /\ xfer = NoXfer
  BY <1>1 DEF PumpOpen, SocketInv, Types
<1>3. replies = <<>> /\ \/ /\ cl[c].socket = NoSocket /\ requests = <<>>
                           /\ \A x \in Sessions : fw[x].state # "connecting"
                        \/ cl[c].socket # NoSocket /\ ~sk[cl[c].socket].used
  BY <1>1, <1>2 DEF ConnectTimeout, TimedOut, PumpStuck
<1>4. \A x \in Sessions : ~Wanted(x)
  <2>1. CASE requests = <<>> /\ \A x \in Sessions : fw[x].state # "connecting"
    BY <2>1, NoneEmpty DEF Wanted
  <2>2. CASE cl[c].socket # NoSocket /\ ~sk[cl[c].socket].used
    BY <2>2 DEF ConnectInv, WantedInv, Open
  <2>3. QED
    BY <1>3, <2>1, <2>2
<1>5. QED
  BY <1>1, <1>2, <1>3, <1>4

\* close() of the socket of the client, or of -1.
LEMMA CloseOwn ==
    ASSUME NEW c, Clients = {c}, Types, SocketInv(c)
    PROVE  /\ requests \o CloseRequests({cl[c].socket})
                = IF Open(c) THEN Append(requests, Ask("close", cl[c].socket, sessions))
                             ELSE requests
           /\ \A s \in Sockets : ClosedAll({cl[c].socket})[s] = ClosedSocket
           /\ ClosedAll({cl[c].socket}) \in [Sockets -> Entry]
<1>1. cl[c].socket \in Sockets \union {NoSocket} /\ sessions \in Nat
  BY DEF Types, Client
<1>2. \A t \in Sockets : sk[t].used => sk[t].session = sessions /\ sessions \in Sessions
  BY DEF SocketInv, Types, Sessions
<1>3. requests \o CloseRequests({cl[c].socket})
        = IF Open(c) THEN Append(requests, Ask("close", cl[c].socket, sessions))
                     ELSE requests
  BY <1>1, <1>2, CloseAllAsks DEF Types, Open
<1>4. \A s \in Sockets : ClosedAll({cl[c].socket})[s] = ClosedSocket
  BY DEF ClosedAll, Closed, SocketInv
<1>5. ClosedAll({cl[c].socket}) \in [Sockets -> Entry]
  BY <1>4, EntryTypes DEF ClosedAll
<1>6. QED
  BY <1>3, <1>4, <1>5

LEMMA ConnectTimeoutKeeps ==
    ASSUME NEW c, Clients = {c}, Base(c), ConnectTimeout, ~SlowConnect
    PROVE  Base(c)'
<1> USE DEF Base
<1>1. /\ calling = c /\ ~cl[c].connected
      /\ replies = <<>> /\ xfer = NoXfer
      /\ \A x \in Sessions : ~Wanted(x)
  BY TimeoutDone
<1>2. /\ requests' = requests \o CloseRequests({cl[c].socket})
      /\ sk' = ClosedAll({cl[c].socket})
      /\ cl' = [cl EXCEPT ![c].socket = NoSocket] /\ calling' = NoClient
      /\ UNCHANGED <<reg, holders, nextTcp, sessions, xfer, replies, fw, network, got>>
  BY <1>1 DEF ConnectTimeout
<1>3. /\ requests' = IF Open(c) THEN Append(requests, Ask("close", cl[c].socket, sessions))
                                ELSE requests
      /\ \A s \in Sockets : sk'[s] = ClosedSocket
      /\ sk' \in [Sockets -> Entry]
  BY <1>2, CloseOwn
<1>4. /\ cl' \in [Clients -> Client] /\ cl'[c].socket = NoSocket
      /\ ~cl'[c].connected /\ ~cl'[c].full
      /\ cl'[c].head = cl[c].head /\ cl'[c].tail = cl[c].tail
  <2>1. ~cl[c].full /\ cl \in [Clients -> Client]
    BY <1>1 DEF SocketInv, Types
  <2>2. QED
    BY <1>1, <1>2, <2>1 DEF Client
<1>5. requests' \in Seq(Requests)
  BY <1>3, ClosingAsks
<1>6. Types'
  BY <1>2, <1>3, <1>4, <1>5 DEF Types
<1>7. NoMoreTold
  BY <1>2, FewerIsNoMore DEF Types
<1>8. \A x \in Sessions : None(replies', Answers(x))
  BY <1>1, <1>2, NoneEmpty
<1>9. QED
  BY <1>1, <1>2, <1>3, <1>4, <1>6, <1>7, <1>8, ClosingKeeps
\* stop() of the client.
LEMMA StopsOwn ==
    ASSUME NEW c, Clients = {c}, Types, SocketInv(c), Stopped({c})
    PROVE  /\ requests' = IF Open(c) THEN Append(requests, Ask("close", cl[c].socket, sessions))
                                     ELSE requests
           /\ requests' \in Seq(Requests)
           /\ \A s \in Sockets : sk'[s] = ClosedSocket
           /\ sk' \in [Sockets -> Entry]
           /\ reg' \in [Sockets -> Clients \union {NoClient}]
           /\ cl' \in [Clients -> Client] /\ cl'[c].socket = NoSocket
           /\ ~cl'[c].connected /\ ~cl'[c].full /\ cl'[c].data = cl[c].data
           /\ cl'[c].head = cl[c].head /\ cl'[c].tail = cl[c].tail
<1>1. {cl[x].socket : x \in {c}} = {cl[c].socket}
  OBVIOUS
<1>2. /\ requests' = requests \o CloseRequests({cl[c].socket})
      /\ sk' = ClosedAll({cl[c].socket})
      /\ reg' = [s \in Sockets |-> IF s \in {cl[c].socket} THEN NoClient ELSE reg[s]]
      /\ cl' = [x \in Clients |-> [cl[x] EXCEPT !.socket = NoSocket, !.connected = FALSE,
                                                !.full = FALSE]]
  BY <1>1 DEF Stopped
<1>3. /\ requests' = IF Open(c) THEN Append(requests, Ask("close", cl[c].socket, sessions))
                                ELSE requests
      /\ \A s \in Sockets : sk'[s] = ClosedSocket
      /\ sk' \in [Sockets -> Entry]
  BY <1>2, CloseOwn
<1>4. requests' \in Seq(Requests)
  BY <1>3, ClosingAsks
<1>5. reg' \in [Sockets -> Clients \union {NoClient}]
  BY <1>2 DEF Types
<1>6. cl \in [Clients -> Client] /\ c \in Clients
  BY DEF Types
<1>7. /\ cl' \in [Clients -> Client] /\ cl'[c].socket = NoSocket
      /\ ~cl'[c].connected /\ ~cl'[c].full /\ cl'[c].data = cl[c].data
      /\ cl'[c].head = cl[c].head /\ cl'[c].tail = cl[c].tail
  <2> DEFINE stopped == [cl[c] EXCEPT !.socket = NoSocket, !.connected = FALSE,
                                      !.full = FALSE]
  <2>1. /\ stopped \in Client /\ stopped.socket = NoSocket
        /\ ~stopped.connected /\ ~stopped.full /\ stopped.data = cl[c].data
        /\ stopped.head = cl[c].head /\ stopped.tail = cl[c].tail
    BY <1>6 DEF Client
  <2>2. cl' = [x \in Clients |-> stopped]
    BY <1>2
  <2> HIDE DEF stopped
  <2>3. QED
    BY <1>6, <2>1, <2>2
<1>8. QED
  BY <1>3, <1>4, <1>5, <1>7

\* Clients that are stopped have been flushed, unless no reply is larger than
\* what recv() asks for: no transfer is paused.
LEMMA StopKeeps ==
    ASSUME NEW c, Clients = {c}, Base(c), FlushFirst \/ Whole,
           FlushFirst => Flushed(c), Stop(c)
    PROVE  Base(c)'
<1> USE DEF Base
<1>1. /\ calling = NoClient /\ cl[c].socket # NoSocket /\ Stopped({c})
      /\ UNCHANGED <<holders, nextTcp, sessions, xfer, calling, replies, fw, network, got>>
  BY DEF Stop
<1>2. xfer = NoXfer
  <2>1. CASE Whole
    BY <2>1 DEF SocketInv, Whole
  <2>2. CASE FlushFirst
    <3>1. Flushed(c) /\ cl \in [Clients -> Client]
      BY <2>2 DEF Types
    <3>2. cl[c].head = cl[c].tail \/ cl[c].head < cl[c].tail
      BY <1>1, <3>1, Ranges DEF Flushed, available, Client
    <3>3. ~cl[c].full
      BY <3>1, <3>2, Ranges DEF SocketInv, Client
    <3>4. PumpOpen
      BY <3>3 DEF PumpOpen, Types
    <3>5. QED
      BY <3>1, <3>4 DEF Flushed, SocketInv
  <2>3. QED
    BY <2>1, <2>2
<1>3. /\ requests' = IF Open(c) THEN Append(requests, Ask("close", cl[c].socket, sessions))
                                ELSE requests
      /\ requests' \in Seq(Requests)
      /\ \A s \in Sockets : sk'[s] = ClosedSocket
      /\ sk' \in [Sockets -> Entry]
      /\ reg' \in [Sockets -> Clients \union {NoClient}]
      /\ cl' \in [Clients -> Client]
      /\ ~cl'[c].connected /\ ~cl'[c].full
      /\ cl'[c].head = cl[c].head /\ cl'[c].tail = cl[c].tail
  BY <1>1, StopsOwn
<1>4. Types'
  BY <1>1, <1>3 DEF Types
<1>5. NoMoreTold
  BY <1>1, FewerIsNoMore DEF Types
<1>6. calling # c
  BY <1>1 DEF Types
<1>7. \A x \in Sessions : ~Wanted(x) /\ ~Answered(x)
  BY <1>6 DEF ConnectInv, WantedInv
<1>8. \A x \in Sessions : None(replies', Answers(x))
  BY <1>1, <1>7 DEF Answered
<1>9. QED
  BY <1>1, <1>2, <1>3, <1>4, <1>5, <1>7, <1>8, ClosingKeeps

\* What read() leaves in the buffer.
LEMMA ConsumedHas ==
    ASSUME NEW c, cl[c] \in Client, available(c) > 0, cl[c].socket # NoSocket
    PROVE  /\ Consumed(c) \in Client
           /\ Consumed(c).socket = cl[c].socket /\ Consumed(c).connected = cl[c].connected
           /\ Consumed(c).data = cl[c].data
           /\ cl[c].tail + 1 = cl[c].head =>
                Consumed(c).head = 0 /\ Consumed(c).tail = 0 /\ ~Consumed(c).full
           /\ cl[c].tail + 1 # cl[c].head =>
                /\ Consumed(c).head = cl[c].head /\ Consumed(c).tail = cl[c].tail + 1
                /\ Consumed(c).tail < Consumed(c).head
                /\ Consumed(c).full = cl[c].full
           /\ cl[c].tail < cl[c].head /\ cl[c].tail \in Places
           /\ cl[c].data[cl[c].tail] \in Bytes \union {NoByte}
<1>1. cl[c].tail < cl[c].head /\ cl[c].head \in 0 .. TCP_SIZE /\ cl[c].tail \in 0 .. TCP_SIZE
  BY Ranges DEF available, Client
<1>2. cl[c].tail \in Places /\ cl[c].tail + 1 \in 0 .. TCP_SIZE
  BY <1>1 DEF Places
<1>3. cl[c].data[cl[c].tail] \in Bytes \union {NoByte}
  BY <1>2 DEF Client
<1>4. CASE cl[c].tail + 1 = cl[c].head
  <2>1. Consumed(c) = [cl[c] EXCEPT !.tail = 0, !.head = 0, !.full = FALSE]
    BY <1>4 DEF Consumed
  <2>2. QED
    BY <1>1, <1>2, <1>3, <1>4, <2>1, Ranges DEF Client
<1>5. CASE cl[c].tail + 1 # cl[c].head
  <2>1. Consumed(c) = [cl[c] EXCEPT !.tail = cl[c].tail + 1]
    BY <1>5 DEF Consumed
  <2>2. cl[c].tail + 1 < cl[c].head
    BY <1>1, <1>5
  <2>3. QED
    BY <1>1, <1>2, <1>3, <1>5, <2>1, <2>2 DEF Client
<1>6. QED
  BY <1>4, <1>5
\* recv() of the socket of the client, into the client from a place on.
Asking(c, off) == [Place(c) EXCEPT !.buf = c, !.off = off, !.pending = TRUE]

LEMMA AskingHas ==
    ASSUME NEW c \in Clients, sk \in [Sockets -> Entry], Open(c), NEW off \in 0 .. TCP_SIZE
    PROVE  /\ Asking(c, off) \in Entry
           /\ Asking(c, off).used /\ Asking(c, off).session = Place(c).session
           /\ Asking(c, off).buf = c /\ Asking(c, off).off = off
           /\ Asking(c, off).pending
<1>1. Place(c) \in Entry /\ Place(c).used
  BY DEF Open, Place
<1>2. \A so \in Entry :
        LET asked == [so EXCEPT !.buf = c, !.off = off, !.pending = TRUE] IN
            /\ asked \in Entry
            /\ asked.used = so.used /\ asked.session = so.session
            /\ asked.buf = c /\ asked.off = off /\ asked.pending
  BY DEF Entry
<1>3. QED
  BY <1>1, <1>2 DEF Asking

\* read() of one byte, of a client whose socket may have been closed under it.
LEMMA ReadDoes ==
    ASSUME NEW c, Clients = {c}, Types, SocketInv(c), Read(c)
    PROVE  LET drained == cl[c].tail + 1 = cl[c].head
               asks    == drained /\ Open(c) /\ ~Place(c).pending
           IN  /\ requests' = IF asks THEN Append(requests, Ask("recv", cl[c].socket, sessions))
                                      ELSE requests
               /\ sk' = IF drained /\ Open(c)
                        THEN [sk EXCEPT ![cl[c].socket] = Asking(c, 0)] ELSE sk
               /\ cl' = [cl EXCEPT ![c] = Consumed(c)]
               /\ got' = [got EXCEPT ![c] = Append(@, cl[c].data[cl[c].tail])]
               /\ Open(c) => cl[c].connected
               /\ cl[c].socket \in Sockets
<1>1. cl[c] \in Client /\ cl[c].socket # NoSocket /\ cl[c].socket \in Sockets
  BY Ranges DEF Read, available, Types, Client
<1>2. cl[c].tail < cl[c].head /\ cl[c].tail \in Nat
  BY <1>1, ConsumedHas, Ranges DEF Read, Places
<1>3. Open(c) => cl[c].connected
  BY <1>2 DEF SocketInv
<1> DEFINE s == cl[c].socket
<1>4. CASE cl[c].tail + 1 = cl[c].head
  <2>1. /\ requests' = requests \o RecvRequest(s, sk[s])
        /\ sk' = [sk EXCEPT ![s] = AfterRecv(sk[s], c, 0)]
    BY <1>4 DEF Read
  <2>2. sk[s] \in Entry /\ (sk[s].used => sk[s].session = sessions /\ sessions \in Sessions)
    BY <1>1 DEF Types, SocketInv, Sessions
  <2>3. requests' = IF sk[s].used /\ ~sk[s].pending
                    THEN Append(requests, Ask("recv", s, sessions)) ELSE requests
    BY <1>1, <2>1, <2>2, RecvAsks DEF Types
  <2>4. sk' = IF sk[s].used THEN [sk EXCEPT ![s] = Asking(c, 0)] ELSE sk
    BY <1>1, <2>1 DEF AfterRecv, Asking, Place, Types
  <2>5. QED
    BY <1>1, <1>3, <1>4, <2>3, <2>4 DEF Open, Place, Read
<1>5. CASE cl[c].tail + 1 # cl[c].head
  BY <1>1, <1>3, <1>5 DEF Read
<1>6. QED
  BY <1>4, <1>5

LEMMA ReadKeeps ==
    ASSUME NEW c, Clients = {c}, Base(c), Read(c)
    PROVE  Base(c)'
<1> USE DEF Base
<1> DEFINE drained == cl[c].tail + 1 = cl[c].head
           asks    == drained /\ Open(c) /\ ~Place(c).pending
           s       == cl[c].socket
<1>1. /\ requests' = IF asks THEN Append(requests, Ask("recv", s, sessions)) ELSE requests
      /\ sk' = IF drained /\ Open(c) THEN [sk EXCEPT ![s] = Asking(c, 0)] ELSE sk
      /\ cl' = [cl EXCEPT ![c] = Consumed(c)]
      /\ got' = [got EXCEPT ![c] = Append(@, cl[c].data[cl[c].tail])]
      /\ Open(c) => cl[c].connected
      /\ s \in Sockets
  BY ReadDoes
<1>2. /\ available(c) > 0 /\ s # NoSocket /\ cl[c] \in Client
      /\ UNCHANGED <<reg, holders, nextTcp, sessions, xfer, calling, replies, fw, network>>
  BY <1>1, Ranges DEF Read, Types
<1>3. /\ cl'[c] = Consumed(c) /\ Consumed(c) \in Client
      /\ cl'[c].socket = s /\ cl'[c].connected = cl[c].connected
      /\ drained => cl'[c].head = 0 /\ cl'[c].tail = 0 /\ ~cl'[c].full
      /\ ~drained => /\ cl'[c].tail < cl'[c].head /\ cl'[c].full = cl[c].full
      /\ cl[c].data[cl[c].tail] \in Bytes \union {NoByte}
  BY <1>1, <1>2, ConsumedHas DEF Types
<1>4. Open(c) => /\ Asking(c, 0) \in Entry
                 /\ Asking(c, 0).used /\ Asking(c, 0).session = Place(c).session
                 /\ Asking(c, 0).buf = c /\ Asking(c, 0).pending
  BY AskingHas, Ranges DEF Types
<1> HIDE DEF drained
<1>5. /\ \A t \in Sockets : /\ sk'[t].used = sk[t].used /\ sk'[t].session = sk[t].session
                            /\ ~sk[t].used => sk'[t] = sk[t]
      /\ sk' \in [Sockets -> Entry]
      /\ Open(c) => Place(c).buf = c
  BY <1>1, <1>4 DEF Place, Open, Types, SocketInv
<1>6. /\ Open(c)' = Open(c)
      /\ Open(c) => /\ Place(c)'.buf = c
                    /\ drained => Place(c)'.pending
                    /\ ~drained => Place(c)'.pending = Place(c).pending
  BY <1>1, <1>3, <1>4, <1>5 DEF Open, Place, Types
<1>7. Types'
  <2>1. got' \in [Clients -> Seq(Bytes \union {NoByte})]
    BY <1>1, <1>3, AppendProperties DEF Types
  <2>2. cl' \in [Clients -> Client]
    BY <1>1, <1>3 DEF Types
  <2>3. requests' \in Seq(Requests)
    BY <1>1, RecvingAsks
  <2>4. QED
    BY <1>2, <1>5, <2>1, <2>2, <2>3 DEF Types
<1>8. SocketInv(c)'
  BY <1>1, <1>2, <1>3, <1>5, <1>6 DEF SocketInv
<1>9. NoMoreTold
  BY <1>2, FewerIsNoMore DEF Types
<1>10. ConnectInv(c)' /\ EarlierInv(c)'
  BY <1>1, <1>2, <1>3, <1>6, <1>9, RecvingKeeps
<1>11. RecvInv(c)'
  <2>1. /\ None(requests', Asks("recv", sessions))
             <=> None(requests, Asks("recv", sessions)) /\ ~asks
        /\ AtMostOne(requests, Asks("recv", sessions))
             /\ (~asks \/ None(requests, Asks("recv", sessions)))
             => AtMostOne(requests', Asks("recv", sessions))
    BY <1>1, RecvingAsks
  <2>2. QED
    BY <1>1, <1>2, <1>3, <1>6, <2>1 DEF RecvInv
<1>12. QED
  BY <1>7, <1>8, <1>10, <1>11

----------------------------------------------------------------------------
(* Handling *)

\* What is at hand when a reply is handled.
LEMMA PumpHas ==
    ASSUME NEW c, Clients = {c}, Base(c), Pump
    PROVE  \E e \in Messages :
             /\ e = Head(replies) /\ FewerTold(e) /\ NoMoreTold
             /\ xfer = NoXfer /\ (Open(c) => ~cl[c].full)
             /\ UNCHANGED <<holders, nextTcp, sessions, calling, fw, network, got>>
             /\ \/ e.kind = "connected" /\ OnConnected(e.sock) /\ UNCHANGED reg
                \/ e.kind = "refused"   /\ OnConnectFailed(e.sock) /\ UNCHANGED reg
                \/ e.kind = "received"  /\ OnReceived(e) /\ UNCHANGED reg
                \/ e.kind = "disconnected" /\ OnDisconnected
<1> USE DEF Base
<1>1. PICK e \in Messages : e = Head(replies) /\ FewerTold(e)
  BY Handled DEF Pump, Types
<1>2. NoMoreTold
  BY <1>1, FewerIsNoMore
<1>3. Open(c) => ~cl[c].full
  BY DEF Pump, PumpOpen, SocketInv, Open
<1>4. QED
  BY <1>1, <1>2, <1>3 DEF Pump

\* The answer to a connect request finds its client waiting, and says that the
\* firmware is done with it.
LEMMA AnswerHas ==
    ASSUME NEW c, Clients = {c}, Base(c), NEW e \in Messages, FewerTold(e),
           e.kind = "connected" \/ e.kind = "refused"
    PROVE  /\ e.session = sessions /\ calling = c /\ ~cl[c].connected
           /\ e.sock \in Sockets
           /\ Open(c) => e.sock = cl[c].socket
           /\ \A x \in Sessions : ~Wanted(x) /\ None(replies', Answers(x))
<1>0. \A z : /\ None(replies, Answers(z)) => None(replies', Answers(z))
             /\ AtMostOne(replies, Answers(z)) /\ InAnswers(e, z) => None(replies', Answers(z))
  BY DEF FewerTold
<1> USE DEF Base
<1>1. e.session \in Sessions /\ e.sock \in Sockets
  BY DEF Messages
<1>2. Answered(e.session)
  BY <1>1 DEF FewerTold, InAnswers, Answered
<1>3. e.session = sessions /\ calling = c /\ ~cl[c].connected
  BY <1>1, <1>2 DEF ConnectInv, WantedInv
<1>4. Open(c) => e.sock = cl[c].socket
  BY <1>3 DEF ConnectInv, CurrentInv, FewerTold, InElsewhere, InAbout
<1>5. ASSUME NEW x \in Sessions PROVE ~Wanted(x) /\ None(replies', Answers(x))
  <2>1. ~Wanted(x)
    BY <1>1, <1>2, <1>3 DEF ConnectInv, WantedInv
  <2>2. CASE x = sessions
    <3>1. AtMostOne(replies, Answers(x)) /\ InAnswers(e, x)
      BY <1>3, <2>2 DEF ConnectInv, WantedInv, InAnswers
    <3>2. QED
      BY <1>0, <2>1, <3>1
  <2>3. CASE x # sessions
    <3>1. None(replies, Answers(x))
      BY <2>3 DEF ConnectInv, WantedInv, Answered
    <3>2. QED
      BY <1>0, <2>1, <3>1
  <2>4. QED
    BY <2>1, <2>2, <2>3
<1>6. QED
  BY <1>1, <1>3, <1>4, <1>5

LEMMA ConnectedKeeps ==
    ASSUME NEW c, Clients = {c}, Base(c), NEW e \in Messages, FewerTold(e), NoMoreTold,
           e.kind = "connected", OnConnected(e.sock), xfer = NoXfer,
           UNCHANGED <<reg, holders, nextTcp, sessions, calling, fw, network, got>>
    PROVE  Base(c)'
<1> USE DEF Base
<1> DEFINE s == cl[c].socket
<1>1. /\ e.session = sessions /\ calling = c /\ ~cl[c].connected
      /\ \A x \in Sessions : ~Wanted(x) /\ None(replies', Answers(x))
  BY AnswerHas
<1>2. /\ Open(c) /\ fw[sessions].opened /\ fw[sessions].state \in {"open", "lost"}
      /\ None(replies', Earlier(sessions))
  <2>1. /\ ~None(replies, Connecteds)
        /\ \A z : NoneAfter(replies, Connecteds, Earlier(z)) => None(replies', Earlier(z))
    BY DEF FewerTold
  <2>2. QED
    BY <2>1 DEF ConnectInv, AnswerInv, EarlierInv
<1>3. e.sock = s /\ s \in Sockets /\ reg[s] = c /\ sk[s].used /\ sk[s].session = sessions
      /\ ~sk[s].pending /\ cl[c].head = 0 /\ cl[c].tail = 0 /\ ~cl[c].full
  <2>1. e.sock = s /\ s \in Sockets /\ sk[s].used
    BY <1>2, AnswerHas DEF Open
  <2>2. cl[c] \in Client
    BY DEF Types
  <2>3. /\ reg[s] = c /\ sk[s].session = sessions
        /\ ~sk[s].pending /\ cl[c].head = 0 /\ ~cl[c].full
    BY <1>1, <1>2, <2>1 DEF Place, SocketInv
  <2>4. cl[c].tail = 0
    BY <2>2, <2>3, Ranges DEF SocketInv, Client
  <2>5. QED
    BY <2>1, <2>3, <2>4
<1>4. sessions \in Sessions /\ sk[s] \in Entry
  BY <1>3 DEF SocketInv, Types, Sessions
<1>5. requests' = Append(requests, Ask("recv", s, sessions))
  BY <1>3, <1>4, RecvAsks DEF OnConnected, Types
<1>6. sk' = [sk EXCEPT ![s] = Asking(c, 0)]
  BY <1>3 DEF OnConnected, AfterRecv, Asking, Place, Types
<1>7. cl' = [cl EXCEPT ![c].connected = TRUE]
  BY <1>3 DEF OnConnected
<1>8. /\ cl' \in [Clients -> Client] /\ cl'[c].socket = s /\ cl'[c].connected
      /\ cl'[c].head = 0 /\ cl'[c].tail = 0 /\ ~cl'[c].full
  <2>1. cl \in [Clients -> Client]
    BY DEF Types
  <2>2. QED
    BY <1>3, <1>7, <2>1 DEF Client
<1>9. /\ Asking(c, 0) \in Entry
      /\ Asking(c, 0).used /\ Asking(c, 0).session = sessions
      /\ Asking(c, 0).buf = c /\ Asking(c, 0).pending
  BY <1>2, <1>3, AskingHas, Ranges DEF Types, Place
<1>10. /\ sk' \in [Sockets -> Entry] /\ sk'[s] = Asking(c, 0)
       /\ \A t \in Sockets : t # s => sk'[t] = sk[t]
  BY <1>3, <1>6, <1>9 DEF Types
<1>11. Open(c)' /\ Place(c)' = Asking(c, 0)
  BY <1>3, <1>8, <1>9, <1>10 DEF Open, Place
<1>12. Types'
  <2>1. requests' \in Seq(Requests)
    BY <1>2, <1>5, RecvingAsks
  <2>2. xfer' = NoXfer
    BY DEF OnConnected
  <2>3. QED
    BY <1>8, <1>10, <2>1, <2>2 DEF Types, FewerTold
<1>13. SocketInv(c)'
  <2>1. xfer' = NoXfer
    BY DEF OnConnected
  <2>2. QED
    BY <1>1, <1>3, <1>8, <1>9, <1>10, <1>11, <2>1 DEF SocketInv, Types
<1>14. ConnectInv(c)' /\ EarlierInv(c)'
  BY <1>1, <1>2, <1>5, <1>8, <1>11, RecvingKeeps
<1>15. RecvInv(c)'
  <2>1. /\ None(requests, Asks("recv", sessions)) /\ None(replies, Received(sessions))
        /\ ~fw[sessions].wants
    BY <1>2, <1>3 DEF RecvInv, Place
  <2>2. /\ ~None(requests', Asks("recv", sessions))
        /\ AtMostOne(requests', Asks("recv", sessions))
    BY <1>2, <1>5, <2>1, RecvingAsks DEF RecvInv
  <2>3. None(replies', Received(sessions)) /\ AtMostOne(replies', Received(sessions))
    BY <1>2, <2>1 DEF FewerTold, RecvInv
  <2>4. QED
    BY <1>2, <1>8, <1>9, <1>11, <2>1, <2>2, <2>3 DEF RecvInv
<1>16. QED
  BY <1>12, <1>13, <1>14, <1>15
\* close() of a socket by the library: of the one of the client, if it is used.
LEMMA CloseUnder ==
    ASSUME NEW c, Clients = {c}, Types, SocketInv(c), NEW s \in Sockets,
           Open(c) => s = cl[c].socket,
           sk' = [sk EXCEPT ![s] = Closed(@)],
           requests' = requests \o CloseRequest(s, sk[s])
    PROVE  /\ requests' = IF Open(c) THEN Append(requests, Ask("close", cl[c].socket, sessions))
                                     ELSE requests
           /\ requests' \in Seq(Requests)
           /\ \A t \in Sockets : sk'[t] = ClosedSocket
           /\ sk' \in [Sockets -> Entry]
<1>1. /\ sk[s] \in Entry /\ (sk[s].used => sk[s].session = sessions /\ sessions \in Sessions)
      /\ sk[s].used <=> Open(c)
      /\ \A t \in Sockets : t # s => sk[t] = ClosedSocket
  <2>1. sk[s] \in Entry /\ sessions \in 0 .. MaxSessions
    BY DEF Types
  <2>2. sk[s].used => sk[s].session = sessions /\ sessions # 0 /\ s = cl[c].socket
    BY DEF SocketInv
  <2>3. sk[s].used <=> Open(c)
    BY <2>2 DEF Open
  <2>4. \A t \in Sockets : t # s => ~sk[t].used
    BY <2>3 DEF SocketInv, Open
  <2>5. sessions # 0 => sessions \in Sessions
    BY <2>1 DEF Sessions
  <2>6. QED
    BY <2>1, <2>2, <2>3, <2>4, <2>5 DEF SocketInv
<1>2. requests' = IF Open(c) THEN Append(requests, Ask("close", cl[c].socket, sessions))
                             ELSE requests
  BY <1>1, CloseAsks DEF Types
<1>3. \A t \in Sockets : sk'[t] = ClosedSocket
  BY <1>1 DEF Types, Closed, SocketInv
<1>4. sk' \in [Sockets -> Entry]
  BY <1>1, EntryTypes DEF Types, Closed
<1>5. requests' \in Seq(Requests)
  BY <1>2, ClosingAsks
<1>6. QED
  BY <1>2, <1>3, <1>4, <1>5

LEMMA RefusedKeeps ==
    ASSUME NEW c, Clients = {c}, Base(c), NEW e \in Messages, FewerTold(e), NoMoreTold,
           e.kind = "refused", OnConnectFailed(e.sock), xfer = NoXfer,
           UNCHANGED <<reg, holders, nextTcp, sessions, calling, fw, network, got>>
    PROVE  Base(c)'
<1>1. /\ e.sock \in Sockets /\ ~cl[c].connected
      /\ Open(c) => e.sock = cl[c].socket
      /\ \A x \in Sessions : ~Wanted(x) /\ None(replies', Answers(x))
  BY AnswerHas
<1>2. /\ requests' = requests \o CloseRequest(e.sock, sk[e.sock])
      /\ sk' = [sk EXCEPT ![e.sock] = Closed(@)]
      /\ UNCHANGED <<cl, xfer>>
  BY DEF OnConnectFailed
<1>3. /\ requests' = IF Open(c) THEN Append(requests, Ask("close", cl[c].socket, sessions))
                                ELSE requests
      /\ requests' \in Seq(Requests)
      /\ \A s \in Sockets : sk'[s] = ClosedSocket
      /\ sk' \in [Sockets -> Entry]
  BY <1>1, <1>2, CloseUnder DEF Base
<1>4. ~cl[c].full
  BY <1>1 DEF Base, SocketInv
<1>5. Types'
  BY <1>2, <1>3 DEF Base, Types, NoMoreTold
<1>6. QED
  BY <1>1, <1>2, <1>3, <1>4, <1>5, ClosingKeeps

\* A reply to a receive request, of the session of its socket, is for the
\* client, and it is the only one; another changes nothing.
LEMMA ReceivedHas ==
    ASSUME NEW c, Clients = {c}, Base(c), NEW e \in Messages, FewerTold(e),
           e.kind = "received", e.session = sk[e.sock].session
    PROVE  /\ Open(c) /\ cl[c].connected /\ e.session = sessions /\ e.sock = cl[c].socket
           /\ sessions \in Sessions
           /\ Place(c).pending /\ Place(c).buf = c /\ ~fw[sessions].wants
           /\ None(requests, Asks("recv", sessions))
           /\ None(replies', Received(sessions))
           /\ \A x \in Sessions : ~Wanted(x) /\ None(replies', Answers(x))
           /\ e.bytes # <<>> => fw[sessions].state \in {"open", "lost"}
<1>0. /\ \A z : None(replies, Answers(z)) => None(replies', Answers(z))
      /\ InReceived(e, sessions) => ~None(replies, Received(sessions))
      /\ AtMostOne(replies, Received(sessions)) /\ InReceived(e, sessions) =>
           None(replies', Received(sessions))
      /\ None(replies, Eofs(sessions)) <=> None(replies', Eofs(sessions)) /\ ~InEofs(e, sessions)
  BY DEF FewerTold
<1> USE DEF Base
<1>1. e.session \in Sessions /\ e.sock \in Sockets /\ 0 \notin Sessions
  BY Ranges DEF Messages
<1>2. sk[e.sock].used
  BY <1>1 DEF SocketInv, ClosedSocket
<1>3. Open(c) /\ e.sock = cl[c].socket /\ e.session = sessions
  BY <1>1, <1>2 DEF SocketInv, Open
<1>4. InReceived(e, sessions)
  BY <1>3 DEF InReceived
<1>5. /\ Place(c).pending /\ ~fw[sessions].wants /\ None(requests, Asks("recv", sessions))
      /\ None(replies', Received(sessions))
  BY <1>0, <1>3, <1>4 DEF RecvInv
<1>6. cl[c].connected /\ Place(c).buf = c
  BY <1>3, <1>5 DEF SocketInv
<1>7. \A x \in Sessions : ~Wanted(x) /\ None(replies', Answers(x))
  BY <1>0, <1>6 DEF ConnectInv, WantedInv, Answered
<1>8. e.bytes # <<>> => fw[sessions].state \in {"open", "lost"}
  <2>1. Eofs(sessions) \subseteq Received(sessions)
    BY DEF Eofs
  <2>2. None(replies', Eofs(sessions))
    BY <1>5, <2>1, NoneSubset
  <2>3. e.bytes # <<>> => None(replies, Eofs(sessions))
    BY <1>0, <2>2 DEF InEofs
  <2>4. QED
    BY <1>3, <1>6, <2>3 DEF RecvInv
<1>9. QED
  BY <1>1, <1>3, <1>5, <1>6, <1>7, <1>8

LEMMA EofKeeps ==
    ASSUME NEW c, Clients = {c}, Base(c), NEW e \in Messages, FewerTold(e), NoMoreTold,
           e.kind = "received", e.session = sk[e.sock].session, OnEof(e.sock),
           xfer = NoXfer, Open(c) => ~cl[c].full,
           UNCHANGED <<reg, holders, nextTcp, sessions, calling, fw, network, got>>
    PROVE  Base(c)'
<1>1. /\ Open(c) /\ e.sock = cl[c].socket
      /\ \A x \in Sessions : ~Wanted(x) /\ None(replies', Answers(x))
  BY ReceivedHas
<1>2. e.sock \in Sockets /\ reg[e.sock] = c
  BY <1>1 DEF Base, SocketInv, Open
<1>3. /\ requests' = requests \o CloseRequest(e.sock, sk[e.sock])
      /\ sk' = [sk EXCEPT ![e.sock] = Closed(@)]
      /\ cl' = [cl EXCEPT ![c].connected = FALSE]
      /\ UNCHANGED xfer
  BY <1>2 DEF OnEof
<1>4. /\ requests' = IF Open(c) THEN Append(requests, Ask("close", cl[c].socket, sessions))
                                ELSE requests
      /\ requests' \in Seq(Requests)
      /\ \A s \in Sockets : sk'[s] = ClosedSocket
      /\ sk' \in [Sockets -> Entry]
  BY <1>1, <1>2, <1>3, CloseUnder DEF Base
<1>5. cl \in [Clients -> Client] /\ c \in Clients
  BY DEF Base, Types
<1>6. /\ cl' \in [Clients -> Client] /\ ~cl'[c].connected /\ ~cl'[c].full
      /\ cl'[c].head = cl[c].head /\ cl'[c].tail = cl[c].tail
  BY <1>1, <1>3, <1>5 DEF Client
<1>7. Types'
  BY <1>3, <1>4, <1>6 DEF Base, Types, NoMoreTold
<1>8. QED
  BY <1>1, <1>3, <1>4, <1>6, <1>7, ClosingKeeps
LEMMA StaleKeeps ==
    ASSUME NEW c, Clients = {c}, Base(c), NEW e \in Messages, FewerTold(e), NoMoreTold,
           e.kind = "received", e.session # sk[e.sock].session, OnReceived(e), xfer = NoXfer,
           UNCHANGED <<reg, holders, nextTcp, sessions, calling, fw, network, got>>
    PROVE  Base(c)'
<1>0. /\ \A z : InAbout(e, z) => ~None(replies, About(z))
      /\ \A z : InEarlier(e, z) => ~None(replies, Earlier(z))
      /\ \A z, t : InElsewhere(e, z, t) => ~None(replies, Elsewhere(z, t))
      /\ \A z : AtMostOne(replies, Received(z)) => AtMostOne(replies', Received(z))
      /\ \A z : ~InReceived(e, z) =>
           /\ None(replies', Received(z)) <=> None(replies, Received(z))
           /\ None(replies', Eofs(z)) <=> None(replies, Eofs(z))
  BY DEF FewerTold, InEofs
<1> USE DEF Base
<1>1. /\ e.session \in Sessions /\ e.sock \in Sockets
      /\ sk \in [Sockets -> Entry] /\ sessions \in 0 .. MaxSessions
  BY DEF Messages, Types
<1>2. InAbout(e, e.session)
  BY DEF InAbout
<1>3. ~(e.session > sessions)
  BY <1>0, <1>1, <1>2 DEF ConnectInv, ToCome, Unborn
<1>4. Open(c) => e.session # sessions
  <2>1. SUFFICES ASSUME Open(c), e.session = sessions PROVE FALSE
    OBVIOUS
  <2>2. None(replies, Elsewhere(sessions, cl[c].socket))
    BY <2>1 DEF ConnectInv, CurrentInv
  <2>3. e.sock = cl[c].socket
    BY <1>0, <1>2, <2>1, <2>2 DEF InElsewhere
  <2>4. QED
    BY <2>1, <2>3 DEF Open, SocketInv
<1>5. Open(c) => ~cl[c].connected
  <2>1. SUFFICES ASSUME Open(c), cl[c].connected PROVE FALSE
    OBVIOUS
  <2>2. e.session < sessions
    BY <1>1, <1>3, <1>4, <2>1 DEF Sessions
  <2>3. InEarlier(e, sessions)
    BY <2>2 DEF InEarlier
  <2>4. QED
    BY <1>0, <2>1, <2>3 DEF EarlierInv
<1>6. ~sk[e.sock].pending
  <2>1. CASE sk[e.sock].used
    BY <1>1, <1>5, <2>1 DEF SocketInv, Open, Place
  <2>2. CASE ~sk[e.sock].used
    BY <1>1, <2>2 DEF SocketInv, ClosedSocket
  <2>3. QED
    BY <2>1, <2>2
<1>7. Replied(sk[e.sock]) = sk[e.sock]
  <2>1. sk[e.sock] \in Entry
    BY <1>1
  <2>2. QED
    BY <1>6, <2>1 DEF Replied, Entry
<1>8. sk' = [sk EXCEPT ![e.sock] = sk[e.sock]] /\ UNCHANGED <<cl, requests, xfer>>
  BY <1>7 DEF OnReceived
<1>9. sk' = sk
  BY <1>1, <1>8
<1>10. Open(c)' = Open(c) /\ Place(c)' = Place(c)
  BY <1>8, <1>9 DEF Open, Place
<1>11. Types' /\ SocketInv(c)'
  BY <1>8, <1>9, <1>10 DEF Types, SocketInv, NoMoreTold
<1>12. ConnectInv(c)' /\ EarlierInv(c)'
  BY <1>8, <1>10, RecvingKeeps
<1>13. RecvInv(c)'
  <2>1. Open(c) => ~InReceived(e, sessions)
    BY <1>4 DEF InReceived
  <2>2. QED
    BY <1>0, <1>8, <1>10, <2>1 DEF RecvInv
<1>14. QED
  BY <1>11, <1>12, <1>13

\* The network is lost: the client that connect() has returned 1 for is
\* stopped, whatever it does now.
LEMMA LostHas ==
    ASSUME NEW c, Clients = {c}, Base(c), OnDisconnected
    PROVE  \/ /\ cl[c].socket # NoSocket /\ Stopped({c})
           \/ /\ ~(cl[c].connected /\ calling = NoClient)
              /\ UNCHANGED <<cl, sk, reg, requests>>
<1> DEFINE held == {x \in Clients : /\ \E s \in Sockets : holders[s] = x
                                    /\ cl[x].socket # NoSocket}
<1>1. Stopped(held)
  BY DEF OnDisconnected
<1>2. CASE c \in held
  BY <1>1, <1>2
<1>3. CASE c \notin held
  <2>1. held = {}
    BY <1>3
  <2>2. Stopped({})
    BY <1>1, <2>1
  <2>3. {cl[x].socket : x \in {}} = {} /\ {} \cap Sockets = {}
    OBVIOUS
  <2>4. /\ requests' = requests \o CloseRequests({}) /\ sk' = ClosedAll({})
        /\ reg' = [s \in Sockets |-> reg[s]] /\ cl' = [x \in Clients |-> cl[x]]
    BY <2>2, <2>3 DEF Stopped
  <2>5. CloseRequests({}) = <<>>
    <3> DEFINE open == {s \in {} \cap Sockets : sk[s].used}
               Nth(n) == CHOOSE t \in open : Cardinality({u \in open : u < t}) = n - 1
    <3>1. open = {} /\ Cardinality(open) = 0
      BY FS_EmptySet
    <3>2. CloseRequests({}) = [n \in 1 .. 0 |-> CloseRequest(Nth(n), sk[Nth(n)])[1]]
      BY <3>1 DEF CloseRequests
    <3> HIDE DEF Nth
    <3>3. QED
      BY <3>2
  <2>6. UNCHANGED <<cl, sk, reg, requests>>
    BY <2>4, <2>5, ConcatEmptySeq DEF ClosedAll, Base, Types
  <2>7. ~(cl[c].connected /\ calling = NoClient)
    <3>1. cl[c].connected => cl[c].socket # NoSocket
      BY Ranges DEF Base, SocketInv, Open
    <3>2. QED
      BY <1>3, <3>1 DEF Base, SocketInv
  <2>8. QED
    BY <2>6, <2>7
<1>4. QED
  BY <1>2, <1>3

LEMMA LostKeeps ==
    ASSUME NEW c, Clients = {c}, Base(c), NEW e \in Messages, FewerTold(e), NoMoreTold,
           e.kind = "disconnected", OnDisconnected, xfer = NoXfer,
           UNCHANGED <<holders, nextTcp, sessions, calling, fw, network, got>>
    PROVE  Base(c)'
<1>0. /\ ~None(replies, Losses)
      /\ NoneAfter(replies, Losses, Connecteds) => None(replies', Connecteds)
      /\ \A z : AtMostOne(replies, Received(z)) => AtMostOne(replies', Received(z))
      /\ \A z : /\ None(replies', Received(z)) <=> None(replies, Received(z))
                /\ None(replies', Eofs(z)) <=> None(replies, Eofs(z))
  BY DEF FewerTold, InReceived, InEofs
<1>1. ~network.up /\ None(replies', Connecteds)
  BY <1>0 DEF Base, ConnectInv, AnswerInv
<1>2. xfer' = NoXfer
  BY DEF OnDisconnected
<1>3. CASE cl[c].socket # NoSocket /\ Stopped({c})
  <2>1. /\ requests' = IF Open(c) THEN Append(requests, Ask("close", cl[c].socket, sessions))
                                  ELSE requests
        /\ requests' \in Seq(Requests)
        /\ \A s \in Sockets : sk'[s] = ClosedSocket
        /\ sk' \in [Sockets -> Entry]
        /\ reg' \in [Sockets -> Clients \union {NoClient}]
        /\ cl' \in [Clients -> Client] /\ cl'[c].socket = NoSocket
        /\ ~cl'[c].connected /\ ~cl'[c].full
        /\ cl'[c].head = cl[c].head /\ cl'[c].tail = cl[c].tail
    BY <1>3, StopsOwn DEF Base
  <2>2. Types'
    BY <1>2, <2>1 DEF Base, Types, NoMoreTold
  <2>3. QED
    BY <1>1, <1>2, <2>1, <2>2, ClosingKeeps
<1>4. CASE UNCHANGED <<cl, sk, reg, requests>>
  <2> USE DEF Base
  <2>1. Open(c)' = Open(c) /\ Place(c)' = Place(c)
    BY <1>4 DEF Open, Place
  <2>2. Types' /\ SocketInv(c)'
    BY <1>2, <1>4, <2>1 DEF Types, SocketInv, NoMoreTold
  <2>3. ConnectInv(c)' /\ EarlierInv(c)'
    BY <1>4, <2>1, RecvingKeeps
  <2>4. RecvInv(c)'
    BY <1>0, <1>4, <2>1 DEF RecvInv
  <2>5. QED
    BY <2>2, <2>3, <2>4
<1>5. QED
  BY <1>3, <1>4, LostHas
\* One chunk goes where the socket says and is accounted for.
LEMMA OnDataRoom ==
    ASSUME NEW head \in 0 .. TCP_SIZE, NEW tail \in 0 .. TCP_SIZE, NEW n \in 1 .. MTU,
           tail < head \/ (head = 0 /\ tail = 0)
    PROVE  /\ head + n \in Nat /\ tail < head + n
           /\ Fits(head + n) => head + n \in 0 .. TCP_SIZE
           /\ More(head + n) => head + n \in 0 .. TCP_SIZE /\ Fits(head + n)
           /\ ~Fits(head + n) => tail < head
  BY DEF Fits, More

LEMMA OnDataDoes ==
    ASSUME NEW c, Clients = {c}, Types, SocketInv(c), Open(c), cl[c].connected,
           NEW so \in Entry, so.used, so.session = sessions, so.buf = c,
           NEW bytes \in Seq(Bytes), bytes # <<>>, Whole => Len(bytes) \in Segments,
           OnData(cl[c].socket, so, bytes)
    PROVE  LET s    == cl[c].socket
               n    == IF Len(bytes) <= MTU THEN Len(bytes) ELSE MTU
               head == cl[c].head + n
               more == More(head)
           IN  /\ requests' = IF more /\ ~so.pending
                              THEN Append(requests, Ask("recv", s, sessions)) ELSE requests
               /\ sk' = [sk EXCEPT ![s] =
                            IF more THEN [so EXCEPT !.buf = c, !.off = head, !.pending = TRUE]
                                    ELSE so]
               /\ more => head \in 0 .. TCP_SIZE
               /\ cl' \in [Clients -> Client] /\ cl'[c].socket = s /\ cl'[c].connected
               /\ cl'[c].tail < cl'[c].head
               /\ xfer' # NoXfer => xfer'.sock = s /\ xfer'.rest # <<>>
               /\ xfer' \in [sock : Sockets \union {NoSocket}, rest : Seq(Bytes)]
               /\ Whole => xfer' = NoXfer
<1> DEFINE s    == cl[c].socket
           n    == IF Len(bytes) <= MTU THEN Len(bytes) ELSE MTU
           rest == SubSeq(bytes, n + 1, Len(bytes))
           head == cl[c].head + n
           more == More(head)
           data == [i \in Places |->
                       IF i \in so.off .. so.off + n - 1 THEN bytes[i - so.off + 1]
                       ELSE cl[c].data[i]]
           full == cl[c].full \/ (~more /\ rest # <<>>)
<1>1. /\ s \in Sockets /\ reg[s] = c /\ cl \in [Clients -> Client] /\ c \in Clients
      /\ sessions \in Sessions
      /\ sk \in [Sockets -> Entry] /\ requests \in Seq(Requests)
      /\ cl[c].tail < cl[c].head \/ (cl[c].head = 0 /\ cl[c].tail = 0)
  BY DEF Open, SocketInv, Types, Sessions
<1>2. Len(bytes) \in Nat \ {0} /\ n \in 1 .. MTU /\ n <= Len(bytes)
  BY EmptySeq, LenProperties
<1>3. rest \in Seq(Bytes) /\ (Whole => rest = <<>>)
  <2>1. n + 1 \in Int /\ Len(bytes) \in Int
    BY <1>2
  <2>2. \A i \in n + 1 .. Len(bytes) : bytes[i] \in Bytes
    <3>1. \A i \in n + 1 .. Len(bytes) : i \in 1 .. Len(bytes)
      BY <1>2
    <3>2. QED
      BY <3>1, ElementOfSeq
  <2>3. rest \in Seq(Bytes)
    BY <2>1, <2>2, SubSeqProperties
  <2>4. Whole => Len(bytes) < n + 1
    BY <1>2 DEF Whole
  <2>5. QED
    BY <2>1, <2>3, <2>4, SubSeqEmpty
<1>4. data \in [Places -> Bytes \union {NoByte}]
  <2>1. so.off \in Nat /\ cl[c].data \in [Places -> Bytes \union {NoByte}]
    BY <1>1, Ranges DEF Entry, Client
  <2>2. ASSUME NEW i \in Places, i \in so.off .. so.off + n - 1
        PROVE  bytes[i - so.off + 1] \in Bytes
    <3>1. i - so.off + 1 \in 1 .. Len(bytes)
      BY <1>2, <2>1, <2>2, Ranges
    <3>2. QED
      BY <3>1, ElementOfSeq
  <2>3. QED
    BY <2>1, <2>2
<1>5. /\ xfer' = IF rest = <<>> THEN NoXfer ELSE [sock |-> s, rest |-> rest]
      /\ cl' = LET stored == [cl EXCEPT ![c].data = data] IN
               IF Fits(head) THEN [stored EXCEPT ![c].head = head, ![c].full = full]
                             ELSE [stored EXCEPT ![c].full = TRUE]
      /\ sk' = [sk EXCEPT ![s] = IF more THEN AfterRecv(so, c, head) ELSE so]
      /\ requests' = requests \o (IF more THEN RecvRequest(s, so) ELSE <<>>)
  <2>1. reg[s] = c /\ so.buf = c
    BY <1>1
  <2>2. xfer' = IF rest = <<>> THEN NoXfer ELSE [sock |-> s, rest |-> rest]
    BY DEF OnData
  <2>3. /\ sk' = [sk EXCEPT ![s] = IF more THEN AfterRecv(so, c, head) ELSE so]
        /\ requests' = requests \o (IF more THEN RecvRequest(s, so) ELSE <<>>)
    BY <2>1 DEF OnData
  <2>4. cl' = LET stored == [cl EXCEPT ![c].data = data] IN
              IF Fits(head) THEN [stored EXCEPT ![c].head = head, ![c].full = @ \/ (~more /\ rest # <<>>)]
                            ELSE [stored EXCEPT ![c].full = TRUE]
    BY <2>1 DEF OnData
  <2>5. [cl EXCEPT ![c].data = data][c].full = cl[c].full
    BY <1>1
  <2>6. QED
    BY <2>2, <2>3, <2>4, <2>5
<1>6. /\ head \in Nat /\ cl[c].tail < head
      /\ Fits(head) => head \in 0 .. TCP_SIZE
      /\ more => head \in 0 .. TCP_SIZE /\ Fits(head)
      /\ ~Fits(head) => cl[c].tail < cl[c].head
  <2>1. cl[c].head \in 0 .. TCP_SIZE /\ cl[c].tail \in 0 .. TCP_SIZE
    BY <1>1 DEF Client
  <2>2. QED
    BY <1>1, <1>2, <2>1, OnDataRoom
<1>7. requests' = IF more /\ ~so.pending
                  THEN Append(requests, Ask("recv", s, sessions)) ELSE requests
  BY <1>1, <1>5, RecvAsks, ConcatEmptySeq
<1>8. sk' = [sk EXCEPT ![s] =
                IF more THEN [so EXCEPT !.buf = c, !.off = head, !.pending = TRUE] ELSE so]
  BY <1>5 DEF AfterRecv
<1> HIDE DEF n, rest, head, more, data
<1>9. /\ cl' \in [Clients -> Client] /\ cl'[c].socket = s /\ cl'[c].connected
      /\ cl'[c].tail < cl'[c].head
  <2>1. full \in BOOLEAN
    BY <1>1 DEF Client
  <2> HIDE DEF full
  <2>2. CASE Fits(head)
    <3> DEFINE stored == [cl[c] EXCEPT !.data = data, !.head = head, !.full = full]
    <3>1. cl' = [cl EXCEPT ![c] = stored]
      BY <1>1, <1>5, <2>2
    <3>2. /\ stored \in Client /\ stored.socket = s /\ stored.connected
          /\ stored.tail = cl[c].tail /\ stored.head = head
      <4>1. cl[c] \in Client /\ head \in 0 .. TCP_SIZE
        BY <1>1, <1>6, <2>2
      <4>2. stored \in Client
        BY <1>4, <2>1, <4>1 DEF Client
      <4>3. QED
        BY <4>1, <4>2 DEF Client
    <3> HIDE DEF stored, s
    <3>3. QED
      BY <1>1, <1>6, <3>1, <3>2
  <2>3. CASE ~Fits(head)
    <3> DEFINE stored == [cl[c] EXCEPT !.data = data, !.full = TRUE]
    <3>1. cl' = [cl EXCEPT ![c] = stored]
      BY <1>1, <1>5, <2>3
    <3>2. /\ stored \in Client /\ stored.socket = s /\ stored.connected
          /\ stored.tail = cl[c].tail /\ stored.head = cl[c].head
      <4>1. cl[c] \in Client
        BY <1>1
      <4>2. stored \in Client
        BY <1>4, <4>1 DEF Client
      <4>3. QED
        BY <4>1, <4>2 DEF Client
    <3> HIDE DEF stored, s
    <3>3. QED
      BY <1>1, <1>6, <2>3, <3>1, <3>2
  <2>4. QED
    BY <2>2, <2>3
<1>10. /\ xfer' # NoXfer => xfer'.sock = s /\ xfer'.rest # <<>>
       /\ xfer' \in [sock : Sockets \union {NoSocket}, rest : Seq(Bytes)]
       /\ Whole => xfer' = NoXfer
  BY <1>1, <1>3, <1>5 DEF NoXfer
<1>11. QED
  BY <1>6, <1>7, <1>8, <1>9, <1>10 DEF n, head, more
\* A reply, or the next chunk of one.
LEMMA OnDataKeeps ==
    ASSUME NEW c, Clients = {c}, Base(c), Open(c), cl[c].connected,
           NEW so \in Entry, so.used, so.session = sessions, so.buf = c,
           NEW bytes \in Seq(Bytes), bytes # <<>>, Whole => Len(bytes) \in Segments,
           OnData(cl[c].socket, so, bytes), NoMoreTold,
           UNCHANGED <<reg, holders, nextTcp, sessions, calling, fw, network, got>>,
           \/ so.pending = Place(c).pending /\ UNCHANGED replies
           \/ /\ ~so.pending /\ None(requests, Asks("recv", sessions))
              /\ None(replies', Received(sessions)) /\ ~fw[sessions].wants
              /\ fw[sessions].state \in {"open", "lost"}
    PROVE  Base(c)'
<1> USE DEF Base
<1> DEFINE s    == cl[c].socket
           n    == IF Len(bytes) <= MTU THEN Len(bytes) ELSE MTU
           head == cl[c].head + n
           more == More(head)
           asks == more /\ ~so.pending
           next == IF more THEN [so EXCEPT !.buf = c, !.off = head, !.pending = TRUE] ELSE so
<1>1. /\ requests' = IF asks THEN Append(requests, Ask("recv", s, sessions)) ELSE requests
      /\ sk' = [sk EXCEPT ![s] = next]
      /\ more => head \in 0 .. TCP_SIZE
      /\ cl' \in [Clients -> Client] /\ cl'[c].socket = s /\ cl'[c].connected
      /\ cl'[c].tail < cl'[c].head
      /\ xfer' # NoXfer => xfer'.sock = s /\ xfer'.rest # <<>>
      /\ xfer' \in [sock : Sockets \union {NoSocket}, rest : Seq(Bytes)]
      /\ Whole => xfer' = NoXfer
  BY OnDataDoes
<1>2. s \in Sockets /\ sk \in [Sockets -> Entry]
  BY DEF Open, Types
<1> HIDE DEF n, head, more
<1>3. /\ next \in Entry /\ next.used /\ next.session = sessions /\ next.buf = c
      /\ more => next.pending
      /\ ~more => next.pending = so.pending
  <2>1. CASE more
    <3>1. next = [so EXCEPT !.buf = c, !.off = head, !.pending = TRUE]
      BY <2>1
    <3>2. head \in 0 .. TCP_SIZE /\ c \in Clients
      BY <1>1, <2>1 DEF Types
    <3> HIDE DEF next
    <3>3. QED
      BY <2>1, <3>1, <3>2 DEF Entry
  <2>2. CASE ~more
    BY <2>2
  <2>3. QED
    BY <2>1, <2>2
<1> HIDE DEF next
<1>4. /\ sk' \in [Sockets -> Entry] /\ sk'[s] = next
      /\ \A t \in Sockets : t # s => sk'[t] = sk[t]
  BY <1>1, <1>2, <1>3
<1>5. Open(c)' /\ Open(c)' = Open(c) /\ Place(c)' = next
  BY <1>1, <1>2, <1>3, <1>4 DEF Open, Place
<1>6. requests' \in Seq(Requests)
  BY <1>1, RecvingAsks
<1>7. Types'
  <2>1. xfer' # NoXfer => xfer'.sock \in Sockets /\ xfer'.rest # <<>>
    BY <1>1, <1>2
  <2>2. QED
    BY <1>1, <1>4, <1>6, <2>1 DEF Types, NoMoreTold
<1>8. SocketInv(c)'
  <2>1. /\ reg[s] = c /\ sessions # 0
        /\ \A t \in Sockets : t # s => ~sk[t].used /\ sk[t] = ClosedSocket
        /\ calling = NoClient => \E t \in Sockets : holders[t] = c
    BY <1>2 DEF SocketInv, Open
  <2>2. /\ \A t \in Sockets : sk'[t].used =>
            t = s /\ reg'[t] = c /\ sk'[t].session = sessions /\ sessions # 0
        /\ \A t \in Sockets : ~sk'[t].used => sk'[t] = ClosedSocket
    BY <1>2, <1>3, <1>4, <2>1
  <2>3. QED
    BY <1>1, <1>3, <1>5, <2>1, <2>2 DEF SocketInv, Whole
<1>9. ConnectInv(c)' /\ EarlierInv(c)'
  BY <1>1, <1>5, RecvingKeeps
<1>10. RecvInv(c)'
  <2>1. /\ None(requests', Asks("recv", sessions))
             <=> None(requests, Asks("recv", sessions)) /\ ~asks
        /\ AtMostOne(requests, Asks("recv", sessions))
             /\ (~asks \/ None(requests, Asks("recv", sessions)))
             => AtMostOne(requests', Asks("recv", sessions))
    BY <1>1, RecvingAsks
  <2>2. CASE so.pending = Place(c).pending /\ UNCHANGED replies
    BY <1>3, <1>5, <2>1, <2>2 DEF RecvInv
  <2>3. CASE /\ ~so.pending /\ None(requests, Asks("recv", sessions))
             /\ None(replies', Received(sessions)) /\ ~fw[sessions].wants
             /\ fw[sessions].state \in {"open", "lost"}
    <3>1. AtMostOne(replies', Received(sessions))
      BY <2>3 DEF None, AtMostOne
    <3>2. AtMostOne(requests', Asks("recv", sessions))
      BY <2>1, <2>3 DEF RecvInv
    <3>3. QED
      BY <1>3, <1>5, <2>1, <2>3, <3>1, <3>2 DEF RecvInv
  <2>4. QED
    BY <2>2, <2>3
<1>11. QED
  BY <1>7, <1>8, <1>9, <1>10

LEMMA DataKeeps ==
    ASSUME NEW c, Clients = {c}, Base(c), NEW e \in Messages, FewerTold(e), NoMoreTold,
           e.kind = "received", e.session = sk[e.sock].session, e.bytes # <<>>,
           OnData(e.sock, Replied(sk[e.sock]), e.bytes),
           UNCHANGED <<reg, holders, nextTcp, sessions, calling, fw, network, got>>
    PROVE  Base(c)'
<1>1. /\ Open(c) /\ cl[c].connected /\ e.session = sessions /\ e.sock = cl[c].socket
      /\ Place(c).buf = c /\ ~fw[sessions].wants
      /\ None(requests, Asks("recv", sessions))
      /\ None(replies', Received(sessions))
      /\ fw[sessions].state \in {"open", "lost"}
  BY ReceivedHas
<1>2. e.bytes \in Seq(Bytes) /\ Len(e.bytes) \in Segments
  BY DEF Messages, Replies
<1>3. /\ Replied(Place(c)) \in Entry /\ Replied(Place(c)).used
      /\ Replied(Place(c)).session = sessions /\ Replied(Place(c)).buf = c
      /\ ~Replied(Place(c)).pending
  <2>1. Place(c) \in Entry /\ Place(c).used /\ Place(c).session = sessions
    BY <1>1 DEF Base, Types, Open, Place
  <2>2. QED
    BY <1>1, <2>1 DEF Replied, Entry
<1>4. OnData(cl[c].socket, Replied(Place(c)), e.bytes)
  BY <1>1 DEF Place
<1>5. QED
  BY <1>1, <1>2, <1>3, <1>4, OnDataKeeps

LEMMA PumpKeeps ==
    ASSUME NEW c, Clients = {c}, Base(c), Pump
    PROVE  Base(c)'
<1>1. PICK e \in Messages :
             /\ e = Head(replies) /\ FewerTold(e) /\ NoMoreTold
             /\ xfer = NoXfer /\ (Open(c) => ~cl[c].full)
             /\ UNCHANGED <<holders, nextTcp, sessions, calling, fw, network, got>>
             /\ \/ e.kind = "connected" /\ OnConnected(e.sock) /\ UNCHANGED reg
                \/ e.kind = "refused"   /\ OnConnectFailed(e.sock) /\ UNCHANGED reg
                \/ e.kind = "received"  /\ OnReceived(e) /\ UNCHANGED reg
                \/ e.kind = "disconnected" /\ OnDisconnected
  BY PumpHas
<1>2. CASE e.kind = "connected" /\ OnConnected(e.sock) /\ UNCHANGED reg
  BY <1>1, <1>2, ConnectedKeeps
<1>3. CASE e.kind = "refused" /\ OnConnectFailed(e.sock) /\ UNCHANGED reg
  BY <1>1, <1>3, RefusedKeeps
<1>4. CASE e.kind = "received" /\ OnReceived(e) /\ UNCHANGED reg
  <2>1. CASE e.session # sk[e.sock].session
    BY <1>1, <1>4, <2>1, StaleKeeps
  <2>2. CASE e.session = sk[e.sock].session
    <3>1. Replied(sk[e.sock]).session = sk[e.sock].session
      <4>1. sk[e.sock] \in Entry
        BY <1>4 DEF Messages, Base, Types
      <4>2. QED
        BY <4>1 DEF Replied, Entry
    <3>2. CASE e.bytes = <<>>
      <4>1. OnEof(e.sock)
        BY <1>4, <2>2, <3>1, <3>2 DEF OnReceived
      <4>2. QED
        BY <1>1, <1>4, <2>2, <4>1, EofKeeps
    <3>3. CASE e.bytes # <<>>
      <4>1. OnData(e.sock, Replied(sk[e.sock]), e.bytes)
        BY <1>4, <2>2, <3>1, <3>3 DEF OnReceived
      <4>2. QED
        BY <1>1, <1>4, <2>2, <3>3, <4>1, DataKeeps
    <3>4. QED
      BY <3>2, <3>3
  <2>3. QED
    BY <2>1, <2>2
<1>5. CASE e.kind = "disconnected" /\ OnDisconnected
  BY <1>1, <1>5, LostKeeps
<1>6. QED
  BY <1>1, <1>2, <1>3, <1>4, <1>5

LEMMA PumpChunkKeeps ==
    ASSUME NEW c, Clients = {c}, Base(c), PumpChunk
    PROVE  Base(c)'
<1>1. /\ xfer # NoXfer /\ OnData(xfer.sock, sk[xfer.sock], xfer.rest)
      /\ UNCHANGED <<reg, holders, nextTcp, sessions, calling, replies, fw, network, got>>
  BY DEF PumpChunk
<1>2. xfer.sock = cl[c].socket /\ cl[c].connected /\ Open(c) /\ Place(c).buf = c
  BY <1>1 DEF Base, SocketInv
<1>3. ~Whole /\ xfer.rest \in Seq(Bytes) /\ xfer.rest # <<>>
  BY <1>1 DEF Base, SocketInv, Types, Whole
<1>4. /\ Place(c) \in Entry /\ Place(c).used /\ Place(c).session = sessions
  BY <1>2 DEF Base, SocketInv, Types, Open, Place
<1>5. OnData(cl[c].socket, Place(c), xfer.rest)
  BY <1>1, <1>2 DEF Place
<1>6. NoMoreTold
  BY <1>1, FewerIsNoMore DEF Base, Types
<1>7. QED
  BY <1>1, <1>2, <1>3, <1>4, <1>5, <1>6, OnDataKeeps

----------------------------------------------------------------------------
(* The firmware *)

\* What the firmware does is not seen by the host before it pumps.
LEMMA HostUnseen ==
    ASSUME NEW c, SocketInv(c), UNCHANGED host
    PROVE  SocketInv(c)' /\ Open(c)' = Open(c) /\ Place(c)' = Place(c)
  BY DEF host, SocketInv, Open, Place

\* A connect request is taken up.
LEMMA FwConnectKeeps ==
    ASSUME NEW c, Clients = {c}, Base(c), NEW s \in Sockets, NEW x \in Sessions,
           FewerAsked("connect", s, x), UNCHANGED <<host, replies, network>>,
           fw' = [fw EXCEPT ![x] = [@ EXCEPT !.state = "connecting", !.sock = s]]
    PROVE  Base(c)'
<1>0. /\ requests' \in Seq(Requests)
      /\ ~None(requests, Asks("connect", x))
      /\ AtMostOne(requests, Asks("connect", x)) => None(requests', Asks("connect", x))
      /\ \A l, z : l # "connect" \/ z # x =>
           (None(requests', Asks(l, z)) <=> None(requests, Asks(l, z)))
      /\ \A l, z : AtMostOne(requests, Asks(l, z)) => AtMostOne(requests', Asks(l, z))
      /\ NoneAfter(requests, Asks("connect", x), AskedEarlier(x)) =>
           NoneAfter(requests', Asks("connect", x), AskedEarlier(x))
           /\ None(requests', AskedEarlier(x))
      /\ \A z, t : None(requests, AsksElsewhere(z, t)) =>
           None(requests', AsksElsewhere(z, t)) /\ ~(z = x /\ t # s)
  BY DEF FewerAsked
<1> USE DEF Base
<1>1. Wanted(x) /\ x = sessions /\ calling = c /\ ~cl[c].connected
  BY <1>0 DEF ConnectInv, WantedInv, Wanted
<1>2. \A z \in Sessions : ~Answered(z)
  BY <1>1 DEF ConnectInv, WantedInv
<1>3. /\ fw'[x].state = "connecting" /\ fw'[x].sock = s
      /\ fw'[x].wants = fw[x].wants /\ fw'[x].opened = fw[x].opened
      /\ \A z \in Sessions : z # x => fw'[z] = fw[z]
      /\ fw' \in [Sessions -> Connection]
  <2>1. fw \in [Sessions -> Connection]
    BY DEF Types
  <2>2. QED
    BY <2>1 DEF Connection
<1>4. SocketInv(c)' /\ Open(c)' = Open(c) /\ Place(c)' = Place(c)
  BY HostUnseen
<1>5. UNCHANGED <<cl, sk, reg, holders, nextTcp, sessions, xfer, calling, got>>
  BY DEF host
<1>6. Types'
  BY <1>0, <1>3, <1>5 DEF Types
<1>7. ToCome'
  <2> SUFFICES ASSUME NEW z \in Sessions, z > sessions PROVE Unborn(z)'
    BY <1>5 DEF ToCome
  <2>1. Unborn(z) /\ z # x
    BY <1>1 DEF ConnectInv, ToCome, Types, Sessions
  <2>2. QED
    BY <1>0, <1>3, <2>1 DEF Unborn
<1>8. WantedInv(c)'
  <2> SUFFICES ASSUME NEW z \in Sessions
      PROVE /\ Wanted(z)' \/ Answered(z)' => z = sessions /\ calling = c /\ ~cl[c].connected
            /\ Wanted(z)' => ~Answered(z)'
            /\ Wanted(z)' => Open(c) \/ (cl[c].socket = NoSocket /\ ~network.up)
            /\ fw'[z].state = "connecting" => None(requests', Asks("connect", z))
            /\ AtMostOne(requests', Asks("connect", z)) /\ AtMostOne(replies', Answers(z))
    BY <1>4, <1>5 DEF WantedInv
  <2>1. ~Answered(z)' /\ (Wanted(z)' => Wanted(z))
    BY <1>0, <1>1, <1>2, <1>3 DEF Wanted, Answered
  <2>2. fw'[z].state = "connecting" => None(requests', Asks("connect", z))
    BY <1>0, <1>3 DEF ConnectInv, WantedInv
  <2>3. QED
    BY <1>0, <2>1, <2>2 DEF ConnectInv, WantedInv
<1>9. AnswerInv(c)'
  <2>1. None(replies, Connecteds) /\ None(replies, Refusals)
    BY <1>2, NoneAnswered DEF Types, Answered
  <2>2. QED
    BY <2>1 DEF ConnectInv, AnswerInv
<1>10. CurrentInv(c)'
  <2>1. Open(c) => s = cl[c].socket
    BY <1>0, <1>1 DEF ConnectInv, CurrentInv
  <2>2. QED
    BY <1>0, <1>1, <1>3, <1>4, <1>5, <2>1 DEF ConnectInv, CurrentInv
<1>11. EarlierInv(c)'
  <2>1. /\ NoneAfter(requests', Asks("connect", sessions), AskedEarlier(sessions))
        /\ None(requests', AskedEarlier(sessions))
    BY <1>0, <1>1 DEF EarlierInv
  <2>2. ASSUME NEW z \in Sessions, z < sessions \/ ~Open(c), fw'[z].state = "open"
        PROVE  ~None(requests', Asks("close", z))
    BY <1>0, <1>3, <2>2 DEF EarlierInv
  <2>3. QED
    BY <1>4, <1>5, <2>1, <2>2 DEF EarlierInv
<1>12. RecvInv(c)'
  BY <1>0, <1>1, <1>3, <1>4, <1>5 DEF RecvInv, SocketInv
<1>13. QED
  BY <1>4, <1>6, <1>7, <1>8, <1>9, <1>10, <1>11, <1>12 DEF ConnectInv
\* A receive request: of an open connection, the next segment will be told.
LEMMA FwRecvKeeps ==
    ASSUME NEW c, Clients = {c}, Base(c), NEW s \in Sockets, NEW x \in Sessions,
           FewerAsked("recv", s, x), UNCHANGED <<host, replies, network>>,
           fw' = [fw EXCEPT ![x] = [@ EXCEPT !.wants = fw[x].state = "open"]]
    PROVE  Base(c)'
<1>0. /\ requests' \in Seq(Requests)
      /\ ~None(requests, Asks("recv", x))
      /\ AtMostOne(requests, Asks("recv", x)) => None(requests', Asks("recv", x))
      /\ \A l, z : l # "recv" \/ z # x =>
           (None(requests', Asks(l, z)) <=> None(requests, Asks(l, z)))
      /\ \A l, z : AtMostOne(requests, Asks(l, z)) => AtMostOne(requests', Asks(l, z))
      /\ \A z : None(requests, AskedEarlier(z)) => None(requests', AskedEarlier(z))
      /\ \A z : NoneAfter(requests, Asks("connect", z), AskedEarlier(z)) =>
           NoneAfter(requests', Asks("connect", z), AskedEarlier(z))
      /\ \A z, t : None(requests, AsksElsewhere(z, t)) => None(requests', AsksElsewhere(z, t))
  BY DEF FewerAsked
<1> USE DEF Base
<1>1. /\ fw'[x].state = fw[x].state /\ fw'[x].sock = fw[x].sock
      /\ fw'[x].wants <=> fw[x].state = "open"
      /\ fw'[x].opened = fw[x].opened
      /\ \A z \in Sessions : z # x => fw'[z] = fw[z]
      /\ fw' \in [Sessions -> Connection]
  <2> DEFINE wants == fw[x].state = "open"
  <2>1. fw \in [Sessions -> Connection] /\ wants \in BOOLEAN
    BY DEF Types
  <2>2. fw' = [fw EXCEPT ![x] = [@ EXCEPT !.wants = wants]]
    OBVIOUS
  <2> HIDE DEF wants
  <2>3. /\ fw'[x].state = fw[x].state /\ fw'[x].sock = fw[x].sock
        /\ fw'[x].wants = wants /\ fw'[x].opened = fw[x].opened
        /\ \A z \in Sessions : z # x => fw'[z] = fw[z]
        /\ fw' \in [Sessions -> Connection]
    BY <2>1, <2>2 DEF Connection
  <2>4. wants <=> fw[x].state = "open"
    BY DEF wants
  <2>5. QED
    BY <2>3, <2>4, Zenon
<1>2. \A z \in Sessions : /\ fw'[z].state = fw[z].state /\ fw'[z].sock = fw[z].sock
                          /\ fw'[z].opened = fw[z].opened
  BY <1>1
<1>3. SocketInv(c)' /\ Open(c)' = Open(c) /\ Place(c)' = Place(c)
  BY HostUnseen
<1>4. UNCHANGED <<cl, sk, reg, holders, nextTcp, sessions, xfer, calling, got>>
  BY DEF host
<1>5. Types'
  BY <1>0, <1>1, <1>2, <1>4 DEF Types
<1>6. ToCome'
  <2> SUFFICES ASSUME NEW z \in Sessions, z > sessions PROVE Unborn(z)'
    BY <1>4 DEF ToCome
  <2>1. Unborn(z) /\ z # x
    BY <1>0 DEF ConnectInv, ToCome, Unborn
  <2>2. QED
    BY <1>0, <1>1, <2>1 DEF Unborn
<1>7. \A z \in Sessions : Wanted(z)' = Wanted(z) /\ Answered(z)' = Answered(z)
  BY <1>0, <1>2 DEF Wanted, Answered
<1>8. WantedInv(c)'
  BY <1>0, <1>2, <1>3, <1>4, <1>7 DEF ConnectInv, WantedInv
<1>9. Open(c) \/ cl[c].connected => sessions \in Sessions
  BY DEF SocketInv, Open, Types, Sessions
<1>10. ~None(replies, Connecteds) \/ ~None(replies, Refusals) => sessions \in Sessions
  <2>1. (\A z \in Sessions : ~Answered(z)) => None(replies, Connecteds) /\ None(replies, Refusals)
    BY NoneAnswered DEF Types, Answered
  <2>2. QED
    BY <2>1 DEF ConnectInv, WantedInv
<1>11. AnswerInv(c)'
  BY <1>2, <1>3, <1>4, <1>10 DEF ConnectInv, AnswerInv
<1>12. CurrentInv(c)'
  BY <1>0, <1>2, <1>3, <1>4, <1>9 DEF ConnectInv, CurrentInv
<1>13. EarlierInv(c)'
  <2>1. ASSUME NEW z \in Sessions, z < sessions \/ ~Open(c), fw'[z].state = "open"
        PROVE  ~None(requests', Asks("close", z))
    BY <1>0, <1>2, <2>1 DEF EarlierInv
  <2>2. None(requests', Asks("connect", sessions)) => None(requests', AskedEarlier(sessions))
    BY <1>0 DEF EarlierInv
  <2>3. NoneAfter(requests', Asks("connect", sessions), AskedEarlier(sessions))
    BY <1>0 DEF EarlierInv
  <2>4. QED
    BY <1>3, <1>4, <2>1, <2>2, <2>3 DEF EarlierInv
<1>14. RecvInv(c)'
  <2>1. CASE Open(c) /\ x = sessions
    <3>1. Place(c).pending /\ cl[c].connected /\ None(replies, Received(sessions))
      BY <1>0, <2>1 DEF RecvInv, SocketInv
    <3>2. None(replies, Eofs(sessions))
      BY <3>1, NoneSubset DEF Eofs
    <3>3. fw[sessions].state = "open" \/ fw[sessions].state = "lost"
      BY <2>1, <3>1, <3>2 DEF RecvInv
    <3>4. None(requests', Asks("recv", sessions))
      BY <1>0, <2>1 DEF RecvInv
    <3>5. AtMostOne(requests', Asks("recv", sessions))
      BY <1>0, <2>1 DEF RecvInv
    <3>6. QED
      BY <1>1, <1>3, <1>4, <2>1, <3>1, <3>3, <3>4, <3>5 DEF RecvInv
  <2>2. CASE Open(c) /\ x # sessions
    <3>1. fw'[sessions] = fw[sessions]
      BY <1>1, <1>9, <2>2
    <3>2. QED
      BY <1>0, <1>3, <1>4, <2>2, <3>1 DEF RecvInv
  <2>3. CASE ~Open(c)
    BY <1>3, <2>3 DEF RecvInv
  <2>4. QED
    BY <2>1, <2>2, <2>3
<1>15. QED
  BY <1>3, <1>5, <1>6, <1>8, <1>11, <1>12, <1>13, <1>14 DEF ConnectInv

\* A close request: never of the connection in use.
LEMMA FwCloseKeeps ==
    ASSUME NEW c, Clients = {c}, Base(c), NEW s \in Sockets, NEW x \in Sessions,
           FewerAsked("close", s, x), UNCHANGED <<host, replies, network>>,
           fw' = [fw EXCEPT ![x] = [@ EXCEPT !.state = "closed"]]
    PROVE  Base(c)'
<1>0. /\ requests' \in Seq(Requests)
      /\ ~None(requests, Asks("close", x))
      /\ \A l, z : l # "close" \/ z # x =>
           (None(requests', Asks(l, z)) <=> None(requests, Asks(l, z)))
      /\ \A l, z : None(requests, Asks(l, z)) => None(requests', Asks(l, z))
      /\ \A l, z : AtMostOne(requests, Asks(l, z)) => AtMostOne(requests', Asks(l, z))
      /\ \A z : None(requests, AskedEarlier(z)) => None(requests', AskedEarlier(z))
      /\ \A z : NoneAfter(requests, Asks("connect", z), AskedEarlier(z)) =>
           NoneAfter(requests', Asks("connect", z), AskedEarlier(z))
      /\ \A z, t : None(requests, AsksElsewhere(z, t)) => None(requests', AsksElsewhere(z, t))
  BY DEF FewerAsked
<1> USE DEF Base
<1>1. /\ fw'[x].state = "closed" /\ fw'[x].opened = fw[x].opened
      /\ \A z \in Sessions : z # x => fw'[z] = fw[z]
      /\ fw' \in [Sessions -> Connection]
  <2>1. fw \in [Sessions -> Connection]
    BY DEF Types
  <2>2. QED
    BY <2>1 DEF Connection
<1>2. SocketInv(c)' /\ Open(c)' = Open(c) /\ Place(c)' = Place(c)
  BY HostUnseen
<1>3. UNCHANGED <<cl, sk, reg, holders, nextTcp, sessions, xfer, calling, got>>
  BY DEF host
<1>4. Open(c) => x # sessions /\ fw'[sessions] = fw[sessions]
  <2>1. Open(c) => x # sessions /\ sessions \in Sessions
    BY <1>0 DEF ConnectInv, CurrentInv, SocketInv, Open, Types, Sessions
  <2>2. QED
    BY <1>1, <2>1
<1>5. Types'
  BY <1>0, <1>1, <1>3 DEF Types
<1>6. ToCome'
  <2> SUFFICES ASSUME NEW z \in Sessions, z > sessions PROVE Unborn(z)'
    BY <1>3 DEF ToCome
  <2>1. Unborn(z) /\ z # x
    BY <1>0 DEF ConnectInv, ToCome, Unborn
  <2>2. QED
    BY <1>0, <1>1, <2>1 DEF Unborn
<1>7. \A z \in Sessions : (Wanted(z)' => Wanted(z)) /\ Answered(z)' = Answered(z)
  BY <1>0, <1>1 DEF Wanted, Answered
<1>8. WantedInv(c)'
  <2> SUFFICES ASSUME NEW z \in Sessions
      PROVE /\ Wanted(z)' \/ Answered(z)' => z = sessions /\ calling = c /\ ~cl[c].connected
            /\ Wanted(z)' => ~Answered(z)'
            /\ Wanted(z)' => Open(c) \/ (cl[c].socket = NoSocket /\ ~network.up)
            /\ fw'[z].state = "connecting" => None(requests', Asks("connect", z))
            /\ AtMostOne(requests', Asks("connect", z)) /\ AtMostOne(replies', Answers(z))
    BY <1>2, <1>3 DEF WantedInv
  <2>1. fw'[z].state = "connecting" => fw[z].state = "connecting"
    BY <1>1
  <2>2. QED
    BY <1>0, <1>7, <2>1 DEF ConnectInv, WantedInv
<1>9. ~None(replies, Connecteds) \/ ~None(replies, Refusals) => sessions \in Sessions
  <2>1. (\A z \in Sessions : ~Answered(z)) => None(replies, Connecteds) /\ None(replies, Refusals)
    BY NoneAnswered DEF Types, Answered
  <2>2. QED
    BY <2>1 DEF ConnectInv, WantedInv
<1>10. AnswerInv(c)'
  <2>1. ~None(replies, Connecteds) => Open(c) /\ fw'[sessions] = fw[sessions]
    BY <1>4 DEF ConnectInv, AnswerInv
  <2>2. ~None(replies, Refusals) => fw'[sessions].state = "closed"
    BY <1>1, <1>9 DEF ConnectInv, AnswerInv
  <2>3. QED
    BY <1>2, <1>3, <2>1, <2>2 DEF ConnectInv, AnswerInv
<1>11. CurrentInv(c)'
  <2>1. cl[c].connected => Open(c)
    BY DEF SocketInv
  <2>2. QED
    BY <1>0, <1>2, <1>3, <1>4, <2>1 DEF ConnectInv, CurrentInv
<1>12. EarlierInv(c)'
  <2>1. ASSUME NEW z \in Sessions, z < sessions \/ ~Open(c), fw'[z].state = "open"
        PROVE  ~None(requests', Asks("close", z))
    BY <1>0, <1>1, <2>1 DEF EarlierInv
  <2>2. None(requests', Asks("connect", sessions)) => None(requests', AskedEarlier(sessions))
    BY <1>0 DEF EarlierInv
  <2>3. NoneAfter(requests', Asks("connect", sessions), AskedEarlier(sessions))
    BY <1>0 DEF EarlierInv
  <2>4. QED
    BY <1>2, <1>3, <2>1, <2>2, <2>3 DEF EarlierInv
<1>13. RecvInv(c)'
  BY <1>0, <1>2, <1>3, <1>4 DEF RecvInv
<1>14. QED
  BY <1>2, <1>5, <1>6, <1>8, <1>10, <1>11, <1>12, <1>13 DEF ConnectInv
LEMMA FwRequestDoes ==
    ASSUME requests \in Seq(Requests), FwRequest
    PROVE  \E k \in {"connect", "recv", "close"}, s \in Sockets, x \in Sessions :
             /\ Head(requests) = Ask(k, s, x) /\ FewerAsked(k, s, x)
             /\ fw' = [fw EXCEPT ![x] =
                  CASE k = "connect" -> [@ EXCEPT !.state = "connecting", !.sock = s]
                    [] k = "recv"  -> [@ EXCEPT !.wants = fw[x].state = "open"]
                    [] k = "close" -> [@ EXCEPT !.state = "closed"]]
             /\ UNCHANGED <<host, replies, network>>
<1>1. PICK k \in {"connect", "recv", "close"}, s \in Sockets, x \in Sessions :
        Head(requests) = Ask(k, s, x) /\ FewerAsked(k, s, x)
  BY Taken DEF FwRequest
<1>2. /\ fw' = [fw EXCEPT ![x] =
                  CASE k = "connect" -> [@ EXCEPT !.state = "connecting", !.sock = s]
                    [] k = "recv"  -> [@ EXCEPT !.wants = fw[x].state = "open"]
                    [] k = "close" -> [@ EXCEPT !.state = "closed"]]
      /\ UNCHANGED <<host, replies, network>>
  <2> DEFINE r == Head(requests)
  <2>1. r.kind = k /\ r.sock = s /\ r.session = x
    BY <1>1 DEF Ask
  <2>2. /\ fw' = [fw EXCEPT ![r.session] =
                CASE r.kind = "connect" ->
                        [@ EXCEPT !.state = "connecting", !.sock = r.sock]
                  [] r.kind = "recv"  -> [@ EXCEPT !.wants = fw[r.session].state = "open"]
                  [] r.kind = "close" -> [@ EXCEPT !.state = "closed"]]
        /\ UNCHANGED <<host, replies, network>>
    BY Zenon DEF FwRequest
  <2> HIDE DEF r
  <2>3. QED
    BY <2>1, <2>2, Zenon
<1>3. QED
  BY <1>1, <1>2, Zenon

LEMMA FwRequestKeeps ==
    ASSUME NEW c, Clients = {c}, Base(c), FwRequest
    PROVE  Base(c)'
<1>1. requests \in Seq(Requests)
  BY DEF Base, Types
<1>2. PICK k \in {"connect", "recv", "close"}, s \in Sockets, x \in Sessions :
             /\ Head(requests) = Ask(k, s, x) /\ FewerAsked(k, s, x)
             /\ fw' = [fw EXCEPT ![x] =
                  CASE k = "connect" -> [@ EXCEPT !.state = "connecting", !.sock = s]
                    [] k = "recv"  -> [@ EXCEPT !.wants = fw[x].state = "open"]
                    [] k = "close" -> [@ EXCEPT !.state = "closed"]]
             /\ UNCHANGED <<host, replies, network>>
  BY <1>1, FwRequestDoes
<1>3. CASE k = "connect"
  BY <1>2, <1>3, FwConnectKeeps
<1>4. CASE k = "recv"
  BY <1>2, <1>4, FwRecvKeeps
<1>5. CASE k = "close"
  BY <1>2, <1>5, FwCloseKeeps
<1>6. QED
  BY <1>2, <1>3, <1>4, <1>5

\* A message of the firmware, and its place in the queue.
Message(kind, x, bytes) ==
    [kind |-> kind, sock |-> fw[x].sock, session |-> x, bytes |-> bytes]

LEMMA RepliesDo ==
    ASSUME Types, NEW x \in Sessions, NEW kind \in {"connected", "refused", "received"},
           NEW state \in {"open", "closed"},
           fw[x].state = "connecting" \/ fw[x].state = "open",
           NEW bytes \in Seq(Bytes), bytes = <<>> \/ Len(bytes) \in Segments,
           fw[x].sent + Len(bytes) <= StreamLength,
           FwReplies(x, kind, state, bytes)
    PROVE  /\ Message(kind, x, bytes) \in Messages /\ MoreTold(Message(kind, x, bytes))
           /\ fw'[x].state = state /\ ~fw'[x].wants /\ fw'[x].sock = fw[x].sock
           /\ fw'[x].opened <=> fw[x].opened \/ state = "open"
           /\ \A z \in Sessions : z # x => fw'[z] = fw[z]
           /\ UNCHANGED <<host, requests, network>>
           /\ Types'
<1>1. /\ fw' = [fw EXCEPT ![x] =
                  [fw[x] EXCEPT !.state = state, !.wants = FALSE,
                                !.opened = fw[x].opened \/ state = "open",
                                !.sent = fw[x].sent + Len(bytes)]]
      /\ replies' = Append(replies, Message(kind, x, bytes))
      /\ UNCHANGED <<host, requests, network>>
  BY DEF FwReplies, Message
<1>2. fw \in [Sessions -> Connection] /\ fw[x].sock \in Sockets
  BY DEF Types
<1>3. Message(kind, x, bytes) \in Messages
  BY <1>2 DEF Message, Messages, Replies
<1>4. MoreTold(Message(kind, x, bytes))
  BY <1>1, <1>3, Told DEF Types
<1> DEFINE opened == fw[x].opened \/ state = "open"
           sent   == fw[x].sent + Len(bytes)
<1>5. opened \in BOOLEAN /\ sent \in 0 .. StreamLength
  <2>1. fw[x].opened \in BOOLEAN /\ fw[x].sent \in 0 .. StreamLength
    BY <1>2 DEF Connection
  <2>2. Len(bytes) \in Nat
    BY LenProperties
  <2>3. QED
    BY <2>1, <2>2
<1>6. fw' = [fw EXCEPT ![x] = [fw[x] EXCEPT !.state = state, !.wants = FALSE,
                                            !.opened = opened, !.sent = sent]]
  BY <1>1
<1>7. opened <=> fw[x].opened \/ state = "open"
  OBVIOUS
<1> HIDE DEF opened, sent
<1>8. /\ fw'[x].state = state /\ ~fw'[x].wants /\ fw'[x].sock = fw[x].sock
      /\ fw'[x].opened = opened
      /\ \A z \in Sessions : z # x => fw'[z] = fw[z]
      /\ fw' \in [Sessions -> Connection]
  BY <1>2, <1>5, <1>6 DEF Connection
<1>9. Types'
  <2>1. UNCHANGED <<cl, sk, reg, holders, nextTcp, sessions, xfer, calling, got>>
    BY <1>1 DEF host
  <2>2. QED
    BY <1>1, <1>2, <1>4, <1>8, <2>1 DEF Types, MoreTold
<1>10. fw'[x].opened <=> fw[x].opened \/ state = "open"
  BY <1>7, <1>8
<1>11. QED
  BY <1>1, <1>3, <1>4, <1>8, <1>9, <1>10

\* A connect request is answered, once.
LEMMA FwConnectsKeeps ==
    ASSUME NEW c, Clients = {c}, Base(c), NEW x \in Sessions, FwConnects(x)
    PROVE  Base(c)'
<1> USE DEF Base
<1>1. PICK kind \in {"connected", "refused"}, state \in {"open", "closed"} :
        /\ FwReplies(x, kind, state, <<>>)
        /\ kind = "connected" => state = "open" /\ network.up
        /\ kind = "refused" => state = "closed"
  BY DEF FwConnects
<1> DEFINE e == Message(kind, x, <<>>)
<1>2. fw[x].state = "connecting"
  BY DEF FwConnects
<1>3. /\ e \in Messages /\ MoreTold(e)
      /\ fw'[x].state = state /\ ~fw'[x].wants /\ fw'[x].sock = fw[x].sock
      /\ fw'[x].opened <=> fw[x].opened \/ state = "open"
      /\ \A z \in Sessions : z # x => fw'[z] = fw[z]
      /\ UNCHANGED <<host, requests, network>>
      /\ Types'
  <2>1. <<>> \in Seq(Bytes) /\ Len(<<>>) = 0
    BY EmptySeq
  <2>2. fw[x].sent + 0 <= StreamLength
    BY DEF Types, Connection
  <2>3. QED
    BY <1>1, <1>2, <2>1, <2>2, RepliesDo
<1>4. e.kind = kind /\ e.session = x /\ e.sock = fw[x].sock
  BY DEF Message
<1> HIDE DEF e
<1>5. /\ replies' \in Seq(Messages)
      /\ \A z : None(replies', Answers(z)) <=> None(replies, Answers(z)) /\ z # x
      /\ \A z : AtMostOne(replies, Answers(z)) /\ None(replies, Answers(z))
           => AtMostOne(replies', Answers(z))
      /\ None(replies', Connecteds) <=> None(replies, Connecteds) /\ kind # "connected"
      /\ None(replies', Refusals) <=> None(replies, Refusals) /\ kind # "refused"
      /\ None(replies', Losses) <=> None(replies, Losses)
      /\ \A z : None(replies', Received(z)) <=> None(replies, Received(z))
      /\ \A z : AtMostOne(replies, Received(z)) => AtMostOne(replies', Received(z))
      /\ \A z : z # x => (None(replies, About(z)) => None(replies', About(z)))
      /\ \A t : None(replies, Elsewhere(x, t)) /\ t = fw[x].sock
           => None(replies', Elsewhere(x, t))
      /\ NoneAfter(replies, Losses, Connecteds)
           /\ (kind # "connected" \/ None(replies, Losses))
           => NoneAfter(replies', Losses, Connecteds)
      /\ \A z : NoneAfter(replies, Connecteds, Earlier(z))
           => NoneAfter(replies', Connecteds, Earlier(z))
  BY <1>1, <1>3, <1>4 DEF MoreTold, InAnswers, InReceived, InAbout, InElsewhere, InEarlier
<1>6. /\ x = sessions /\ calling = c /\ ~cl[c].connected
      /\ None(requests, Asks("connect", x))
      /\ Open(c) \/ (cl[c].socket = NoSocket /\ ~network.up)
      /\ \A z \in Sessions : ~Answered(z) /\ (z # x => ~Wanted(z))
  BY <1>2 DEF ConnectInv, WantedInv, Wanted
<1>7. UNCHANGED <<cl, sk, reg, holders, nextTcp, sessions, xfer, calling, got>>
  BY <1>3 DEF host
<1>8. SocketInv(c)' /\ Open(c)' = Open(c) /\ Place(c)' = Place(c)
  BY <1>3, HostUnseen
<1>9. ToCome'
  <2> SUFFICES ASSUME NEW z \in Sessions, z > sessions PROVE Unborn(z)'
    BY <1>7 DEF ToCome
  <2>1. Unborn(z) /\ z # x
    BY <1>6 DEF ConnectInv, ToCome, Sessions
  <2>2. QED
    BY <1>3, <1>5, <2>1 DEF Unborn
<1>10. WantedInv(c)'
  <2> SUFFICES ASSUME NEW z \in Sessions
      PROVE /\ Answered(z)' => z = sessions /\ calling = c /\ ~cl[c].connected
            /\ ~Wanted(z)'
            /\ fw'[z].state # "connecting"
            /\ AtMostOne(requests', Asks("connect", z)) /\ AtMostOne(replies', Answers(z))
    BY <1>7 DEF WantedInv
  <2>1. Answered(z)' => z = x
    BY <1>5, <1>6 DEF Answered
  <2>2. fw'[z].state # "connecting"
    BY <1>1, <1>3, <1>6 DEF Wanted
  <2>3. ~Wanted(z)'
    BY <1>3, <1>6, <2>2 DEF Wanted
  <2>4. AtMostOne(requests', Asks("connect", z)) /\ AtMostOne(replies', Answers(z))
    BY <1>3, <1>5, <1>6 DEF ConnectInv, WantedInv, Answered
  <2>5. QED
    BY <1>6, <2>1, <2>2, <2>3, <2>4
<1>11. None(replies, Connecteds) /\ None(replies, Refusals)
  BY <1>6, NoneAnswered DEF Types, Answered
<1>12. AnswerInv(c)'
  <2>1. kind = "connected" => Open(c) /\ fw'[sessions].opened /\ fw'[sessions].state = "open"
    BY <1>1, <1>3, <1>6
  <2>2. kind = "refused" => fw'[sessions].state = "closed"
    BY <1>1, <1>3, <1>6
  <2>3. NoneAfter(replies', Losses, Connecteds)
    BY <1>1, <1>5 DEF ConnectInv, AnswerInv
  <2>4. network.up => None(replies', Losses)
    BY <1>5 DEF ConnectInv, AnswerInv
  <2>5. QED
    BY <1>3, <1>5, <1>7, <1>8, <1>11, <2>1, <2>2, <2>3, <2>4 DEF AnswerInv
<1>13. CurrentInv(c)'
  <2>1. Open(c) => fw[x].sock = cl[c].socket
    BY <1>2, <1>6 DEF ConnectInv, CurrentInv
  <2>2. QED
    BY <1>3, <1>5, <1>6, <1>7, <1>8, <2>1 DEF ConnectInv, CurrentInv
<1>14. EarlierInv(c)'
  <2>1. ASSUME NEW z \in Sessions, z < sessions \/ ~Open(c), fw'[z].state = "open"
        PROVE  ~None(requests', Asks("close", z))
    <3>1. CASE z = x
      <4>1. ~(x < x)
        BY DEF Sessions
      <4>2. QED
        BY <1>1, <1>3, <1>6, <2>1, <3>1, <4>1
    <3>2. CASE z # x
      BY <1>3, <2>1, <3>2 DEF EarlierInv
    <3>3. QED
      BY <3>1, <3>2
  <2>2. QED
    BY <1>3, <1>5, <1>6, <1>7, <1>8, <2>1 DEF EarlierInv
<1>15. RecvInv(c)'
  BY <1>3, <1>5, <1>6, <1>7, <1>8 DEF RecvInv, SocketInv
<1>16. QED
  BY <1>3, <1>8, <1>9, <1>10, <1>12, <1>13, <1>14, <1>15 DEF ConnectInv
\* A segment of the stream, or its end, of an open connection that wants one.
LEMMA FwReceivedKeeps ==
    ASSUME NEW c, Clients = {c}, Base(c), NEW x \in Sessions,
           fw[x].state = "open", fw[x].wants,
           NEW state \in {"open", "closed"}, NEW bytes \in Seq(Bytes),
           state = "open" => Len(bytes) \in Segments, state = "closed" => bytes = <<>>,
           fw[x].sent + Len(bytes) <= StreamLength,
           FwReplies(x, "received", state, bytes)
    PROVE  Base(c)'
<1> USE DEF Base
<1> DEFINE e == Message("received", x, bytes)
<1>1. /\ e \in Messages /\ MoreTold(e)
      /\ fw'[x].state = state /\ ~fw'[x].wants /\ fw'[x].sock = fw[x].sock
      /\ fw'[x].opened <=> fw[x].opened \/ state = "open"
      /\ \A z \in Sessions : z # x => fw'[z] = fw[z]
      /\ UNCHANGED <<host, requests, network>>
      /\ Types'
  BY RepliesDo
<1>2. e.kind = "received" /\ e.session = x /\ e.sock = fw[x].sock /\ e.bytes = bytes
  BY DEF Message
<1> HIDE DEF e
<1>3. /\ \A z : None(replies', Answers(z)) <=> None(replies, Answers(z))
      /\ \A z : AtMostOne(replies, Answers(z)) => AtMostOne(replies', Answers(z))
      /\ None(replies', Connecteds) <=> None(replies, Connecteds)
      /\ None(replies', Refusals) <=> None(replies, Refusals)
      /\ None(replies', Losses) <=> None(replies, Losses)
      /\ \A z : None(replies', Received(z)) <=> None(replies, Received(z)) /\ z # x
      /\ \A z : AtMostOne(replies, Received(z)) /\ (z # x \/ None(replies, Received(z)))
           => AtMostOne(replies', Received(z))
      /\ \A z : z # x => (None(replies', Eofs(z)) <=> None(replies, Eofs(z)))
      /\ bytes = <<>> => ~None(replies', Eofs(x))
      /\ \A z : None(replies', Earlier(z)) <=> None(replies, Earlier(z)) /\ ~(x < z)
      /\ \A z : z # x => (None(replies, About(z)) => None(replies', About(z)))
      /\ \A z, t : None(replies, Elsewhere(z, t)) /\ (z # x \/ t = fw[x].sock)
           => None(replies', Elsewhere(z, t))
      /\ NoneAfter(replies, Losses, Connecteds) => NoneAfter(replies', Losses, Connecteds)
      /\ \A z : NoneAfter(replies, Connecteds, Earlier(z))
           /\ (~(x < z) \/ None(replies, Connecteds))
           => NoneAfter(replies', Connecteds, Earlier(z))
  BY <1>1, <1>2 DEF MoreTold, InAnswers, InReceived, InAbout, InElsewhere, InEarlier, InEofs
<1>4. UNCHANGED <<cl, sk, reg, holders, nextTcp, sessions, xfer, calling, got>>
  BY <1>1 DEF host
<1>5. SocketInv(c)' /\ Open(c)' = Open(c) /\ Place(c)' = Place(c)
  BY <1>1, HostUnseen
<1>6. ~(x > sessions) /\ (x # sessions => x < sessions)
  BY DEF ConnectInv, ToCome, Unborn, NoConnection, Types, Sessions
<1>7. \A z \in Sessions : (Wanted(z)' => Wanted(z)) /\ Answered(z)' = Answered(z)
                          /\ (fw'[z].state = "connecting" => fw[z].state = "connecting")
  BY <1>1, <1>3 DEF Wanted, Answered
<1>8. Answered(sessions) \/ (None(replies, Connecteds) /\ None(replies, Refusals))
  <2>1. (\A z \in Sessions : ~Answered(z)) => None(replies, Connecteds) /\ None(replies, Refusals)
    BY NoneAnswered DEF Types, Answered
  <2>2. QED
    BY <2>1 DEF ConnectInv, WantedInv
\* Of an earlier connection: its close request waits, behind no answer.
<1>9. x < sessions => /\ ~cl[c].connected /\ None(replies, Connecteds)
                      /\ sessions \in Sessions
  <2> SUFFICES ASSUME x < sessions
               PROVE  ~cl[c].connected /\ None(replies, Connecteds) /\ sessions \in Sessions
    OBVIOUS
  <2>1. sessions \in Sessions
    BY DEF Types, Sessions
  <2>2. ~None(requests, Asks("close", x))
    BY DEF EarlierInv
  <2>3. Asks("close", x) \subseteq AskedEarlier(sessions)
    BY DEF Asks, AskedEarlier
  <2>4. ~None(requests, AskedEarlier(sessions))
    BY <2>2, <2>3, NoneSubset
  <2>5. Wanted(sessions)
    BY <2>4 DEF EarlierInv, Wanted
  <2>6. ~cl[c].connected /\ ~Answered(sessions)
    BY <2>1, <2>5 DEF ConnectInv, WantedInv
  <2>7. QED
    BY <1>8, <2>1, <2>6
\* Of the connection in use, when there is a socket for it.
<1>10. Open(c) /\ x = sessions =>
         /\ Place(c).pending /\ cl[c].connected /\ ~Answered(sessions)
         /\ None(requests, Asks("recv", sessions)) /\ None(replies, Received(sessions))
         /\ fw[x].sock = cl[c].socket
  BY DEF RecvInv, SocketInv, ConnectInv, WantedInv, CurrentInv
<1>11. ToCome'
  <2> SUFFICES ASSUME NEW z \in Sessions, z > sessions PROVE Unborn(z)'
    BY <1>4 DEF ToCome
  <2>1. Unborn(z) /\ z # x
    BY <1>6 DEF ConnectInv, ToCome
  <2>2. QED
    BY <1>1, <1>3, <2>1 DEF Unborn
<1>12. WantedInv(c)'
  <2> SUFFICES ASSUME NEW z \in Sessions
      PROVE /\ Wanted(z)' \/ Answered(z)' => z = sessions /\ calling = c /\ ~cl[c].connected
            /\ Wanted(z)' => ~Answered(z)'
            /\ Wanted(z)' => Open(c) \/ (cl[c].socket = NoSocket /\ ~network.up)
            /\ fw'[z].state = "connecting" => None(requests', Asks("connect", z))
            /\ AtMostOne(requests', Asks("connect", z)) /\ AtMostOne(replies', Answers(z))
    BY <1>1, <1>4, <1>5 DEF WantedInv
  <2>1. QED
    BY <1>1, <1>3, <1>7 DEF ConnectInv, WantedInv
<1>13. Open(c) \/ cl[c].connected => sessions \in Sessions
  BY DEF SocketInv, Open, Types, Sessions
<1>14. AnswerInv(c)'
  <2>1. ~None(replies, Connecteds) => Open(c) /\ x # sessions
    BY <1>8, <1>10 DEF ConnectInv, AnswerInv
  <2>2. ~None(replies, Connecteds) => fw'[sessions] = fw[sessions]
    BY <1>1, <1>13, <2>1
  <2>3. ~None(replies, Refusals) => x # sessions /\ fw'[sessions] = fw[sessions]
    <3>1. ~None(replies, Refusals) => sessions \in Sessions
      BY <1>8 DEF ConnectInv, WantedInv, Answered, None, Answers, Messages, Types, Sessions
    <3>2. QED
      BY <1>1, <3>1 DEF ConnectInv, AnswerInv
  <2>4. QED
    BY <1>1, <1>3, <1>4, <1>5, <2>1, <2>2, <2>3 DEF ConnectInv, AnswerInv
<1>15. CurrentInv(c)'
  <2>1. Open(c) => None(replies', Elsewhere(sessions, cl[c].socket))
    BY <1>3, <1>10 DEF ConnectInv, CurrentInv
  <2>2. Open(c) => /\ fw'[sessions].state # "none" => fw'[sessions].sock = cl[c].socket
                   /\ fw[sessions].opened => fw'[sessions].opened
    BY <1>1, <1>10, <1>13 DEF ConnectInv, CurrentInv
  <2>3. cl[c].connected => Open(c)
    BY DEF SocketInv
  <2>4. QED
    BY <1>1, <1>4, <1>5, <2>1, <2>2, <2>3 DEF ConnectInv, CurrentInv
<1>16. EarlierInv(c)'
  <2>1. ASSUME NEW z \in Sessions, z < sessions \/ ~Open(c), fw'[z].state = "open"
        PROVE  ~None(requests', Asks("close", z))
    <3>1. fw[z].state = "open"
      BY <1>1, <2>1
    <3>2. QED
      BY <1>1, <2>1, <3>1 DEF EarlierInv
  <2>2. NoneAfter(replies', Connecteds, Earlier(sessions))
    BY <1>3, <1>9 DEF EarlierInv
  <2>3. cl[c].connected => None(replies', Earlier(sessions))
    BY <1>3, <1>9 DEF EarlierInv
  <2>4. QED
    BY <1>1, <1>4, <1>5, <2>1, <2>2, <2>3 DEF EarlierInv
<1>17. RecvInv(c)'
  <2>1. CASE Open(c) /\ x = sessions
    <3>1. /\ ~None(replies', Received(sessions)) /\ AtMostOne(replies', Received(sessions))
          /\ AtMostOne(requests', Asks("recv", sessions))
      BY <1>1, <1>3, <1>10, <2>1 DEF RecvInv
    <3>2. state = "closed" => ~None(replies', Eofs(sessions))
      BY <1>3, <2>1
    <3>3. QED
      BY <1>1, <1>4, <1>5, <1>10, <2>1, <3>1, <3>2 DEF RecvInv
  <2>2. CASE Open(c) /\ x # sessions
    <3>1. fw'[sessions] = fw[sessions]
      BY <1>1, <1>13, <2>2
    <3>2. QED
      BY <1>1, <1>3, <1>4, <1>5, <2>2, <3>1 DEF RecvInv
  <2>3. CASE ~Open(c)
    BY <1>5, <2>3 DEF RecvInv
  <2>4. QED
    BY <2>1, <2>2, <2>3
<1>18. QED
  BY <1>1, <1>5, <1>11, <1>12, <1>14, <1>15, <1>16, <1>17 DEF ConnectInv

\* A segment of the stream.
LEMMA SegmentBytes ==
    ASSUME Types, NEW x \in Sessions, NEW n \in Segments, fw[x].sent + n <= StreamLength
    PROVE  /\ [i \in 1 .. n |-> <<x, fw[x].sent + i>>] \in Seq(Bytes)
           /\ Len([i \in 1 .. n |-> <<x, fw[x].sent + i>>]) = n
<1> DEFINE bytes == [i \in 1 .. n |-> <<x, fw[x].sent + i>>]
<1>1. n \in Nat /\ fw[x].sent \in Nat
  BY DEF Types, Connection
<1>2. \A i \in 1 .. n : fw[x].sent + i \in 1 .. StreamLength
  BY <1>1
<1>3. bytes \in [1 .. n -> Bytes]
  BY <1>2 DEF Bytes
<1>4. bytes \in Seq(Bytes)
  BY <1>1, <1>3, SeqDef
<1>5. Len(bytes) \in Nat /\ 1 .. Len(bytes) = 1 .. n
  BY <1>3, <1>4, LenProperties
<1> HIDE DEF bytes
<1>6. bytes \in Seq(Bytes) /\ Len(bytes) = n
  BY <1>1, <1>4, <1>5
<1>7. QED
  BY <1>6 DEF bytes

LEMMA FwDataKeeps ==
    ASSUME NEW c, Clients = {c}, Base(c), NEW x \in Sessions, FwData(x)
    PROVE  Base(c)'
<1>1. PICK n \in Segments :
        /\ fw[x].sent + n <= StreamLength
        /\ FwReplies(x, "received", "open", [i \in 1 .. n |-> <<x, fw[x].sent + i>>])
  BY DEF FwData
<1> DEFINE bytes == [i \in 1 .. n |-> <<x, fw[x].sent + i>>]
<1>2. bytes \in Seq(Bytes) /\ Len(bytes) = n
  BY <1>1, SegmentBytes DEF Base
<1> HIDE DEF bytes
<1>3. FwReplies(x, "received", "open", bytes)
  BY <1>1 DEF bytes
<1>4. fw[x].state = "open" /\ fw[x].wants
  BY DEF FwData
<1>5. QED
  BY <1>1, <1>2, <1>3, <1>4, FwReceivedKeeps

LEMMA FwEofKeeps ==
    ASSUME NEW c, Clients = {c}, Base(c), NEW x \in Sessions, FwEof(x)
    PROVE  Base(c)'
<1>1. <<>> \in Seq(Bytes) /\ Len(<<>>) = 0
  BY EmptySeq
<1>2. fw[x].sent + 0 <= StreamLength
  BY DEF Base, Types, Connection
<1>3. QED
  BY <1>1, <1>2, FwReceivedKeeps DEF FwEof

\* The network is lost: what was open is not any more.
LEMMA LoseNetworkKeeps ==
    ASSUME NEW c, Clients = {c}, Base(c), LoseNetwork
    PROVE  Base(c)'
<1> USE DEF Base
<1> DEFINE e == [kind |-> "disconnected", sock |-> NoSocket, session |-> 0, bytes |-> <<>>]
<1>1. /\ replies' = Append(replies, e) /\ UNCHANGED <<host, requests>>
      /\ ~network'.up /\ network' \in [up : BOOLEAN, losses : 0 .. MaxLosses]
      /\ fw' = [x \in Sessions |->
                  IF fw[x].state = "open"
                  THEN [fw[x] EXCEPT !.state = "lost", !.wants = FALSE] ELSE fw[x]]
  <2>1. /\ network.losses \in 0 .. MaxLosses /\ network.losses < MaxLosses
        /\ network' = [up |-> FALSE, losses |-> network.losses + 1]
    BY DEF LoseNetwork, Types
  <2>2. network.losses + 1 \in 0 .. MaxLosses
    BY <2>1
  <2>3. ~network'.up /\ network' \in [up : BOOLEAN, losses : 0 .. MaxLosses]
    BY <2>1, <2>2
  <2>4. replies' = Append(replies, e) /\ UNCHANGED <<host, requests>>
    BY DEF LoseNetwork
  <2>5. fw' = [x \in Sessions |->
                  IF fw[x].state = "open"
                  THEN [fw[x] EXCEPT !.state = "lost", !.wants = FALSE] ELSE fw[x]]
    BY DEF LoseNetwork
  <2>6. QED
    BY <2>3, <2>4, <2>5
<1>2. e \in Messages
  BY EmptySeq DEF Messages, Replies
<1>3. MoreTold(e)
  BY <1>1, <1>2, Told DEF Types
<1>4. e.kind = "disconnected"
  OBVIOUS
<1> HIDE DEF e
<1>5. /\ replies' \in Seq(Messages)
      /\ \A z : None(replies', Answers(z)) <=> None(replies, Answers(z))
      /\ \A z : AtMostOne(replies, Answers(z)) => AtMostOne(replies', Answers(z))
      /\ None(replies', Connecteds) <=> None(replies, Connecteds)
      /\ None(replies', Refusals) <=> None(replies, Refusals)
      /\ \A z : None(replies', Received(z)) <=> None(replies, Received(z))
      /\ \A z : AtMostOne(replies, Received(z)) => AtMostOne(replies', Received(z))
      /\ \A z : None(replies', Eofs(z)) <=> None(replies, Eofs(z))
      /\ \A z : None(replies', Earlier(z)) <=> None(replies, Earlier(z))
      /\ \A z : None(replies, About(z)) => None(replies', About(z))
      /\ \A z, t : None(replies, Elsewhere(z, t)) => None(replies', Elsewhere(z, t))
      /\ NoneAfter(replies, Losses, Connecteds) => NoneAfter(replies', Losses, Connecteds)
      /\ \A z : NoneAfter(replies, Connecteds, Earlier(z))
           => NoneAfter(replies', Connecteds, Earlier(z))
  BY <1>3, <1>4 DEF MoreTold, InAnswers, InReceived, InAbout, InElsewhere, InEarlier, InEofs
<1>6. \A x \in Sessions :
        /\ fw[x].state = "open" => fw'[x].state = "lost" /\ ~fw'[x].wants
        /\ fw[x].state # "open" => fw'[x] = fw[x]
        /\ fw'[x].sock = fw[x].sock /\ fw'[x].opened = fw[x].opened
        /\ fw'[x].state # "open"
        /\ fw'[x] \in Connection
  <2> SUFFICES ASSUME NEW x \in Sessions
      PROVE  /\ fw[x].state = "open" => fw'[x].state = "lost" /\ ~fw'[x].wants
             /\ fw[x].state # "open" => fw'[x] = fw[x]
             /\ fw'[x].sock = fw[x].sock /\ fw'[x].opened = fw[x].opened
             /\ fw'[x].state # "open"
             /\ fw'[x] \in Connection
    OBVIOUS
  <2>1. fw[x] \in Connection
    BY DEF Types
  <2>2. fw'[x] = IF fw[x].state = "open"
                 THEN [fw[x] EXCEPT !.state = "lost", !.wants = FALSE] ELSE fw[x]
    BY <1>1
  <2>3. QED
    BY <2>1, <2>2 DEF Connection
<1>7. fw' \in [Sessions -> Connection]
  BY <1>1, <1>6
<1>8. UNCHANGED <<cl, sk, reg, holders, nextTcp, sessions, xfer, calling, got, requests>>
  BY <1>1 DEF host
<1>9. SocketInv(c)' /\ Open(c)' = Open(c) /\ Place(c)' = Place(c)
  BY <1>1, HostUnseen
<1>10. Types'
  BY <1>1, <1>5, <1>6, <1>7, <1>8 DEF Types
<1>11. ToCome'
  <2> SUFFICES ASSUME NEW z \in Sessions, z > sessions PROVE Unborn(z)'
    BY <1>8 DEF ToCome
  <2>1. Unborn(z)
    BY DEF ConnectInv, ToCome
  <2>2. fw[z].state # "open"
    BY <2>1 DEF Unborn, NoConnection
  <2>3. QED
    BY <1>5, <1>6, <1>8, <2>1, <2>2 DEF Unborn
<1>12. \A z \in Sessions : Wanted(z)' = Wanted(z) /\ Answered(z)' = Answered(z)
                           /\ (fw'[z].state = "connecting" => fw[z].state = "connecting")
  BY <1>5, <1>6, <1>8 DEF Wanted, Answered
<1>13. WantedInv(c)'
  <2> SUFFICES ASSUME NEW z \in Sessions
      PROVE /\ Wanted(z) \/ Answered(z) => z = sessions /\ calling = c /\ ~cl[c].connected
            /\ Wanted(z) => ~Answered(z)
            /\ Wanted(z) => Open(c) \/ (cl[c].socket = NoSocket /\ ~network'.up)
            /\ fw'[z].state = "connecting" => None(requests, Asks("connect", z))
            /\ AtMostOne(requests, Asks("connect", z)) /\ AtMostOne(replies', Answers(z))
    BY <1>8, <1>9, <1>12 DEF WantedInv
  <2>1. QED
    BY <1>1, <1>5, <1>12 DEF ConnectInv, WantedInv
<1>14. Open(c) \/ cl[c].connected => sessions \in Sessions
  BY DEF SocketInv, Open, Types, Sessions
<1>15. AnswerInv(c)'
  <2>1. ~None(replies, Refusals) => fw'[sessions].state = "closed"
    <3>1. ~None(replies, Refusals) => sessions \in Sessions
      <4>1. (\A z \in Sessions : ~Answered(z)) => None(replies, Refusals)
        BY NoneAnswered DEF Types, Answered
      <4>2. QED
        BY <4>1 DEF ConnectInv, WantedInv
    <3>2. QED
      BY <1>6, <3>1 DEF ConnectInv, AnswerInv
  <2>2. ~None(replies, Connecteds) =>
          Open(c) /\ fw'[sessions].opened /\ fw'[sessions].state = "lost"
    BY <1>6, <1>14 DEF ConnectInv, AnswerInv
  <2>3. NoneAfter(replies', Losses, Connecteds)
    BY <1>5 DEF ConnectInv, AnswerInv
  <2>4. QED
    BY <1>1, <1>5, <1>8, <1>9, <2>1, <2>2, <2>3 DEF AnswerInv
<1>16. CurrentInv(c)'
  <2>1. Open(c) => None(replies', Elsewhere(sessions, cl[c].socket))
    BY <1>5 DEF ConnectInv, CurrentInv
  <2>2. Open(c) => (fw'[sessions].state # "none" => fw'[sessions].sock = cl[c].socket)
    BY <1>6, <1>14 DEF ConnectInv, CurrentInv
  <2>3. cl[c].connected => fw'[sessions].opened
    BY <1>6, <1>14 DEF ConnectInv, CurrentInv
  <2>4. QED
    BY <1>8, <1>9, <2>1, <2>2, <2>3 DEF ConnectInv, CurrentInv
<1>17. EarlierInv(c)'
  BY <1>5, <1>6, <1>8, <1>9 DEF EarlierInv
<1>18. RecvInv(c)'
  BY <1>5, <1>6, <1>8, <1>9, <1>14 DEF RecvInv
<1>19. QED
  BY <1>9, <1>10, <1>11, <1>13, <1>15, <1>16, <1>17, <1>18 DEF ConnectInv

LEMMA RejoinKeeps ==
    ASSUME NEW c, Clients = {c}, Base(c), Rejoin
    PROVE  Base(c)'
<1> USE DEF Base
<1>1. /\ calling = NoClient /\ UNCHANGED <<host, requests, replies, fw>>
      /\ network' \in [up : BOOLEAN, losses : 0 .. MaxLosses]
  BY DEF Rejoin, Types
<1>2. None(replies, Losses)
  BY DEF Rejoin, None, Losses
<1>3. UNCHANGED <<cl, sk, reg, holders, nextTcp, sessions, xfer, calling, got>>
  BY <1>1 DEF host
<1>4. SocketInv(c)' /\ Open(c)' = Open(c) /\ Place(c)' = Place(c)
  BY <1>1, HostUnseen
<1>5. Types'
  BY <1>1, <1>3 DEF Types
<1>6. calling # c
  BY <1>1 DEF Types
<1>7. \A x \in Sessions : ~Wanted(x) /\ ~Answered(x)
  BY <1>6 DEF ConnectInv, WantedInv
<1>8. \A x \in Sessions : ~Wanted(x)' /\ ~Answered(x)'
  BY <1>1, <1>7 DEF Wanted, Answered
<1>9. WantedInv(c)'
  BY <1>1, <1>3, <1>8 DEF ConnectInv, WantedInv
<1>10. ToCome' /\ AnswerInv(c)' /\ CurrentInv(c)'
  BY <1>1, <1>2, <1>3, <1>4 DEF ConnectInv, ToCome, Unborn, AnswerInv, CurrentInv
<1>11. EarlierInv(c)' /\ RecvInv(c)'
  BY <1>1, <1>3, <1>4 DEF EarlierInv, RecvInv
<1>12. QED
  BY <1>4, <1>5, <1>9, <1>10, <1>11 DEF ConnectInv

----------------------------------------------------------------------------
(* Every step *)

LEMMA InitBase ==
    ASSUME NEW c, Clients = {c}, Init
    PROVE  Base(c)
<1>1. requests = <<>> /\ replies = <<>>
  BY DEF Init
<1>2. /\ \A S : None(requests, S) /\ None(replies, S)
      /\ \A S : AtMostOne(requests, S) /\ AtMostOne(replies, S)
      /\ \A S, R : NoneAfter(requests, S, R) /\ NoneAfter(replies, S, R)
  BY <1>1, NoneEmpty
<1>3. Types
  <2>1. requests \in Seq(Requests) /\ replies \in Seq(Messages)
        /\ got \in [Clients -> Seq(Bytes \union {NoByte})]
    BY EmptySeq DEF Init
  <2>2. cl \in [Clients -> Client] /\ sk \in [Sockets -> Entry] /\ fw \in [Sessions -> Connection]
    BY EntryTypes DEF Init
  <2>3. \A x \in Sessions : fw[x].state = "none"
    BY DEF Init, NoConnection
  <2>4. /\ xfer \in [sock : Sockets \union {NoSocket}, rest : Seq(Bytes)] /\ xfer = NoXfer
    BY EmptySeq DEF Init, NoXfer
  <2>5. /\ reg \in [Sockets -> Clients \union {NoClient}]
        /\ holders \in [Sockets -> Clients \union {NoClient}]
        /\ network \in [up : BOOLEAN, losses : 0 .. MaxLosses]
        /\ nextTcp \in Sockets /\ sessions \in 0 .. MaxSessions
        /\ calling \in Clients \union {NoClient}
    BY Ranges DEF Init, Joined
  <2>6. QED
    BY <2>1, <2>2, <2>3, <2>4, <2>5 DEF Types
<1>4. /\ ~cl[c].connected /\ cl[c].head = 0 /\ cl[c].tail = 0 /\ ~cl[c].full
      /\ \A s \in Sockets : sk[s] = ClosedSocket /\ ~sk[s].used
      /\ xfer = NoXfer
  BY DEF Init, NewClient, ClosedSocket
<1>5. ~Open(c)
  BY <1>4 DEF Open
<1>6. SocketInv(c)
  BY <1>4, <1>5 DEF SocketInv
<1>7. \A x \in Sessions : fw[x] = NoConnection /\ fw[x].state = "none"
  BY DEF Init, NoConnection
<1>8. ToCome
  BY <1>2, <1>7 DEF ToCome, Unborn
<1>9. WantedInv(c)
  BY <1>2, <1>7 DEF WantedInv, Wanted, Answered
<1>10. AnswerInv(c) /\ CurrentInv(c) /\ EarlierInv(c) /\ RecvInv(c)
  BY <1>2, <1>4, <1>5, <1>7 DEF AnswerInv, CurrentInv, EarlierInv, RecvInv
<1>11. QED
  BY <1>3, <1>6, <1>8, <1>9, <1>10 DEF Base, ConnectInv

LEMMA ResetKeeps ==
    ASSUME NEW c, Clients = {c}
    PROVE  Reset => Base(c)'
<1>1. Init => Base(c)
  BY InitBase
<1>2. Reset => Init'
  BY DEF Reset, Init
<1>3. QED
  BY <1>1, <1>2, PTL

\* One client, a firmware that answers in time, and no paused transfer that a
\* stop() may cut: what the sketches of the repository come to.
Alone(c) == Clients = {c} /\ ~SlowConnect /\ (FlushFirst \/ Whole)

LEMMA CallsKeep ==
    ASSUME NEW c, Alone(c), Base(c), Calls(c)
    PROVE  Base(c)'
<1> USE DEF Alone
<1>1. CASE ~connected(c) /\ StartConnect(c)
  BY <1>1, StartConnectKeeps
<1>2. CASE ~connected(c) /\ NoSocketFree(c)
  <2>1. Types /\ SocketInv(c)
    BY DEF Base
  <2>2. QED
    BY <1>2, <2>1, NoSocketFreeNever
<1>3. CASE Read(c)
  BY <1>3, ReadKeeps
<1>4. CASE (FlushFirst => Flushed(c)) /\ Stop(c)
  BY <1>4, StopKeeps
<1>5. QED
  BY <1>1, <1>2, <1>3, <1>4 DEF Calls

LEMMA Unchanged ==
    ASSUME NEW c, Base(c), UNCHANGED vars
    PROVE  Base(c)'
<1>1. /\ UNCHANGED <<cl, sk, reg, holders, nextTcp, sessions, xfer, calling, got>>
      /\ UNCHANGED <<requests, replies, fw, network>>
  BY DEF vars
<1>2. Types' /\ SocketInv(c)'
  BY <1>1 DEF Base, Types, SocketInv, Open, Place
<1>3. ToCome' /\ WantedInv(c)' /\ AnswerInv(c)' /\ CurrentInv(c)'
  BY <1>1 DEF Base, ConnectInv, ToCome, Unborn, WantedInv, Wanted, Answered,
              AnswerInv, CurrentInv, Open
<1>4. EarlierInv(c)' /\ RecvInv(c)'
  BY <1>1 DEF Base, EarlierInv, RecvInv, Open, Place
<1>5. QED
  BY <1>2, <1>3, <1>4 DEF Base, ConnectInv

LEMMA NextKeeps ==
    ASSUME NEW c, Alone(c), Base(c), [Next]_vars
    PROVE  Base(c)'
<1>1. Clients = {c}
  BY DEF Alone
<1>2. CASE UNCHANGED vars
  BY <1>2, Unchanged
<1>3. CASE \E x \in Clients : Calls(x)
  BY <1>1, <1>3, CallsKeep
<1>4. CASE Connecting
  BY <1>1, <1>4, ConnectReturnsKeeps, ConnectTimeoutKeeps DEF Connecting, Alone
<1>5. CASE Handling
  BY <1>1, <1>5, PumpKeeps, PumpChunkKeeps DEF Handling
<1>6. CASE Firmware
  BY <1>1, <1>6, FwRequestKeeps, FwConnectsKeeps, FwDataKeeps, FwEofKeeps DEF Firmware
<1>7. CASE LoseNetwork \/ Rejoin
  BY <1>1, <1>7, LoseNetworkKeeps, RejoinKeeps
<1>8. CASE Reset
  BY <1>1, <1>8, ResetKeeps
<1>9. QED
  BY <1>2, <1>3, <1>4, <1>5, <1>6, <1>7, <1>8 DEF Next

\* The pump leaves connect() waiting, and a client without a socket without one.
LEMMA HandlingHas ==
    ASSUME NEW c, Clients = {c}, Base(c), Handling
    PROVE  /\ calling' = calling
           /\ cl'[c].socket = cl[c].socket \/ cl'[c].socket = NoSocket
<1>1. /\ cl \in [Clients -> Client] /\ c \in Clients /\ c # NoClient
      /\ reg \in [Sockets -> Clients \union {NoClient}]
  BY DEF Base, Types
<1>2. ASSUME NEW d, NEW b \in BOOLEAN PROVE [cl EXCEPT ![d].connected = b][c].socket = cl[c].socket
  BY <1>1 DEF Client
<1>3. ASSUME NEW s, NEW so, NEW bytes, OnData(s, so, bytes)
      PROVE  cl'[c].socket = cl[c].socket
  BY <1>1, <1>3 DEF OnData, Client
<1>4. CASE Pump
  <2>1. PICK e \in Messages :
             /\ UNCHANGED calling
             /\ \/ e.kind = "connected" /\ OnConnected(e.sock)
                \/ e.kind = "refused"   /\ OnConnectFailed(e.sock)
                \/ e.kind = "received"  /\ OnReceived(e)
                \/ e.kind = "disconnected" /\ OnDisconnected
    BY <1>4, PumpHas
  <2>2. CASE OnConnected(e.sock) \/ OnConnectFailed(e.sock) \/ OnEof(e.sock)
    BY <1>2, <2>1, <2>2 DEF OnConnected, OnConnectFailed, OnEof
  <2>3. CASE OnReceived(e)
    BY <1>3, <2>1, <2>2, <2>3 DEF OnReceived
  <2>4. CASE OnDisconnected
    BY <2>1, <2>4, LostHas, StopsOwn DEF Base
  <2>5. QED
    BY <2>1, <2>2, <2>3, <2>4
<1>5. CASE PumpChunk
  <2>1. OnData(xfer.sock, sk[xfer.sock], xfer.rest) /\ UNCHANGED calling
    BY <1>5 DEF PumpChunk
  <2>2. \A s, so, bytes : OnData(s, so, bytes) => cl'[c].socket = cl[c].socket
    BY <1>3
  <2>3. QED
    BY <2>1, <2>2
<1>6. QED
  BY <1>4, <1>5 DEF Handling

LEMMA BaseAlways ==
    ASSUME NEW c, Alone(c)
    PROVE  Spec => []Base(c)
<1>1. Init => Base(c)
  BY InitBase DEF Alone
<1>2. Base(c) /\ [Next]_vars => Base(c)'
  BY NextKeeps
<1>3. QED
  BY <1>1, <1>2, PTL DEF Spec

----------------------------------------------------------------------------
(* What follows of it *)

\* For a single client, every state is well typed.
THEOREM TypeCorrect ==
    ASSUME NEW c, Alone(c)
    PROVE  Spec => []TypeOK
<1>1. Base(c) => TypeOK
  <2> SUFFICES ASSUME Types PROVE TypeOK
    BY DEF Base
  <2>1. /\ cl \in [Clients -> Client] /\ sk \in [Sockets -> Entry]
        /\ fw \in [Sessions -> Connection]
    BY DEF Types
  <2>2. replies \in Seq(Replies)
    <3>1. Messages \subseteq Replies
      BY DEF Messages
    <3>2. replies \in Seq(Messages)
      BY DEF Types
    <3>3. replies \in [1 .. Len(replies) -> Replies] /\ Len(replies) \in Nat
      BY <3>1, <3>2, LenProperties
    <3>4. QED
      BY <3>3, SeqDef
  <2>3. xfer.sock \in Sockets \union {NoSocket} /\ xfer.rest \in Seq(Bytes)
    BY DEF Types
  <2>4. /\ reg \in [Sockets -> Clients \union {NoClient}]
        /\ holders \in [Sockets -> Clients \union {NoClient}]
        /\ network \in [up : BOOLEAN, losses : 0 .. MaxLosses]
        /\ nextTcp \in Sockets /\ sessions \in 0 .. MaxSessions
        /\ calling \in Clients \union {NoClient} /\ requests \in Seq(Requests)
        /\ got \in [Clients -> Seq(Bytes \union {NoByte})]
    BY DEF Types
  <2>5. QED
    BY <2>1, <2>2, <2>3, <2>4 DEF TypeOK, Client, Entry, Connection
<1>2. Spec => []Base(c)
  BY BaseAlways
<1>3. QED
  BY <1>1, <1>2, PTL

\* For a single client, connect() returns 1, and connected() is true, only of
\* a connection that the firmware has opened on the socket the client holds.
THEOREM ConnectedCorrect ==
    ASSUME NEW c, Alone(c)
    PROVE  Spec => []ConnectedIsReal
<1>1. Base(c) => ConnectedIsReal
  <2> SUFFICES ASSUME Base(c), cl[c].connected
      PROVE  /\ cl[c].socket # NoSocket /\ sk[cl[c].socket].used
             /\ fw[sk[cl[c].socket].session].opened
    BY DEF ConnectedIsReal, Alone
  <2>1. Open(c) /\ sk[cl[c].socket].session = sessions
    BY DEF Base, SocketInv, Open
  <2>2. fw[sessions].opened
    BY DEF Base, ConnectInv, CurrentInv
  <2>3. QED
    BY <2>1, <2>2, Ranges DEF Open
<1>2. Spec => []Base(c)
  BY BaseAlways
<1>3. QED
  BY <1>1, <1>2, PTL

\* For a single client, no reply reaches the callback of socket_buffer.c with
\* a null pointer registered for its socket, even after stop().
THEOREM HandlerCorrect ==
    ASSUME NEW c, Alone(c)
    PROVE  Spec => []HandlerRegistered
<1>1. Base(c) => HandlerRegistered
  <2> SUFFICES ASSUME Base(c), replies # <<>> PROVE CallbackSafe(Head(replies))
    BY DEF HandlerRegistered
  <2> DEFINE e == Head(replies)
  <2>0. c # NoClient /\ c \in Clients
    BY DEF Alone
  <2>1. e \in Messages /\ \A S : None(replies, S) => e \notin S
    BY NoneTail DEF Base, Types
  <2> HIDE DEF e
  <2>2. ASSUME e.kind = "connected" PROVE reg[e.sock] # NoClient
    <3>1. Open(c)
      BY <2>1, <2>2 DEF Base, ConnectInv, AnswerInv, Connecteds
    <3>2. e.session \in Sessions /\ e.sock \in Sockets
      BY <2>1, <2>2 DEF Messages
    <3>3. Answered(e.session)
      BY <2>1, <2>2, <3>2 DEF Answered, Answers
    <3>4. e.session = sessions
      BY <3>2, <3>3 DEF Base, ConnectInv, WantedInv
    <3>5. e.sock = cl[c].socket
      BY <2>1, <2>2, <3>1, <3>4 DEF Base, ConnectInv, CurrentInv, Elsewhere, About
    <3>6. QED
      BY <2>0, <3>1, <3>5 DEF Base, SocketInv, Open
  <2>3. ASSUME e.kind = "received", e.session = sk[e.sock].session
        PROVE  reg[e.sock] # NoClient
    <3>1. e.session \in Sessions /\ e.sock \in Sockets
      BY <2>1, <2>3 DEF Messages
    <3>2. sk[e.sock].session # 0
      BY <2>3, <3>1, Ranges
    <3>3. sk[e.sock].used
      BY <3>1, <3>2 DEF Base, SocketInv, ClosedSocket
    <3>4. QED
      BY <2>0, <3>1, <3>3 DEF Base, SocketInv
  <2>4. QED
    BY <2>2, <2>3 DEF CallbackSafe, e
<1>2. Spec => []Base(c)
  BY BaseAlways
<1>3. QED
  BY <1>1, <1>2, PTL

\* For a single client, a paused transfer keeps a socket to be finished on:
\* the pump is never stuck behind it.
THEOREM PumpCorrect ==
    ASSUME NEW c, Alone(c)
    PROVE  Spec => []PumpAlive
<1>1. Base(c) => PumpAlive
  BY DEF Base, SocketInv, Open, PumpAlive
<1>2. Spec => []Base(c)
  BY BaseAlways
<1>3. QED
  BY <1>1, <1>2, PTL

\* For a single client, connect() always finds a socket free: whatever came of
\* the connections before, theirs have been closed.
THEOREM SocketCorrect ==
    ASSUME NEW c, Alone(c)
    PROVE  Spec => [](~connected(c) /\ calling = NoClient => \E s \in Sockets : ~sk[s].used)
<1>1. Base(c) => (~connected(c) /\ calling = NoClient => \E s \in Sockets : ~sk[s].used)
  <2> SUFFICES ASSUME Base(c), ~connected(c), calling = NoClient
      PROVE  \E s \in Sockets : ~sk[s].used
    OBVIOUS
  <2>1. ~Open(c)
    BY DEF Base, SocketInv, connected, Alone
  <2>2. QED
    BY <2>1, Ranges DEF Base, SocketInv, Open
<1>2. Spec => []Base(c)
  BY BaseAlways
<1>3. QED
  BY <1>1, <1>2, PTL

\* How many messages of a queue are in a set of which there is at most one.
LEMMA CountOne ==
    ASSUME NEW q, NEW S, AtMostOne(q, S)
    PROVE  Cardinality({i \in DOMAIN q : q[i] \in S}) = IF None(q, S) THEN 0 ELSE 1
<1> DEFINE I == {i \in DOMAIN q : q[i] \in S}
<1>1. CASE None(q, S)
  <2>1. I = {}
    BY <1>1 DEF None
  <2>2. QED
    BY <1>1, <2>1, FS_EmptySet
<1>2. CASE ~None(q, S)
  <2>1. PICK i \in DOMAIN q : q[i] \in S
    BY <1>2 DEF None
  <2>2. I = {i}
    BY <2>1 DEF AtMostOne
  <2>3. QED
    BY <1>2, <2>2, FS_Singleton
<1>3. QED
  BY <1>1, <1>2

\* For a single client, one receive request of a session is under way while
\* the socket says so and none while it does not, whatever replies of earlier
\* sessions are still handled on the same socket.
THEOREM RecvCorrect ==
    ASSUME NEW c, Alone(c)
    PROVE  Spec => []OneRecv
<1>1. Base(c) => OneRecv
  <2> SUFFICES ASSUME Base(c), NEW s \in Sockets, sk[s].used, fw[sk[s].session].state # "lost"
      PROVE  Underway(s) = IF sk[s].pending THEN 1 ELSE 0
    BY DEF OneRecv
  <2>1. /\ s = cl[c].socket /\ Open(c) /\ Place(c) = sk[s]
        /\ sk[s].session = sessions /\ sessions \in Sessions
    BY DEF Base, SocketInv, Open, Place, Types, Sessions
  <2>2. /\ requests \in Seq(Requests) /\ replies \in Seq(Messages)
        /\ fw[sessions] \in Connection /\ sk[s] \in Entry
    BY <2>1 DEF Base, Types
  <2> DEFINE asked    == None(requests, Asks("recv", sessions))
             answered == None(replies, Received(sessions))
             Sent == {i \in DOMAIN requests :
                        /\ requests[i].kind = "recv"
                        /\ requests[i].sock = s /\ requests[i].session = sk[s].session}
             Came == {i \in DOMAIN replies :
                        /\ replies[i].kind = "received"
                        /\ replies[i].sock = s /\ replies[i].session = sk[s].session}
  <2>3. Sent = {i \in DOMAIN requests : requests[i] \in Asks("recv", sessions)}
    <3>1. \A i \in DOMAIN requests : requests[i] \in Requests
      BY <2>2, LenProperties
    <3>2. None(requests, AsksElsewhere(sessions, s))
      BY <2>1 DEF Base, ConnectInv, CurrentInv
    <3>3. QED
      BY <2>1, <3>1, <3>2 DEF Asks, None, AsksElsewhere
  <2>4. Came = {i \in DOMAIN replies : replies[i] \in Received(sessions)}
    <3>1. \A i \in DOMAIN replies : replies[i] \in Messages
      BY <2>2, LenProperties
    <3>2. None(replies, Elsewhere(sessions, s))
      BY <2>1 DEF Base, ConnectInv, CurrentInv
    <3>3. QED
      BY <2>1, <3>1, <3>2 DEF Received, None, Elsewhere, About
  <2>5. /\ AtMostOne(requests, Asks("recv", sessions))
        /\ AtMostOne(replies, Received(sessions))
    BY <2>1 DEF Base, RecvInv
  <2>6. /\ Cardinality(Sent) = IF asked THEN 0 ELSE 1
        /\ Cardinality(Came) = IF answered THEN 0 ELSE 1
    BY <2>3, <2>4, <2>5, CountOne
  <2>7. Underway(s) = Cardinality(Sent) + Cardinality(Came)
                      + IF fw[sk[s].session].wants THEN 1 ELSE 0
    BY DEF Underway
  <2>8. fw[sk[s].session].wants = fw[sessions].wants
    BY <2>1
  <2> HIDE DEF Sent, Came
  <2>9. /\ ~Place(c).pending => asked /\ answered /\ ~fw[sessions].wants
        /\ ~asked => answered /\ ~fw[sessions].wants
        /\ ~answered => ~fw[sessions].wants
        /\ Place(c).pending => ~asked \/ ~answered \/ fw[sessions].wants
    BY <2>1 DEF Base, RecvInv
  <2> HIDE DEF asked, answered
  <2>10. QED
    BY <2>1, <2>6, <2>7, <2>8, <2>9
<1>2. Spec => []Base(c)
  BY BaseAlways
<1>3. QED
  BY <1>1, <1>2, PTL

\* No queue is the rest of itself, nor is a longer one.
LEMMA TailShortens ==
    ASSUME NEW T, NEW q \in Seq(T), q # <<>>
    PROVE  Tail(q) # q /\ \A e : Tail(q) # Append(q, e)
<1>1. Len(q) \in Nat \ {0} /\ Len(Tail(q)) = Len(q) - 1
  BY EmptySeq, LenProperties, HeadTailProperties
<1>2. ASSUME NEW e PROVE Len(Append(q, e)) = Len(q) + 1
  <2>1. q \in [1 .. Len(q) -> T]
    BY LenProperties
  <2>2. q \in [1 .. Len(q) -> T \union {e}]
    BY <2>1
  <2>3. q \in Seq(T \union {e})
    BY <1>1, <2>2, SeqDef
  <2>4. e \in T \union {e}
    OBVIOUS
  <2>5. QED
    BY <2>3, <2>4, AppendProperties
<1>3. ASSUME NEW e PROVE Tail(q) # Append(q, e)
  <2> DEFINE r == Tail(q)
             a == Append(q, e)
  <2>1. Len(a) = Len(q) + 1 /\ Len(r) = Len(q) - 1
    BY <1>1, <1>2
  <2> HIDE DEF r, a
  <2>2. r # a
    BY <1>1, <2>1
  <2>3. QED
    BY <2>2 DEF r, a
<1>4. Tail(q) # q
  <2> DEFINE r == Tail(q)
  <2>1. Len(r) = Len(q) - 1
    BY <1>1
  <2> HIDE DEF r
  <2>2. r # q
    BY <1>1, <2>1
  <2>3. QED
    BY <2>2 DEF r
<1>5. QED
  BY <1>3, <1>4, Zenon

\* What a step that is told of a loss does.
LossClosed ==
    replies # <<>> /\ Head(replies).kind = "disconnected" /\ replies' = Tail(replies) =>
        \A c \in Clients \ {calling} :
            /\ ~cl'[c].connected
            /\ cl[c].connected => ~sk'[cl[c].socket].used

\* For a single client, a loss of the network that the library is told of
\* closes it, unless connect() has not returned yet.
THEOREM LossCorrect ==
    ASSUME NEW k, Alone(k)
    PROVE  Spec => LossClosesClients
<1>1. Base(k) /\ [Next]_vars => [LossClosed]_vars
  <2> DEFINE lost == replies # <<>> /\ Head(replies).kind = "disconnected"
                     /\ replies' = Tail(replies)
  <2> SUFFICES ASSUME Base(k), Next, lost, k # calling
      PROVE  ~cl'[k].connected /\ (cl[k].connected => ~sk'[cl[k].socket].used)
    BY DEF Alone, LossClosed
  <2>0. Clients = {k} /\ replies \in Seq(Messages) /\ calling = NoClient
    BY DEF Alone, Base, Types
  <2>1. replies' # replies
    BY <2>0, TailShortens
  <2>2. \A e : replies' # Append(replies, e)
    BY <2>0, TailShortens
  <2>3. CASE Reset
    <3>1. ~cl'[k].connected /\ \A s \in Sockets : ~sk'[s].used
      BY <2>0, <2>3 DEF Reset, NewClient, ClosedSocket
    <3>2. cl[k].connected => cl[k].socket \in Sockets
      BY DEF Base, SocketInv, Open
    <3>3. QED
      BY <3>1, <3>2
  <2>4. CASE Pump
    <3>1. OnDisconnected
      BY <2>4 DEF Pump
    <3>2. CASE cl[k].socket # NoSocket /\ Stopped({k})
      <4>1. ~cl'[k].connected /\ \A s \in Sockets : sk'[s] = ClosedSocket
        BY <2>0, <3>2, StopsOwn DEF Base
      <4>2. cl[k].connected => cl[k].socket \in Sockets
        BY DEF Base, SocketInv, Open
      <4>3. QED
        BY <4>1, <4>2 DEF ClosedSocket
    <3>3. CASE ~(cl[k].connected /\ calling = NoClient) /\ UNCHANGED <<cl, sk, reg, requests>>
      BY <2>0, <3>3
    <3>4. QED
      BY <2>0, <3>1, <3>2, <3>3, LostHas
  <2>5. CASE \E x \in Sessions : FwConnects(x) \/ FwData(x) \/ FwEof(x)
    <3>1. PICK x \in Sessions : FwConnects(x) \/ FwData(x) \/ FwEof(x)
      BY <2>5
    <3>2. \E kind, state, bytes : FwReplies(x, kind, state, bytes)
      BY <3>1 DEF FwConnects, FwData, FwEof
    <3>3. QED
      BY <2>2, <3>2 DEF FwReplies
  <2>6. CASE LoseNetwork
    BY <2>2, <2>6 DEF LoseNetwork
  <2>7. ASSUME ~Reset, ~Pump, ~LoseNetwork,
               ~\E x \in Sessions : FwConnects(x) \/ FwData(x) \/ FwEof(x)
        PROVE  replies' = replies
    BY <2>7 DEF Next, Calls, StartConnect, NoSocketFree, Read, Stop, Connecting,
                ConnectReturns, ConnectTimeout, Handling, PumpChunk, Firmware, FwRequest,
                Rejoin
  <2>8. QED
    BY <2>1, <2>3, <2>4, <2>5, <2>6, <2>7
<1>2. Spec => []Base(k)
  BY BaseAlways
<1>3. Spec => [][LossClosed]_vars
  BY <1>1, <1>2, PTL DEF Spec
<1>4. QED
  BY <1>3 DEF LossClosed, LossClosesClients

----------------------------------------------------------------------------
(* The stream a client reads, where a reply always fits in what recv() asks *)
(* for (Whole): on top of Base, where each byte of a connection is between  *)
(* the peer and the sketch.                                                 *)

\* The bytes of the connection that the client has read or may read.
Come(c) == Len(got[c]) + (cl[c].head - cl[c].tail)

\* Replies that do not bring the last bytes sent, right behind those come.
Misplaced(x, come, sent) ==
    {e \in Received(x) :
        ~(/\ sent = come + Len(e.bytes)
          /\ \A i \in DOMAIN e.bytes : e.bytes[i] = <<x, come + i>>)}

\* A recv() under way will write behind the unread bytes, and has the room.
RoomInv(c) ==
    /\ ~cl[c].full
    /\ Open(c) /\ Place(c).pending =>
         /\ Place(c).buf = c /\ Place(c).off = cl[c].head
         /\ cl[c].head + MTU <= TCP_SIZE

\* What has been read and what can be is the beginning of the stream.
BytesInv(c) ==
    /\ \A i \in DOMAIN got[c] : got[c][i] = <<sessions, i>>
    /\ cl[c].socket # NoSocket =>
         /\ sessions # 0
         /\ \A k \in Places : cl[c].tail <= k /\ k < cl[c].head =>
              cl[c].data[k] = <<sessions, Len(got[c]) + 1 + k - cl[c].tail>>

\* What has been sent has come, or comes with the one reply on its way.
SentInv(c) ==
    /\ Open(c) => None(replies, Misplaced(sessions, Come(c), fw[sessions].sent))
    /\ Open(c) /\ fw[sessions].state # "closed" => None(replies, Eofs(sessions))
    /\ cl[c].socket # NoSocket /\ (Open(c) => None(replies, Received(sessions))) =>
         fw[sessions].sent = Come(c)
    /\ cl[c].socket # NoSocket /\ ~Open(c) => fw[sessions].state \in {"closed", "lost"}

StreamInv(c) == RoomInv(c) /\ BytesInv(c) /\ SentInv(c)

----------------------------------------------------------------------------
(* What the invariant of the client says of the stream *)

LEMMA ClientHas ==
    ASSUME NEW c, Clients = {c}, Base(c)
    PROVE  /\ cl \in [Clients -> Client] /\ sk \in [Sockets -> Entry]
           /\ got[c] \in Seq(Bytes \union {NoByte}) /\ Len(got[c]) \in Nat
           /\ DOMAIN got[c] = 1 .. Len(got[c])
           /\ cl[c].head \in Nat /\ cl[c].tail \in Nat /\ cl[c].head <= TCP_SIZE
           /\ cl[c].tail <= cl[c].head
           /\ sessions \in Nat /\ requests \in Seq(Requests) /\ replies \in Seq(Messages)
           /\ c \in Clients
<1>1. /\ cl \in [Clients -> Client] /\ sk \in [Sockets -> Entry] /\ c \in Clients
      /\ got \in [Clients -> Seq(Bytes \union {NoByte})] /\ sessions \in Nat
      /\ requests \in Seq(Requests) /\ replies \in Seq(Messages)
  BY DEF Base, Types
<1>2. Len(got[c]) \in Nat /\ DOMAIN got[c] = 1 .. Len(got[c])
  BY <1>1, LenProperties
<1>3. cl[c].head \in 0 .. TCP_SIZE /\ cl[c].tail \in 0 .. TCP_SIZE
  BY <1>1 DEF Client
<1>4. cl[c].tail < cl[c].head \/ (cl[c].head = 0 /\ cl[c].tail = 0)
  BY DEF Base, SocketInv
<1>5. QED
  BY <1>1, <1>2, <1>3, <1>4

\* A reply of the session comes only to a client that is connected: no
\* connection is asked for in this session any more.
LEMMA ReplyMeansConnected ==
    ASSUME NEW c, Clients = {c}, Base(c), Open(c), ~None(replies, Received(sessions))
    PROVE  Place(c).pending /\ cl[c].connected /\ \A x \in Sessions : ~Wanted(x)
<1>1. Place(c).pending
  BY DEF Base, RecvInv
<1>2. cl[c].connected
  BY <1>1 DEF Base, SocketInv
<1>3. QED
  BY <1>1, <1>2 DEF Base, ConnectInv, WantedInv

\* Sets of replies of the session: what holds of the queue without its head.
LEMMA TailOf ==
    ASSUME replies \in Seq(Messages), replies # <<>>, replies' = Tail(replies)
    PROVE  \A S : None(replies, S) <=> None(replies', S) /\ Head(replies) \notin S
  BY NoneTail

\* Received(x) less what is wrong is in it, and its end of stream too.
LEMMA InReceivedOf ==
    \A x, m, n : Misplaced(x, m, n) \subseteq Received(x) /\ Eofs(x) \subseteq Received(x)
  BY DEF Misplaced, Eofs

----------------------------------------------------------------------------
(* Steps that leave the client as it is *)

LEMMA SameClient ==
    ASSUME NEW c, RoomInv(c), BytesInv(c),
           UNCHANGED <<cl, sessions, got>>, Open(c)' = Open(c), Place(c)' = Place(c)
    PROVE  RoomInv(c)' /\ BytesInv(c)' /\ Come(c)' = Come(c)
<1>1. Come(c)' = Come(c)
  BY DEF Come
<1>2. RoomInv(c)'
  BY DEF RoomInv
<1>3. BytesInv(c)'
  BY DEF BytesInv
<1>4. QED
  BY <1>1, <1>2, <1>3

\* The firmware does something else than send.
LEMMA NothingSent ==
    ASSUME NEW c, StreamInv(c), UNCHANGED <<cl, sk, sessions, got>>,
           \A S : S \subseteq Received(sessions) => (None(replies', S) <=> None(replies, S)),
           cl[c].socket # NoSocket =>
             /\ fw'[sessions].sent = fw[sessions].sent
             /\ Open(c) /\ ~None(replies, Received(sessions)) /\ fw[sessions].state = "closed" =>
                  fw'[sessions].state = "closed"
             /\ ~Open(c) => fw'[sessions].state \in {"closed", "lost"}
    PROVE  StreamInv(c)'
<1>1. Open(c)' = Open(c) /\ Place(c)' = Place(c)
  BY DEF Open, Place
<1>2. RoomInv(c)' /\ BytesInv(c)' /\ Come(c)' = Come(c)
  BY <1>1, SameClient DEF StreamInv
<1>3. Open(c) => cl[c].socket # NoSocket
  BY Ranges DEF Open
<1>4. /\ None(replies', Received(sessions)) <=> None(replies, Received(sessions))
      /\ None(replies', Eofs(sessions)) <=> None(replies, Eofs(sessions))
      /\ \A m, n : None(replies', Misplaced(sessions, m, n))
                     <=> None(replies, Misplaced(sessions, m, n))
  BY InReceivedOf
<1>5. None(replies, Received(sessions)) => None(replies, Eofs(sessions))
  BY InReceivedOf, NoneSubset
<1>6. SentInv(c)'
  BY <1>1, <1>2, <1>3, <1>4, <1>5 DEF StreamInv, SentInv
<1>7. QED
  BY <1>2, <1>6 DEF StreamInv

----------------------------------------------------------------------------
(* The firmware *)

\* What a message more says of the queue.
LEMMA AppendOf ==
    ASSUME replies \in Seq(Messages), NEW e \in Messages, replies' = Append(replies, e)
    PROVE  \A S : None(replies', S) <=> None(replies, S) /\ e \notin S
  BY NoneAppend

\* The firmware works at a request.
LEMMA FwRequestStream ==
    ASSUME NEW c, Clients = {c}, Base(c), StreamInv(c), FwRequest
    PROVE  StreamInv(c)'
<1>1. PICK k \in {"connect", "recv", "close"}, s \in Sockets, x \in Sessions :
             /\ Head(requests) = Ask(k, s, x) /\ FewerAsked(k, s, x)
             /\ fw' = [fw EXCEPT ![x] =
                  CASE k = "connect" -> [@ EXCEPT !.state = "connecting", !.sock = s]
                    [] k = "recv"  -> [@ EXCEPT !.wants = fw[x].state = "open"]
                    [] k = "close" -> [@ EXCEPT !.state = "closed"]]
             /\ UNCHANGED <<host, replies, network>>
  BY FwRequestDoes DEF Base, Types
<1>2. UNCHANGED <<cl, sk, sessions, got, replies>>
  BY <1>1 DEF host
<1>3. fw \in [Sessions -> Connection]
  BY DEF Base, Types
<1>4. k = "connect" => Wanted(x)
  <2>1. None(requests, Asks("connect", x)) => ~(k = "connect")
    BY <1>1 DEF FewerAsked
  <2>2. QED
    BY <2>1 DEF Wanted
<1>5. /\ k # "connect" => (fw[x].state \in {"closed", "lost"} =>
                              fw'[x].state \in {"closed", fw[x].state})
      /\ fw'[x].sent = fw[x].sent
      /\ \A z \in Sessions : z # x => fw'[z] = fw[z]
  <2>1. fw[x] \in Connection
    BY <1>3
  <2>2. CASE k = "connect"
    <3>1. fw' = [fw EXCEPT ![x] = [fw[x] EXCEPT !.state = "connecting", !.sock = s]]
      BY <1>1, <2>2
    <3>2. QED
      BY <1>1, <1>3, <2>1, <2>2, <3>1 DEF Connection
  <2>3. CASE k = "recv"
    <3>1. fw' = [fw EXCEPT ![x] = [fw[x] EXCEPT !.wants = fw[x].state = "open"]]
      BY <1>1, <2>3
    <3>2. QED
      BY <1>1, <1>3, <2>1, <2>3, <3>1 DEF Connection
  <2>4. CASE k = "close"
    <3>1. fw' = [fw EXCEPT ![x] = [fw[x] EXCEPT !.state = "closed"]]
      BY <1>1, <2>4
    <3>2. QED
      BY <1>1, <1>3, <2>1, <2>4, <3>1 DEF Connection
  <2>5. QED
    BY <2>2, <2>3, <2>4
<1>6. cl[c].socket # NoSocket => sessions \in Sessions
  BY ClientHas DEF StreamInv, BytesInv, Base, Types, Sessions
<1>7. ASSUME cl[c].socket # NoSocket, k = "connect", x = sessions
      PROVE  Open(c) /\ None(replies, Received(sessions))
  <2>1. Open(c)
    BY <1>4, <1>7 DEF Base, ConnectInv, WantedInv
  <2>2. QED
    BY <1>4, <1>7, <2>1, ReplyMeansConnected
<1>8. cl[c].socket # NoSocket =>
        /\ fw'[sessions].sent = fw[sessions].sent
        /\ Open(c) /\ ~None(replies, Received(sessions)) /\ fw[sessions].state = "closed" =>
             fw'[sessions].state = "closed"
        /\ ~Open(c) => fw'[sessions].state \in {"closed", "lost"}
  <2> SUFFICES ASSUME cl[c].socket # NoSocket
      PROVE  /\ fw'[sessions].sent = fw[sessions].sent
             /\ Open(c) /\ ~None(replies, Received(sessions)) /\ fw[sessions].state = "closed" =>
                  fw'[sessions].state = "closed"
             /\ ~Open(c) => fw'[sessions].state \in {"closed", "lost"}
    OBVIOUS
  <2>1. ~Open(c) => fw[sessions].state \in {"closed", "lost"}
    BY DEF StreamInv, SentInv
  <2>2. QED
    BY <1>5, <1>6, <1>7, <2>1
<1>9. QED
  BY <1>2, <1>8, NothingSent

\* The firmware answers a connect request.
LEMMA FwConnectsStream ==
    ASSUME NEW c, Clients = {c}, Base(c), StreamInv(c), NEW x \in Sessions, FwConnects(x)
    PROVE  StreamInv(c)'
<1>1. PICK kind \in {"connected", "refused"}, state \in {"open", "closed"} :
        FwReplies(x, kind, state, <<>>)
  BY DEF FwConnects
<1>2. fw[x].state = "connecting" /\ Wanted(x)
  BY DEF FwConnects, Wanted
<1>3. x = sessions /\ ~cl[c].connected /\ (Open(c) \/ cl[c].socket = NoSocket)
  BY <1>2 DEF Base, ConnectInv, WantedInv
<1>4. <<>> \in Seq(Bytes) /\ Len(<<>>) = 0 /\ fw[x].sent + 0 = fw[x].sent
      /\ fw[x].sent <= StreamLength
  BY EmptySeq DEF Base, Types, Connection
<1> DEFINE e == Message(kind, x, <<>>)
<1>5. /\ e \in Messages /\ fw' = [fw EXCEPT ![x] =
                [fw[x] EXCEPT !.state = state, !.wants = FALSE,
                              !.opened = fw[x].opened \/ state = "open",
                              !.sent = fw[x].sent + Len(<<>>)]]
      /\ replies' = Append(replies, e) /\ UNCHANGED <<host, requests, network>>
  <2>1. Types /\ fw[x].sent + Len(<<>>) <= StreamLength
    BY <1>4 DEF Base
  <2>2. e \in Messages
    BY <1>1, <1>2, <1>4, <2>1, RepliesDo
  <2>3. QED
    BY <1>1, <2>2 DEF FwReplies, Message
<1>6. fw'[x].sent = fw[x].sent
  <2>1. fw \in [Sessions -> Connection]
    BY DEF Base, Types
  <2>2. QED
    BY <1>4, <1>5, <2>1 DEF Connection
<1>7. e \notin Received(sessions)
  BY DEF Received, Message
<1> HIDE DEF e
<1>8. \A S : S \subseteq Received(sessions) => (None(replies', S) <=> None(replies, S))
  BY <1>5, <1>7, AppendOf DEF Base, Types
<1>9. Open(c) => None(replies, Received(sessions))
  BY <1>3, ReplyMeansConnected
<1>10. UNCHANGED <<cl, sk, sessions, got>>
  BY <1>5 DEF host
<1>11. QED
  BY <1>3, <1>6, <1>8, <1>9, <1>10, NothingSent

\* The network is lost.
LEMMA LoseNetworkStream ==
    ASSUME NEW c, Clients = {c}, Base(c), StreamInv(c), LoseNetwork
    PROVE  StreamInv(c)'
<1> DEFINE e == [kind |-> "disconnected", sock |-> NoSocket, session |-> 0, bytes |-> <<>>]
<1>1. /\ replies' = Append(replies, e) /\ UNCHANGED <<cl, sk, sessions, got>>
      /\ fw' = [x \in Sessions |->
                  IF fw[x].state = "open"
                  THEN [fw[x] EXCEPT !.state = "lost", !.wants = FALSE] ELSE fw[x]]
  BY DEF LoseNetwork, host
<1>2. e \in Messages
  BY EmptySeq DEF Messages, Replies
<1>3. e \notin Received(sessions)
  BY DEF Received
<1> HIDE DEF e
<1>4. \A S : S \subseteq Received(sessions) => (None(replies', S) <=> None(replies, S))
  BY <1>1, <1>2, <1>3, AppendOf DEF Base, Types
<1>5. fw \in [Sessions -> Connection]
  BY DEF Base, Types
<1>6. \A x \in Sessions : /\ fw'[x].sent = fw[x].sent
                          /\ fw[x].state # "open" => fw'[x].state = fw[x].state
  BY <1>1, <1>5 DEF Connection
<1>7. cl[c].socket # NoSocket => sessions \in Sessions
  BY ClientHas DEF StreamInv, BytesInv, Base, Types, Sessions
<1>8. cl[c].socket # NoSocket /\ ~Open(c) => fw[sessions].state \in {"closed", "lost"}
  BY DEF StreamInv, SentInv
<1>9. QED
  BY <1>1, <1>4, <1>6, <1>7, <1>8, NothingSent
\* A reply to a receive request: the next bytes of the stream, or its end.
LEMMA FwSendsStream ==
    ASSUME NEW c, Clients = {c}, Base(c), StreamInv(c), NEW x \in Sessions,
           fw[x].state = "open", fw[x].wants, NEW state \in {"open", "closed"},
           NEW bytes \in Seq(Bytes), bytes = <<>> \/ Len(bytes) \in Segments,
           bytes = <<>> => state = "closed", fw[x].sent + Len(bytes) <= StreamLength,
           \A i \in DOMAIN bytes : bytes[i] = <<x, fw[x].sent + i>>,
           FwReplies(x, "received", state, bytes)
    PROVE  StreamInv(c)'
<1> DEFINE e == Message("received", x, bytes)
<1>1. /\ e \in Messages /\ fw'[x].state = state
      /\ \A z \in Sessions : z # x => fw'[z] = fw[z]
      /\ UNCHANGED <<host, requests, network>>
  BY RepliesDo DEF Base
<1>2. /\ fw' = [fw EXCEPT ![x] =
                [fw[x] EXCEPT !.state = state, !.wants = FALSE,
                              !.opened = fw[x].opened \/ state = "open",
                              !.sent = fw[x].sent + Len(bytes)]]
      /\ replies' = Append(replies, e)
  BY DEF FwReplies, Message
<1>3. fw'[x].sent = fw[x].sent + Len(bytes)
  <2>1. fw[x] \in Connection /\ fw \in [Sessions -> Connection]
    BY DEF Base, Types
  <2>2. QED
    BY <1>2, <2>1 DEF Connection
<1>4. e.session = x /\ e.kind = "received" /\ e.bytes = bytes
  BY DEF Message
<1> HIDE DEF e
<1>5. \A S : None(replies', S) <=> None(replies, S) /\ e \notin S
  BY <1>1, <1>2, AppendOf DEF Base, Types
<1>6. UNCHANGED <<cl, sk, sessions, got>> /\ Open(c)' = Open(c) /\ Place(c)' = Place(c)
  BY <1>1 DEF host, Open, Place
<1>7. CASE x # sessions
  <2>1. \A S : S \subseteq Received(sessions) => (None(replies', S) <=> None(replies, S))
    BY <1>4, <1>5, <1>7 DEF Received
  <2>2. cl[c].socket # NoSocket => sessions \in Sessions
    BY ClientHas DEF StreamInv, BytesInv, Base, Types, Sessions
  <2>3. cl[c].socket # NoSocket /\ ~Open(c) => fw[sessions].state \in {"closed", "lost"}
    BY DEF StreamInv, SentInv
  <2>4. QED
    BY <1>1, <1>6, <1>7, <2>1, <2>2, <2>3, NothingSent
<1>8. CASE x = sessions
  <2>1. RoomInv(c)' /\ BytesInv(c)' /\ Come(c)' = Come(c)
    BY <1>6, SameClient DEF StreamInv
  <2>2. cl[c].socket # NoSocket => Open(c)
    BY <1>8 DEF StreamInv, SentInv
  <2>3. Open(c) => None(replies, Received(sessions))
    BY <1>8 DEF Base, RecvInv
  <2>4. Open(c) => None(replies, Eofs(sessions)) /\ fw[sessions].sent = Come(c)
                   /\ \A m, n : None(replies, Misplaced(sessions, m, n))
    BY <2>3, InReceivedOf, NoneSubset, Ranges DEF StreamInv, SentInv, Open
  <2>5. Open(c) => e \notin Misplaced(sessions, Come(c), fw'[sessions].sent)
    <3>1. Open(c) => \A i \in DOMAIN bytes : bytes[i] = <<sessions, Come(c) + i>>
      BY <1>8, <2>4
    <3>2. QED
      BY <1>3, <1>4, <1>8, <2>4, <3>1 DEF Misplaced
  <2>6. fw'[sessions].state # "closed" => e \notin Eofs(sessions)
    BY <1>1, <1>4, <1>8 DEF Eofs
  <2>7. e \in Received(sessions)
    BY <1>1, <1>4, <1>8 DEF Received
  <2>8. SentInv(c)'
    BY <1>5, <1>6, <2>1, <2>2, <2>4, <2>5, <2>6, <2>7 DEF SentInv
  <2>9. QED
    BY <2>1, <2>8 DEF StreamInv
<1>9. QED
  BY <1>7, <1>8

LEMMA FwDataStream ==
    ASSUME NEW c, Clients = {c}, Base(c), StreamInv(c), NEW x \in Sessions, FwData(x)
    PROVE  StreamInv(c)'
<1>1. PICK n \in Segments :
        /\ fw[x].sent + n <= StreamLength
        /\ FwReplies(x, "received", "open", [i \in 1 .. n |-> <<x, fw[x].sent + i>>])
  BY DEF FwData
<1> DEFINE bytes == [i \in 1 .. n |-> <<x, fw[x].sent + i>>]
<1>2. bytes \in Seq(Bytes) /\ Len(bytes) = n
  BY <1>1, SegmentBytes DEF Base
<1>3. \A i \in DOMAIN bytes : bytes[i] = <<x, fw[x].sent + i>>
  OBVIOUS
<1>4. FwReplies(x, "received", "open", bytes)
  BY <1>1
<1> HIDE DEF bytes
<1>5. bytes # <<>>
  <2>1. n # 0 /\ Len(<<>>) = 0
    BY EmptySeq
  <2>2. QED
    BY <1>2, <2>1
<1>6. QED
  BY <1>1, <1>2, <1>3, <1>4, <1>5, FwSendsStream DEF FwData

LEMMA FwEofStream ==
    ASSUME NEW c, Clients = {c}, Base(c), StreamInv(c), NEW x \in Sessions, FwEof(x)
    PROVE  StreamInv(c)'
<1>1. <<>> \in Seq(Bytes) /\ Len(<<>>) = 0 /\ DOMAIN <<>> = {}
  BY EmptySeq, LenProperties
<1>2. fw[x].sent + 0 <= StreamLength
  BY DEF Base, Types, Connection
<1>3. QED
  BY <1>1, <1>2, FwSendsStream DEF FwEof

----------------------------------------------------------------------------
(* The calls of the sketch *)

\* connect() begins a stream.
LEMMA StartConnectStream ==
    ASSUME NEW c, Clients = {c}, Base(c), StartConnect(c), ~connected(c)
    PROVE  StreamInv(c)'
<1>1. PICK s \in Sockets :
             /\ cl' = [cl EXCEPT ![c] = Fresh(c, s)] /\ Fresh(c, s) \in Client
             /\ sk' = [t \in Sockets |->
                          IF t = s THEN [ClosedSocket EXCEPT !.used = TRUE,
                                                             !.session = sessions + 1]
                                   ELSE ClosedSocket]
             /\ reg' = [reg EXCEPT ![s] = c]
             /\ nextTcp' \in Sockets
             /\ requests' = Append(requests, Ask("connect", s, sessions + 1))
             /\ Ask("connect", s, sessions + 1) \in Requests
             /\ sessions + 1 \in Sessions
  BY StartConnectDoes DEF Base
<1>2. /\ cl'[c].socket = s /\ ~cl'[c].full /\ cl'[c].head = 0 /\ cl'[c].tail = 0
  <2>1. cl'[c] = Fresh(c, s)
    BY <1>1, ClientHas
  <2>2. QED
    BY <2>1 DEF Fresh, NewClient
<1>3. /\ got'[c] = <<>> /\ sessions' = sessions + 1 /\ UNCHANGED <<replies, fw>>
      /\ DOMAIN got'[c] = {} /\ Len(got'[c]) = 0
  <2>1. got' = [got EXCEPT ![c] = <<>>] /\ sessions' = sessions + 1 /\ UNCHANGED <<replies, fw>>
    BY DEF StartConnect
  <2>2. got \in [Clients -> Seq(Bytes \union {NoByte})]
    BY DEF Base, Types
  <2>3. got'[c] = <<>>
    BY <2>1, <2>2
  <2>4. DOMAIN <<>> = {} /\ Len(<<>>) = 0
    BY EmptySeq, LenProperties
  <2>5. QED
    BY <2>1, <2>3, <2>4
<1>4. Open(c)' /\ ~Place(c)'.pending
  BY <1>1, <1>2 DEF Open, Place, ClosedSocket
<1>5. sessions \in Nat /\ sessions' # 0 /\ sessions' > sessions
  BY <1>3, ClientHas
<1>6. None(replies, Received(sessions')) /\ fw[sessions'].sent = 0
  <2>1. Unborn(sessions')
    BY <1>1, <1>3, <1>5 DEF Base, ConnectInv, ToCome
  <2>2. Received(sessions') \subseteq About(sessions')
    BY DEF Received, About
  <2>3. QED
    BY <2>1, <2>2, NoneSubset DEF Unborn, NoConnection
<1>7. Come(c)' = 0
  BY <1>2, <1>3 DEF Come
<1>8. RoomInv(c)'
  BY <1>2, <1>4 DEF RoomInv
<1>9. BytesInv(c)'
  <2>1. ~\E k \in Places : 0 <= k /\ k < 0
    BY Ranges
  <2>2. QED
    BY <1>2, <1>3, <1>5, <2>1 DEF BytesInv
<1>10. SentInv(c)'
  <2>1. \A m, n : None(replies, Misplaced(sessions', m, n)) /\ None(replies, Eofs(sessions'))
    BY <1>6, InReceivedOf, NoneSubset
  <2>2. QED
    BY <1>3, <1>4, <1>6, <1>7, <2>1 DEF SentInv
<1>11. QED
  BY <1>8, <1>9, <1>10 DEF StreamInv

\* The client has no socket any more.
LEMMA LeftStream ==
    ASSUME NEW c, StreamInv(c), UNCHANGED <<sessions, got>>,
           cl'[c].socket = NoSocket, ~cl'[c].full
    PROVE  StreamInv(c)'
<1>1. ~Open(c)'
  BY Ranges DEF Open
<1>2. QED
  BY <1>1 DEF StreamInv, RoomInv, BytesInv, SentInv

LEMMA StopStream ==
    ASSUME NEW c, Clients = {c}, Base(c), StreamInv(c), Stop(c)
    PROVE  StreamInv(c)'
<1>1. Stopped({c}) /\ UNCHANGED <<sessions, got>>
  BY DEF Stop
<1>2. cl'[c].socket = NoSocket /\ ~cl'[c].full
  BY <1>1, StopsOwn DEF Base
<1>3. QED
  BY <1>1, <1>2, LeftStream

LEMMA ConnectingStream ==
    ASSUME NEW c, Clients = {c}, Base(c), StreamInv(c), Connecting
    PROVE  StreamInv(c)'
<1>1. calling = c
  BY DEF Connecting, ConnectReturns, ConnectTimeout, Base, Types
<1>2. CASE ConnectReturns
  <2>1. UNCHANGED <<cl, sk, sessions, replies, fw, got>>
    BY <1>2 DEF ConnectReturns
  <2>2. Open(c)' = Open(c) /\ Place(c)' = Place(c)
    BY <2>1 DEF Open, Place
  <2>3. RoomInv(c)' /\ BytesInv(c)' /\ Come(c)' = Come(c)
    BY <2>1, <2>2, SameClient DEF StreamInv
  <2>4. SentInv(c)'
    BY <2>1, <2>2, <2>3 DEF StreamInv, SentInv
  <2>5. QED
    BY <2>3, <2>4 DEF StreamInv
<1>3. CASE ConnectTimeout
  <2>1. cl' = [cl EXCEPT ![c].socket = NoSocket] /\ UNCHANGED <<sessions, got>>
    BY <1>1, <1>3 DEF ConnectTimeout
  <2>2. cl \in [Clients -> Client] /\ c \in Clients
    BY ClientHas
  <2>3. cl'[c].socket = NoSocket /\ cl'[c].full = cl[c].full
    BY <2>1, <2>2 DEF Client
  <2>4. QED
    BY <2>1, <2>3, LeftStream DEF StreamInv, RoomInv
<1>4. QED
  BY <1>2, <1>3 DEF Connecting

\* read() moves a byte from the buffer to what has been read.
LEMMA ReadStream ==
    ASSUME NEW c, Clients = {c}, Base(c), StreamInv(c), Read(c)
    PROVE  StreamInv(c)'
<1> DEFINE drained == cl[c].tail + 1 = cl[c].head
           head    == cl[c].head
           tail    == cl[c].tail
           read    == Len(got[c])
<1>1. /\ sk' = IF drained /\ Open(c) THEN [sk EXCEPT ![cl[c].socket] = Asking(c, 0)] ELSE sk
      /\ cl' = [cl EXCEPT ![c] = Consumed(c)]
      /\ got' = [got EXCEPT ![c] = Append(@, cl[c].data[tail])]
      /\ cl[c].socket \in Sockets
      /\ UNCHANGED <<sessions, replies, fw>>
  BY ReadDoes DEF Base, Read
<1>2. /\ cl \in [Clients -> Client] /\ sk \in [Sockets -> Entry] /\ c \in Clients
      /\ got[c] \in Seq(Bytes \union {NoByte}) /\ read \in Nat /\ DOMAIN got[c] = 1 .. read
      /\ head \in Nat /\ tail \in Nat /\ sessions \in Nat
      /\ got \in [Clients -> Seq(Bytes \union {NoByte})]
  BY ClientHas DEF Base, Types
<1>3. cl[c].socket # NoSocket /\ available(c) > 0
  BY <1>1, Ranges DEF Read
<1>4. /\ Consumed(c).socket = cl[c].socket /\ Consumed(c).data = cl[c].data
      /\ drained => Consumed(c).head = 0 /\ Consumed(c).tail = 0 /\ ~Consumed(c).full
      /\ ~drained => /\ Consumed(c).head = head /\ Consumed(c).tail = tail + 1
                     /\ Consumed(c).full = cl[c].full
      /\ tail < head /\ tail \in Places
      /\ cl[c].data[tail] \in Bytes \union {NoByte}
  BY <1>2, <1>3, ConsumedHas
<1>5. cl'[c] = Consumed(c)
  BY <1>1, <1>2
<1>6. cl[c].data[tail] = <<sessions, read + 1>>
  <2>1. cl[c].data[tail] = <<sessions, read + 1 + tail - tail>>
    BY <1>2, <1>3, <1>4 DEF StreamInv, BytesInv
  <2>2. read + 1 + tail - tail = read + 1
    BY <1>2
  <2>3. QED
    BY <2>1, <2>2
<1>7. /\ got'[c] \in Seq(Bytes \union {NoByte}) /\ Len(got'[c]) = read + 1
      /\ DOMAIN got'[c] = 1 .. read + 1
      /\ \A i \in 1 .. read : got'[c][i] = got[c][i]
      /\ got'[c][read + 1] = <<sessions, read + 1>>
  <2>1. got'[c] = Append(got[c], cl[c].data[tail])
    BY <1>1, <1>2
  <2>2. cl[c].data[tail] \in Bytes \union {NoByte}
    BY <1>4
  <2> DEFINE more == Append(got[c], cl[c].data[tail])
  <2>3. /\ more \in Seq(Bytes \union {NoByte}) /\ Len(more) = read + 1
        /\ \A i \in 1 .. read : more[i] = got[c][i]
        /\ more[read + 1] = cl[c].data[tail]
    BY <1>2, <2>2, AppendProperties
  <2> HIDE DEF more
  <2>4. DOMAIN more = 1 .. read + 1
    BY <2>3, LenProperties
  <2>5. QED
    BY <1>6, <2>1, <2>3, <2>4 DEF more
<1>8. Come(c)' = Come(c)
  <2>1. Come(c) = read + (head - tail)
    BY DEF Come
  <2>2. Come(c)' = read + 1 + (Consumed(c).head - Consumed(c).tail)
    BY <1>5, <1>7 DEF Come
  <2>3. Consumed(c).head - Consumed(c).tail = (head - tail) - 1
    <3>1. CASE drained
      BY <1>2, <1>4, <3>1
    <3>2. CASE ~drained
      BY <1>2, <1>4, <3>2
    <3>3. QED
      BY <3>1, <3>2
  <2>4. read \in Nat /\ head - tail \in Int
    BY <1>2
  <2> DEFINE left == head - tail
             kept == Consumed(c).head - Consumed(c).tail
  <2> HIDE DEF read, left, kept
  <2>5. read + 1 + kept = read + left
    BY <2>3, <2>4 DEF left, kept
  <2>6. QED
    BY <2>1, <2>2, <2>5 DEF left, kept
<1>9. Open(c)' = Open(c) /\ (Open(c) /\ drained => Place(c)' = Asking(c, 0))
      /\ (~drained => Place(c)' = Place(c))
  <2>1. Open(c) => Asking(c, 0).used
    BY <1>2, AskingHas, Ranges
  <2>2. QED
    BY <1>1, <1>2, <1>4, <1>5, <2>1 DEF Open, Place
<1>10. RoomInv(c)'
  <2>1. CASE drained
    <3>1. Open(c) => Asking(c, 0).buf = c /\ Asking(c, 0).off = 0
      BY <1>2, AskingHas, Ranges
    <3>2. QED
      BY <1>4, <1>5, <1>9, <2>1, <3>1 DEF RoomInv
  <2>2. CASE ~drained
    BY <1>4, <1>5, <1>9, <2>2 DEF StreamInv, RoomInv
  <2>3. QED
    BY <2>1, <2>2
<1>11. BytesInv(c)'
  <2>1. \A i \in 1 .. read + 1 : got'[c][i] = <<sessions, i>>
    <3>1. \A i \in 1 .. read : got[c][i] = <<sessions, i>>
      BY <1>2 DEF StreamInv, BytesInv
    <3>2. \A i \in 1 .. read + 1 : i = read + 1 \/ i \in 1 .. read
      BY <1>2
    <3>3. QED
      BY <1>7, <3>1, <3>2, Zenon
  <2>2. ASSUME NEW k \in Places, Consumed(c).tail <= k, k < Consumed(c).head
        PROVE  cl[c].data[k] = <<sessions, read + 1 + 1 + k - Consumed(c).tail>>
    <3>0. k \in Nat
      BY Ranges
    <3>1. ~drained /\ Consumed(c).tail = tail + 1 /\ k < head /\ tail <= k
      <4>1. ~drained
        BY <1>4, <2>2, <3>0
      <4>2. Consumed(c).tail = tail + 1 /\ Consumed(c).head = head
        BY <1>4, <4>1
      <4>3. QED
        BY <1>2, <2>2, <3>0, <4>1, <4>2
    <3>2. cl[c].data[k] = <<sessions, read + 1 + k - tail>>
      BY <1>3, <3>1 DEF StreamInv, BytesInv
    <3>3. read + 1 + 1 + k - Consumed(c).tail = read + 1 + k - tail
      <4>1. Consumed(c).tail = tail + 1 /\ read \in Nat /\ tail \in Nat
        BY <1>2, <3>1
      <4> HIDE DEF read, tail
      <4>2. QED
        BY <3>0, <4>1
    <3>4. QED
      BY <3>2, <3>3
  <2>3. sessions # 0
    BY <1>3 DEF StreamInv, BytesInv
  <2>4. QED
    BY <1>1, <1>4, <1>5, <1>7, <2>1, <2>2, <2>3 DEF BytesInv
<1>12. SentInv(c)'
  BY <1>1, <1>4, <1>5, <1>8, <1>9 DEF StreamInv, SentInv
<1>13. QED
  BY <1>10, <1>11, <1>12 DEF StreamInv

----------------------------------------------------------------------------
(* The pump *)

\* An event is handled that is no reply of the session: the buffer stays as it
\* is, and the socket has at most its receive mark cleared.
LEMMA OtherEvent ==
    ASSUME NEW c, Clients = {c}, Base(c), StreamInv(c), replies # <<>>,
           replies' = Tail(replies), Open(c) => Head(replies) \notin Received(sessions),
           UNCHANGED <<cl, sessions, fw, got>>, Open(c)' = Open(c),
           Open(c) => Place(c)' = Place(c) \/ ~Place(c)'.pending
    PROVE  StreamInv(c)'
<1>1. Come(c)' = Come(c)
  BY DEF Come
<1>2. RoomInv(c)'
  BY DEF StreamInv, RoomInv
<1>3. BytesInv(c)'
  BY DEF StreamInv, BytesInv
<1>4. \A S : None(replies, S) <=> None(replies', S) /\ Head(replies) \notin S
  BY TailOf, ClientHas
<1>5. Open(c) => (None(replies, Received(sessions)) <=> None(replies', Received(sessions)))
  BY <1>4
<1>6. SentInv(c)'
  BY <1>1, <1>4, <1>5 DEF StreamInv, SentInv
<1>7. QED
  BY <1>2, <1>3, <1>6 DEF StreamInv

\* connect() has succeeded: the first bytes go to the beginning of the buffer.
LEMMA ConnectedStream ==
    ASSUME NEW c, Clients = {c}, Base(c), StreamInv(c), replies # <<>>,
           replies' = Tail(replies), Head(replies).kind = "connected",
           OnConnected(Head(replies).sock), UNCHANGED <<reg, sessions, fw, got>>
    PROVE  StreamInv(c)'
<1> DEFINE s == cl[c].socket
<1>1. PICK e \in Messages : e = Head(replies) /\ FewerTold(e)
  BY Handled, ClientHas
<1>2. /\ e.session = sessions /\ ~cl[c].connected /\ (Open(c) => e.sock = s)
  BY <1>1, AnswerHas
<1>3. Open(c)
  <2>1. ~None(replies, Connecteds)
    BY <1>1 DEF FewerTold
  <2>2. QED
    BY <2>1 DEF Base, ConnectInv, AnswerInv
<1>4. /\ e.sock = s /\ s \in Sockets /\ reg[s] = c /\ sk[s].used
      /\ cl[c].head = 0 /\ ~cl[c].full
  BY <1>2, <1>3 DEF Base, SocketInv, Open
<1>5. sk' = [sk EXCEPT ![s] = Asking(c, 0)] /\ cl' = [cl EXCEPT ![c].connected = TRUE]
  BY <1>1, <1>4, ClientHas DEF OnConnected, AfterRecv, Asking, Place
<1>6. /\ cl'[c].socket = s /\ cl'[c].head = cl[c].head /\ cl'[c].tail = cl[c].tail
      /\ cl'[c].full = cl[c].full /\ cl'[c].data = cl[c].data
  <2>1. cl \in [Clients -> Client] /\ c \in Clients
    BY ClientHas
  <2>2. QED
    BY <1>5, <2>1 DEF Client
<1>7. /\ Open(c)' /\ Place(c)' = Asking(c, 0)
      /\ Asking(c, 0).buf = c /\ Asking(c, 0).off = 0
  <2>1. Asking(c, 0).used /\ Asking(c, 0).buf = c /\ Asking(c, 0).off = 0
    BY <1>3, AskingHas, ClientHas, Ranges
  <2>2. sk \in [Sockets -> Entry]
    BY ClientHas
  <2>3. QED
    BY <1>4, <1>5, <1>6, <2>1, <2>2 DEF Open, Place
<1>8. Come(c)' = Come(c)
  BY <1>6 DEF Come
<1>9. RoomInv(c)'
  BY <1>4, <1>6, <1>7 DEF RoomInv
<1>10. BytesInv(c)'
  BY <1>6 DEF StreamInv, BytesInv
<1>11. e \notin Received(sessions)
  BY <1>1 DEF Received
<1>12. \A S : None(replies, S) <=> None(replies', S) /\ e \notin S
  BY <1>1, TailOf, ClientHas
<1>13. SentInv(c)'
  BY <1>3, <1>6, <1>7, <1>8, <1>11, <1>12 DEF StreamInv, SentInv
<1>14. QED
  BY <1>9, <1>10, <1>13 DEF StreamInv

\* The library closes the socket, and the client keeps its number: all that has
\* been sent has come.
LEMMA ClosedUnder ==
    ASSUME NEW c, Clients = {c}, Base(c), StreamInv(c), UNCHANGED <<sessions, fw, got>>,
           \A s \in Sockets : sk'[s] = ClosedSocket, cl[c].socket \in Sockets \union {NoSocket},
           cl'[c].socket = cl[c].socket, cl'[c].full = cl[c].full,
           cl'[c].head = cl[c].head, cl'[c].tail = cl[c].tail, cl'[c].data = cl[c].data,
           cl[c].socket # NoSocket =>
             fw[sessions].sent = Come(c) /\ fw[sessions].state \in {"closed", "lost"}
    PROVE  StreamInv(c)'
<1>1. ~Open(c)'
  BY DEF Open, ClosedSocket
<1>2. Come(c)' = Come(c)
  BY DEF Come
<1>3. RoomInv(c)'
  BY <1>1 DEF StreamInv, RoomInv
<1>4. BytesInv(c)'
  BY DEF StreamInv, BytesInv
<1>5. SentInv(c)'
  BY <1>1, <1>2 DEF SentInv
<1>6. QED
  BY <1>3, <1>4, <1>5 DEF StreamInv

LEMMA RefusedStream ==
    ASSUME NEW c, Clients = {c}, Base(c), StreamInv(c), replies # <<>>,
           replies' = Tail(replies), Head(replies).kind = "refused",
           OnConnectFailed(Head(replies).sock), UNCHANGED <<reg, sessions, fw, got>>
    PROVE  StreamInv(c)'
<1>1. PICK e \in Messages : e = Head(replies) /\ FewerTold(e)
  BY Handled, ClientHas
<1>2. e.sock \in Sockets /\ ~cl[c].connected /\ (Open(c) => e.sock = cl[c].socket)
  BY <1>1, AnswerHas
<1>3. /\ requests' = requests \o CloseRequest(e.sock, sk[e.sock])
      /\ sk' = [sk EXCEPT ![e.sock] = Closed(@)] /\ UNCHANGED cl
  BY <1>1 DEF OnConnectFailed
<1>4. \A s \in Sockets : sk'[s] = ClosedSocket
  BY <1>2, <1>3, CloseUnder DEF Base
<1>5. fw[sessions].state = "closed"
  <2>1. ~None(replies, Refusals)
    BY <1>1 DEF FewerTold
  <2>2. QED
    BY <2>1 DEF Base, ConnectInv, AnswerInv
<1>6. Open(c) => None(replies, Received(sessions))
  BY <1>2, ReplyMeansConnected
<1>7. cl[c].socket # NoSocket => fw[sessions].sent = Come(c)
  BY <1>6 DEF StreamInv, SentInv
<1>8. cl[c].socket \in Sockets \union {NoSocket}
  BY DEF Base, Types, Client
<1>9. QED
  BY <1>3, <1>4, <1>5, <1>7, <1>8, ClosedUnder

\* The peer has closed: its end of stream is behind all it has sent.
LEMMA EofStream ==
    ASSUME NEW c, Clients = {c}, Base(c), StreamInv(c), NEW e \in Messages, FewerTold(e),
           e = Head(replies), replies # <<>>, replies' = Tail(replies),
           e.kind = "received", e.session = sk[e.sock].session, e.bytes = <<>>,
           OnEof(e.sock), UNCHANGED <<reg, sessions, fw, got>>
    PROVE  StreamInv(c)'
<1>1. Open(c) /\ e.sock = cl[c].socket /\ e.session = sessions
  BY ReceivedHas
<1>2. e.sock \in Sockets /\ reg[e.sock] = c
  BY <1>1 DEF Base, SocketInv, Open
<1>3. /\ requests' = requests \o CloseRequest(e.sock, sk[e.sock])
      /\ sk' = [sk EXCEPT ![e.sock] = Closed(@)]
      /\ cl' = [cl EXCEPT ![c].connected = FALSE]
  BY <1>2 DEF OnEof
<1>4. \A s \in Sockets : sk'[s] = ClosedSocket
  BY <1>1, <1>2, <1>3, CloseUnder DEF Base
<1>5. cl \in [Clients -> Client] /\ c \in Clients
  BY ClientHas
<1>6. /\ cl'[c].socket = cl[c].socket /\ cl'[c].full = cl[c].full
      /\ cl'[c].head = cl[c].head /\ cl'[c].tail = cl[c].tail /\ cl'[c].data = cl[c].data
  BY <1>3, <1>5 DEF Client
<1>7. \A S : None(replies, S) => e \notin S
  BY TailOf, ClientHas
<1>8. fw[sessions].state = "closed"
  <2>1. e \in Eofs(sessions)
    BY <1>1 DEF Eofs, Received
  <2>2. QED
    BY <1>1, <1>7, <2>1 DEF StreamInv, SentInv
<1>9. fw[sessions].sent = Come(c)
  <2>1. e \notin Misplaced(sessions, Come(c), fw[sessions].sent) /\ e \in Received(sessions)
    BY <1>1, <1>7 DEF StreamInv, SentInv, Received
  <2>2. fw[sessions].sent = Come(c) + Len(e.bytes) /\ Len(e.bytes) = 0
    BY <2>1, EmptySeq DEF Misplaced
  <2>3. Come(c) \in Int
    BY ClientHas DEF Come
  <2>4. QED
    BY <2>2, <2>3
<1>10. cl[c].socket \in Sockets \union {NoSocket}
  BY <1>5 DEF Client
<1>11. QED
  BY <1>4, <1>6, <1>8, <1>9, <1>10, ClosedUnder
\* A reply that is taken whole, into the room that was kept for it.
LEMMA WholeDoes ==
    ASSUME NEW c, Clients = {c}, Whole, Base(c), RoomInv(c), Open(c), Place(c).pending,
           NEW bytes \in Seq(Bytes), Len(bytes) \in Segments,
           OnData(cl[c].socket, Replied(Place(c)), bytes)
    PROVE  LET s    == cl[c].socket
               head == cl[c].head + Len(bytes)
               so   == Replied(Place(c))
           IN  /\ Len(bytes) \in Nat \ {0} /\ head <= TCP_SIZE
               /\ cl'[c].socket = s /\ cl'[c].tail = cl[c].tail /\ cl'[c].head = head
               /\ ~cl'[c].full
               /\ \A k \in Places :
                    cl'[c].data[k] = IF cl[c].head <= k /\ k < head
                                     THEN bytes[k - cl[c].head + 1] ELSE cl[c].data[k]
               /\ sk'[s] = IF More(head)
                           THEN [so EXCEPT !.buf = c, !.off = head, !.pending = TRUE] ELSE so
               /\ so.used /\ ~so.pending
<1> DEFINE s    == cl[c].socket
           n    == Len(bytes)
           rest == SubSeq(bytes, n + 1, n)
           head == cl[c].head + n
           more == More(head)
           so   == Replied(Place(c))
           data == [i \in Places |->
                       IF i \in so.off .. so.off + n - 1 THEN bytes[i - so.off + 1]
                       ELSE cl[c].data[i]]
           full == cl[c].full \/ (~more /\ rest # <<>>)
<1>1. /\ s \in Sockets /\ reg[s] = c /\ sk[s].used
      /\ cl \in [Clients -> Client] /\ sk \in [Sockets -> Entry] /\ c \in Clients
      /\ cl[c].head \in Nat /\ cl[c].head <= TCP_SIZE
  BY ClientHas DEF Open, Base, SocketInv
<1>2. n \in Nat \ {0} /\ n <= MTU
  BY DEF Whole
<1>3. /\ so.off = cl[c].head /\ so.buf = c /\ so.used /\ ~so.pending /\ so \in Entry
  <2>1. Place(c) \in Entry /\ Place(c).used
    BY <1>1 DEF Place
  <2>2. Place(c).buf = c /\ Place(c).off = cl[c].head
    BY DEF RoomInv
  <2>3. QED
    BY <2>1, <2>2 DEF Replied, Entry
<1>4. rest = <<>>
  <2>1. n + 1 \in Int /\ n \in Int /\ n < n + 1
    BY <1>2
  <2>2. QED
    BY <2>1, SubSeqEmpty
<1>5. head \in Nat /\ head <= TCP_SIZE /\ Fits(head)
  BY <1>1, <1>2 DEF RoomInv, Fits
<1>6. /\ cl' = [[cl EXCEPT ![c].data = data] EXCEPT ![c].head = head, ![c].full = full]
      /\ sk' = [sk EXCEPT ![s] = IF more THEN AfterRecv(so, c, head) ELSE so]
  <2>1. (IF Len(bytes) <= MTU THEN Len(bytes) ELSE MTU) = n
    BY <1>2
  <2>2. cl' = LET stored == [cl EXCEPT ![so.buf].data =
                       [i \in Places |-> IF i \in so.off .. so.off + n - 1
                                         THEN bytes[i - so.off + 1] ELSE cl[so.buf].data[i]]]
              IN  IF Fits(cl[reg[s]].head + n)
                  THEN [stored EXCEPT ![reg[s]].head = cl[reg[s]].head + n,
                            ![reg[s]].full = @ \/ (~More(cl[reg[s]].head + n) /\ rest # <<>>)]
                  ELSE [stored EXCEPT ![reg[s]].full = TRUE]
    BY <2>1 DEF OnData
  <2>3. cl' = [[cl EXCEPT ![c].data = data] EXCEPT ![c].head = head,
                            ![c].full = @ \/ (~more /\ rest # <<>>)]
    BY <1>1, <1>3, <1>5, <2>2
  <2>4. [cl EXCEPT ![c].data = data][c].full = cl[c].full
    BY <1>1
  <2>5. sk' = [sk EXCEPT ![s] = IF more THEN AfterRecv(so, c, head) ELSE so]
    BY <1>1, <2>1 DEF OnData
  <2>6. QED
    BY <2>3, <2>4, <2>5
<1>7. ~full
  BY <1>4 DEF RoomInv
<1> HIDE DEF full, rest
<1>8. /\ cl'[c].socket = s /\ cl'[c].tail = cl[c].tail /\ cl'[c].head = head
      /\ ~cl'[c].full /\ cl'[c].data = data
  <2> DEFINE stored == [cl[c] EXCEPT !.data = data, !.head = head, !.full = full]
  <2> HIDE DEF data, head
  <2>1. cl' = [cl EXCEPT ![c] = stored]
    BY <1>1, <1>6
  <2>2. cl[c] \in Client
    BY <1>1
  <2>3. /\ stored.socket = cl[c].socket /\ stored.tail = cl[c].tail /\ stored.head = head
        /\ stored.full = full /\ stored.data = data
    BY <2>2 DEF Client
  <2> HIDE DEF stored
  <2>4. QED
    BY <1>1, <1>7, <2>1, <2>3
<1>9. \A k \in Places : data[k] = IF cl[c].head <= k /\ k < head
                                  THEN bytes[k - cl[c].head + 1] ELSE cl[c].data[k]
  <2> SUFFICES ASSUME NEW k \in Places
      PROVE  data[k] = IF cl[c].head <= k /\ k < head
                       THEN bytes[k - cl[c].head + 1] ELSE cl[c].data[k]
    OBVIOUS
  <2>1. k \in so.off .. so.off + n - 1 <=> cl[c].head <= k /\ k < head
    BY <1>1, <1>2, <1>3, Ranges
  <2>2. QED
    BY <1>3, <2>1
<1>10. sk'[s] = IF more THEN [so EXCEPT !.buf = c, !.off = head, !.pending = TRUE] ELSE so
  BY <1>1, <1>3, <1>6 DEF AfterRecv
<1>11. QED
  BY <1>2, <1>3, <1>5, <1>8, <1>9, <1>10

LEMMA DataStream ==
    ASSUME NEW c, Clients = {c}, Whole, Base(c), StreamInv(c), NEW e \in Messages, FewerTold(e),
           e = Head(replies), replies # <<>>, replies' = Tail(replies),
           e.kind = "received", e.session = sk[e.sock].session, e.bytes # <<>>,
           OnData(e.sock, Replied(sk[e.sock]), e.bytes), UNCHANGED <<reg, sessions, fw, got>>
    PROVE  StreamInv(c)'
<1> DEFINE s     == cl[c].socket
           bytes == e.bytes
           n     == Len(bytes)
           head  == cl[c].head
           tail  == cl[c].tail
           read  == Len(got[c])
           so    == Replied(Place(c))
<1>1. /\ Open(c) /\ e.session = sessions /\ e.sock = s /\ Place(c).pending
      /\ None(replies', Received(sessions))
  BY ReceivedHas
<1>2. bytes \in Seq(Bytes) /\ n \in Segments
  BY DEF Messages, Replies
<1>3. OnData(s, so, bytes)
  BY <1>1 DEF Place
<1>4. /\ n \in Nat \ {0} /\ head + n <= TCP_SIZE
      /\ cl'[c].socket = s /\ cl'[c].tail = tail /\ cl'[c].head = head + n
      /\ ~cl'[c].full
      /\ \A k \in Places :
           cl'[c].data[k] = IF head <= k /\ k < head + n
                            THEN bytes[k - head + 1] ELSE cl[c].data[k]
      /\ sk'[s] = IF More(head + n)
                  THEN [so EXCEPT !.buf = c, !.off = head + n, !.pending = TRUE] ELSE so
      /\ so.used /\ ~so.pending
  BY <1>1, <1>2, <1>3, WholeDoes DEF StreamInv
<1>5. /\ head \in Nat /\ tail \in Nat /\ tail <= head /\ read \in Nat /\ sessions \in Nat
      /\ sk \in [Sockets -> Entry] /\ so \in Entry /\ s \in Sockets
  <2>1. s \in Sockets /\ sk \in [Sockets -> Entry]
    BY <1>1, ClientHas DEF Open
  <2>2. Place(c) \in Entry
    BY <2>1 DEF Place
  <2>3. so \in Entry
    BY <2>2 DEF Replied, Entry
  <2>4. QED
    BY <2>1, <2>3, ClientHas
<1>6. \A i \in DOMAIN bytes : bytes[i] = <<sessions, Come(c) + i>>
      /\ fw[sessions].sent = Come(c) + n
  <2>1. e \in Received(sessions)
    BY <1>1 DEF Received
  <2>2. e \notin Misplaced(sessions, Come(c), fw[sessions].sent)
    <3>1. None(replies, Misplaced(sessions, Come(c), fw[sessions].sent))
      BY <1>1 DEF StreamInv, SentInv
    <3>2. QED
      BY <3>1, TailOf, ClientHas
  <2>3. QED
    BY <2>1, <2>2 DEF Misplaced
<1>7. DOMAIN bytes = 1 .. n /\ 1 \in DOMAIN bytes
  BY <1>2, <1>4, LenProperties
<1> HIDE DEF n, bytes, read, head, tail
<1>8. Come(c) = read + (head - tail) /\ Come(c)' = read + (head + n - tail)
  <2>1. Come(c) = read + (head - tail)
    BY DEF Come, read, head, tail
  <2>2. Come(c)' = Len(got[c]) + (cl'[c].head - cl'[c].tail)
    <3>1. got' = got
      OBVIOUS
    <3>2. QED
      BY <3>1 DEF Come
  <2>3. cl'[c].head = head + n /\ cl'[c].tail = tail /\ read = Len(got[c])
    BY <1>4 DEF read
  <2>4. QED
    BY <1>4, <1>5, <2>1, <2>2, <2>3
<1>9. Come(c)' = Come(c) + n
  BY <1>4, <1>5, <1>8
<1>10. Open(c)' /\ Place(c)' = sk'[s]
  <2>1. sk'[s].used
    BY <1>4, <1>5 DEF Entry
  <2>2. QED
    BY <1>4, <1>5, <2>1 DEF Open, Place
<1>11. RoomInv(c)'
  <2>1. CASE More(head + n)
    <3>1. sk'[s].buf = c /\ sk'[s].off = head + n
      BY <1>4, <1>5, <2>1 DEF Entry
    <3>2. head + n + MTU <= TCP_SIZE
      BY <1>4, <1>5, <2>1 DEF More
    <3>3. QED
      BY <1>4, <1>10, <3>1, <3>2 DEF RoomInv
  <2>2. CASE ~More(head + n)
    BY <1>4, <1>10, <2>2 DEF RoomInv
  <2>3. QED
    BY <2>1, <2>2
<1>12. BytesInv(c)'
  <2>1. s # NoSocket
    BY <1>5, Ranges
  <2>2. ASSUME NEW k \in Places, tail <= k, k < head + n
        PROVE  cl'[c].data[k] = <<sessions, read + 1 + k - tail>>
    <3>0. k \in Nat
      BY Ranges
    <3>1. CASE k < head
      <4>1. cl'[c].data[k] = cl[c].data[k]
        BY <1>4, <1>5, <3>0, <3>1
      <4>2. cl[c].data[k] = <<sessions, read + 1 + k - tail>>
        BY <2>1, <2>2, <3>1 DEF StreamInv, BytesInv, read, head, tail
      <4>3. QED
        BY <4>1, <4>2
    <3>2. CASE head <= k
      <4>1. k - head + 1 \in 1 .. n
        BY <1>4, <1>5, <2>2, <3>0, <3>2
      <4>2. cl'[c].data[k] = bytes[k - head + 1]
        BY <1>4, <2>2, <3>2
      <4>3. bytes[k - head + 1] = <<sessions, Come(c) + (k - head + 1)>>
        BY <1>6, <1>7, <4>1
      <4>4. Come(c) + (k - head + 1) = read + 1 + k - tail
        BY <1>5, <1>8, <3>0
      <4>5. QED
        BY <4>2, <4>3, <4>4
    <3>3. QED
      BY <1>5, <3>0, <3>1, <3>2
  <2>3. QED
    BY <1>4, <2>1, <2>2 DEF StreamInv, BytesInv, read
<1>13. SentInv(c)'
  <2>1. fw[sessions].sent = Come(c)'
    BY <1>6, <1>7, <1>9
  <2>2. \A m, k : None(replies', Misplaced(sessions, m, k)) /\ None(replies', Eofs(sessions))
    BY <1>1, InReceivedOf, NoneSubset
  <2>3. QED
    BY <1>10, <2>1, <2>2 DEF SentInv
<1>14. QED
  BY <1>11, <1>12, <1>13 DEF StreamInv

\* A reply of an earlier session is thrown away.
LEMMA StaleStream ==
    ASSUME NEW c, Clients = {c}, Base(c), StreamInv(c), NEW e \in Messages, FewerTold(e),
           e = Head(replies), replies # <<>>, replies' = Tail(replies),
           e.kind = "received", e.session # sk[e.sock].session, OnReceived(e),
           UNCHANGED <<reg, sessions, fw, got>>
    PROVE  StreamInv(c)'
<1>1. /\ e.sock \in Sockets /\ sk \in [Sockets -> Entry] /\ sk[e.sock] \in Entry
  BY DEF Messages, Base, Types
<1>2. Open(c) => e \notin Received(sessions)
  <2>1. SUFFICES ASSUME Open(c), e.session = sessions PROVE FALSE
    BY DEF Received
  <2>2. None(replies, Elsewhere(sessions, cl[c].socket))
    BY <2>1 DEF Base, ConnectInv, CurrentInv
  <2>3. e \notin Elsewhere(sessions, cl[c].socket)
    BY <2>2, TailOf, ClientHas
  <2>4. e.sock = cl[c].socket
    BY <2>1, <2>3 DEF Elsewhere, About
  <2>5. QED
    BY <2>1, <2>4 DEF Open, Base, SocketInv
<1>3. /\ Replied(sk[e.sock]).session = sk[e.sock].session
      /\ Replied(sk[e.sock]).used = sk[e.sock].used
      /\ ~Replied(sk[e.sock]).pending
  BY <1>1 DEF Replied, Entry
<1>4. sk' = [sk EXCEPT ![e.sock] = Replied(sk[e.sock])] /\ UNCHANGED cl
  BY <1>3 DEF OnReceived
<1>5. Open(c)' = Open(c)
  BY <1>1, <1>3, <1>4 DEF Open
<1>6. Open(c) => Place(c)' = Place(c) \/ ~Place(c)'.pending
  BY <1>1, <1>3, <1>4 DEF Open, Place
<1>7. QED
  BY <1>2, <1>4, <1>5, <1>6, OtherEvent

\* The network is lost: the client is stopped, or goes on waiting.
LEMMA LostStream ==
    ASSUME NEW c, Clients = {c}, Base(c), StreamInv(c), replies # <<>>,
           replies' = Tail(replies), Head(replies).kind = "disconnected", OnDisconnected,
           UNCHANGED <<sessions, fw, got>>
    PROVE  StreamInv(c)'
<1>1. CASE cl[c].socket # NoSocket /\ Stopped({c})
  <2>1. cl'[c].socket = NoSocket /\ ~cl'[c].full
    BY <1>1, StopsOwn DEF Base
  <2>2. QED
    BY <2>1, LeftStream
<1>2. CASE UNCHANGED <<cl, sk, reg, requests>>
  <2>1. Open(c)' = Open(c) /\ Place(c)' = Place(c)
    BY <1>2 DEF Open, Place
  <2>2. Head(replies) \notin Received(sessions)
    BY DEF Received
  <2>3. QED
    BY <1>2, <2>1, <2>2, OtherEvent
<1>3. QED
  BY <1>1, <1>2, LostHas

LEMMA PumpStream ==
    ASSUME NEW c, Clients = {c}, Whole, Base(c), StreamInv(c), Pump
    PROVE  StreamInv(c)'
<1>1. PICK e \in Messages :
             /\ e = Head(replies) /\ FewerTold(e)
             /\ UNCHANGED <<sessions, fw, got>>
             /\ \/ e.kind = "connected" /\ OnConnected(e.sock) /\ UNCHANGED reg
                \/ e.kind = "refused"   /\ OnConnectFailed(e.sock) /\ UNCHANGED reg
                \/ e.kind = "received"  /\ OnReceived(e) /\ UNCHANGED reg
                \/ e.kind = "disconnected" /\ OnDisconnected
  BY PumpHas
<1>0. replies # <<>> /\ replies' = Tail(replies)
  BY DEF Pump
<1>2. CASE e.kind = "connected" /\ OnConnected(e.sock) /\ UNCHANGED reg
  BY <1>0, <1>1, <1>2, ConnectedStream
<1>3. CASE e.kind = "refused" /\ OnConnectFailed(e.sock) /\ UNCHANGED reg
  BY <1>0, <1>1, <1>3, RefusedStream
<1>4. CASE e.kind = "received" /\ OnReceived(e) /\ UNCHANGED reg
  <2>1. CASE e.session # sk[e.sock].session
    BY <1>0, <1>1, <1>4, <2>1, StaleStream
  <2>2. CASE e.session = sk[e.sock].session
    <3>1. Replied(sk[e.sock]).session = sk[e.sock].session
      <4>1. sk[e.sock] \in Entry
        BY <1>4 DEF Messages, Base, Types
      <4>2. QED
        BY <4>1 DEF Replied, Entry
    <3>2. CASE e.bytes = <<>>
      <4>1. OnEof(e.sock)
        BY <1>4, <2>2, <3>1, <3>2 DEF OnReceived
      <4>2. QED
        BY <1>0, <1>1, <1>4, <2>2, <3>2, <4>1, EofStream
    <3>3. CASE e.bytes # <<>>
      <4>1. OnData(e.sock, Replied(sk[e.sock]), e.bytes)
        BY <1>4, <2>2, <3>1, <3>3 DEF OnReceived
      <4>2. QED
        BY <1>0, <1>1, <1>4, <2>2, <3>3, <4>1, DataStream
    <3>4. QED
      BY <3>2, <3>3
  <2>3. QED
    BY <2>1, <2>2
<1>5. CASE e.kind = "disconnected" /\ OnDisconnected
  BY <1>0, <1>1, <1>5, LostStream
<1>6. QED
  BY <1>1, <1>2, <1>3, <1>4, <1>5

----------------------------------------------------------------------------
(* Every step *)

\* What no step of the stream changes.
LEMMA UnchangedStream ==
    ASSUME NEW c, StreamInv(c), UNCHANGED <<cl, sk, sessions, got, replies, fw>>
    PROVE  StreamInv(c)'
<1>1. Open(c)' = Open(c) /\ Place(c)' = Place(c) /\ Come(c)' = Come(c)
  BY DEF Open, Place, Come
<1>2. RoomInv(c)' /\ BytesInv(c)'
  BY <1>1, SameClient DEF StreamInv
<1>3. SentInv(c)'
  BY <1>1 DEF StreamInv, SentInv
<1>4. QED
  BY <1>2, <1>3 DEF StreamInv

LEMMA InitStream ==
    ASSUME NEW c, Clients = {c}, Init
    PROVE  StreamInv(c)
<1>1. /\ cl[c].socket = NoSocket /\ ~cl[c].full /\ got[c] = <<>>
  BY DEF Init, NewClient
<1>2. ~Open(c) /\ DOMAIN got[c] = {}
  BY <1>1, Ranges, EmptySeq, LenProperties DEF Open
<1>3. QED
  BY <1>1, <1>2 DEF StreamInv, RoomInv, BytesInv, SentInv

LEMMA ResetStream ==
    ASSUME NEW c, Clients = {c}
    PROVE  Reset => StreamInv(c)'
<1>1. Init => StreamInv(c)
  BY InitStream
<1>2. Reset => Init'
  BY DEF Reset, Init
<1>3. QED
  BY <1>1, <1>2, PTL

LEMMA NextStream ==
    ASSUME NEW c, Alone(c), Whole, Base(c), StreamInv(c), [Next]_vars
    PROVE  StreamInv(c)'
<1>1. Clients = {c} /\ c \in Clients
  BY DEF Alone
<1>2. CASE UNCHANGED vars
  BY <1>2, UnchangedStream DEF vars
<1>3. CASE \E x \in Clients : Calls(x)
  <2>1. Calls(c)
    BY <1>1, <1>3
  <2>2. CASE ~connected(c) /\ StartConnect(c)
    BY <1>1, <2>2, StartConnectStream
  <2>3. CASE ~connected(c) /\ NoSocketFree(c)
    <3>1. Types /\ SocketInv(c)
      BY DEF Base
    <3>2. QED
      BY <1>1, <2>3, <3>1, NoSocketFreeNever
  <2>4. CASE Read(c)
    BY <1>1, <2>4, ReadStream
  <2>5. CASE Stop(c)
    BY <1>1, <2>5, StopStream
  <2>6. QED
    BY <2>1, <2>2, <2>3, <2>4, <2>5 DEF Calls
<1>4. CASE Connecting
  BY <1>1, <1>4, ConnectingStream
<1>5. CASE Pump
  BY <1>1, <1>5, PumpStream
<1>6. CASE PumpChunk
  BY <1>6 DEF PumpChunk, Base, SocketInv, Whole
<1>7. CASE Firmware
  BY <1>1, <1>7, FwRequestStream, FwConnectsStream, FwDataStream, FwEofStream DEF Firmware
<1>8. CASE LoseNetwork
  BY <1>1, <1>8, LoseNetworkStream
<1>9. CASE Rejoin
  BY <1>9, UnchangedStream DEF Rejoin, host
<1>10. CASE Reset
  BY <1>1, <1>10, ResetStream
<1>11. QED
  BY <1>2, <1>3, <1>4, <1>5, <1>6, <1>7, <1>8, <1>9, <1>10 DEF Next, Handling

LEMMA StreamAlways ==
    ASSUME NEW c, Alone(c), Whole
    PROVE  Spec => [](Base(c) /\ StreamInv(c))
<1>1. Init => Base(c) /\ StreamInv(c)
  BY InitBase, InitStream DEF Alone
<1>2. Base(c) /\ StreamInv(c) /\ [Next]_vars => Base(c)' /\ StreamInv(c)'
  BY NextKeeps, NextStream
<1>3. QED
  BY <1>1, <1>2, PTL DEF Spec

----------------------------------------------------------------------------
(* What follows of it *)

\* For a single client and whole replies, what a reply of socket.c still
\* brings goes right behind the unread bytes of the client, and has the room.
THEOREM RoomCorrect ==
    ASSUME NEW c, Alone(c), Whole
    PROVE  Spec => []WritesBehindUnread
<1>1. Base(c) /\ StreamInv(c) => WritesBehindUnread
  <2> SUFFICES ASSUME Base(c), StreamInv(c), NEW s \in Sockets,
                      sk[s].used, sk[s].pending \/ xfer.sock = s
      PROVE  /\ sk[s].buf = reg[s] /\ sk[s].off = cl[reg[s]].head
             /\ sk[s].off + MTU <= TCP_SIZE
    BY DEF WritesBehindUnread
  <2>1. s = cl[c].socket /\ reg[s] = c /\ Open(c) /\ Place(c) = sk[s]
    BY DEF Base, SocketInv, Open, Place
  <2>2. xfer.sock # s
    BY Ranges DEF Base, SocketInv, Whole, NoXfer
  <2>3. QED
    BY <2>1, <2>2 DEF StreamInv, RoomInv
<1>2. Spec => [](Base(c) /\ StreamInv(c))
  BY StreamAlways
<1>3. QED
  BY <1>1, <1>2, PTL

\* For a single client and whole replies, what it has read since connect() is
\* the beginning of what one peer sent, each byte once and in its place.
THEOREM StreamCorrect ==
    ASSUME NEW c, Alone(c), Whole
    PROVE  Spec => []StreamIntact
<1>1. Base(c) /\ StreamInv(c) => StreamIntact
  <2> SUFFICES ASSUME Base(c), StreamInv(c), NEW i \in DOMAIN got[c]
      PROVE  got[c][i][2] = i /\ got[c][i][1] = got[c][1][1]
    BY DEF StreamIntact, Alone
  <2>1. DOMAIN got[c] = 1 .. Len(got[c]) /\ Len(got[c]) \in Nat
    BY ClientHas DEF Alone
  <2>2. 1 \in DOMAIN got[c]
    BY <2>1
  <2>3. got[c][i] = <<sessions, i>> /\ got[c][1] = <<sessions, 1>>
    BY <2>2 DEF StreamInv, BytesInv
  <2>4. QED
    BY <2>3
<1>2. Spec => [](Base(c) /\ StreamInv(c))
  BY StreamAlways
<1>3. QED
  BY <1>1, <1>2, PTL

\* For a single client and whole replies, connected() turns false only when
\* the client has read all that the peer had sent.
THEOREM DeliveryCorrect ==
    ASSUME NEW c, Alone(c), Whole
    PROVE  Spec => []AllDelivered
<1>1. Base(c) /\ StreamInv(c) => AllDelivered
  <2> SUFFICES ASSUME Base(c), StreamInv(c), got[c] # <<>>, cl[c].socket # NoSocket,
                      ~connected(c)
      PROVE  Len(got[c]) = fw[got[c][1][1]].sent
    BY DEF AllDelivered, Alone
  <2>1. /\ got[c] \in Seq(Bytes \union {NoByte}) /\ Len(got[c]) \in Nat
        /\ DOMAIN got[c] = 1 .. Len(got[c])
        /\ cl[c].head \in Nat /\ cl[c].tail \in Nat /\ cl[c].tail <= cl[c].head
    BY ClientHas DEF Alone
  <2>2. Len(got[c]) # 0
    BY <2>1, EmptySeq
  <2>3. got[c][1] = <<sessions, 1>>
    BY <2>1, <2>2 DEF StreamInv, BytesInv
  <2>4. ~cl[c].connected /\ cl[c].head - cl[c].tail = 0
    BY <2>1 DEF connected, available
  <2>5. ~Open(c)
    BY <2>4 DEF Base, SocketInv
  <2>6. fw[sessions].sent = Come(c)
    BY <2>5 DEF StreamInv, SentInv
  <2>7. Come(c) = Len(got[c])
    BY <2>1, <2>4 DEF Come
  <2>8. QED
    BY <2>3, <2>6, <2>7
<1>2. Spec => [](Base(c) /\ StreamInv(c))
  BY StreamAlways
<1>3. QED
  BY <1>1, <1>2, PTL

=============================================================================
