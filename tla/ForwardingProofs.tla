-------------------------- MODULE ForwardingProofs --------------------------
(***************************************************************************)
(* For any number of datagrams, whatever overlaps, fails or stops: first   *)
(* the type invariant of module Forwarding, with its bookkeeping of the    *)
(* server's acceptor (AcceptorOK).  What socket_ holds and what the        *)
(* handlers find in ready need each other, and with them goes that no      *)
(* connection but that of socket_ is open (OneOpen): no other matters to   *)
(* what a close hangs up.                                                  *)
(*                                                                         *)
(* Then that an exchange no other overlapped prints its own reply.  Every  *)
(* exchange has at most one operation, queued or completed, and it is of   *)
(* the exchange's stage (OperationsOK); so an exchange that has ended      *)
(* leaves none behind, and what a lone one finds in ready and on its       *)
(* connection is its own (AloneOK).                                        *)
(***************************************************************************)
EXTENDS Forwarding, TLAPS

Record == [client : BOOLEAN, server : ServerSide,
           up : Seq(Nat), down : Seq(Seq(Nat))]

Operation == [kind : {"connect", "write"}, x : Datagram]

Socket == [open : BOOLEAN, conn : Nat,
           writes : Seq(Operation), reads : Seq(Datagram)]

\* Only a receive that stop() has aborted has no datagram.
Completion ==
    {d \in [kind : {"datagram", "connect", "write", "read"},
            x : 0..MaxDatagrams, ok : BOOLEAN, got : Seq(Nat)] :
        d.ok \/ d.kind # "datagram" => d.x \in Datagram}

FlagsOK ==
    /\ client_running \in BOOLEAN /\ halted \in BOOLEAN
    /\ receiving \in BOOLEAN
    /\ is_running_ \in BOOLEAN /\ exited \in BOOLEAN
    /\ accept \in {"waiting", "completed", "aborted", "restarting", "ended"}
    /\ sent \in 0..MaxDatagrams
    /\ inbox \in Seq(Datagram)

\* No connection is open at the client's end but that of socket_.
OneOpen == \A c \in DOMAIN conns : conns[c].client => c = socket_.conn

ConnsOK ==
    /\ conns \in Seq(Record)
    /\ OneOpen

SocketOK == socket_ \in Socket /\ socket_.conn <= Len(conns)

ReadyOK == ready \in Seq(Completion)

ExchangeOK ==
    /\ attempt \in [Datagram -> 0..Len(tcp_endpoints_)]
    /\ exchange \in [Datagram -> {"none", "connecting", "writing", "reading",
                                  "answered", "failed"}]

Inv == FlagsOK /\ ConnsOK /\ SocketOK /\ ReadyOK /\ ExchangeOK

\* The acceptor, the flag of its class, and the accept.
AcceptorOK ==
    /\ is_running_ \in BOOLEAN /\ listening \in BOOLEAN /\ exited \in BOOLEAN
    /\ is_running_ => listening /\ accept # "ended"
    /\ accept = "waiting" => listening
    /\ exited => ~listening /\ accept # "restarting"

USE DEF ClosedSocket

-----------------------------------------------------------------------------
(* The helpers of the model.                                               *)

LEMMA DoneType ==
    ASSUME NEW kind \in {"datagram", "connect", "write", "read"},
           NEW x \in 0..MaxDatagrams, NEW ok \in BOOLEAN, NEW got \in Seq(Nat),
           ok \/ kind # "datagram" => x \in Datagram
    PROVE  Done(kind, x, ok, got) \in Completion
  BY DEF Done, Completion

LEMMA DatagramType == \A x \in Datagram : x \in 0..MaxDatagrams /\ x \in Nat
  BY MaxDatagramsAssumption DEF Datagram

LEMMA AppendType ==
    ASSUME NEW s \in Seq(Completion), NEW d \in Completion
    PROVE  Append(s, d) \in Seq(Completion)
  OBVIOUS

LEMMA FailedType ==
    ASSUME NEW kind \in {"connect", "write", "read"}, NEW x \in Datagram,
           NEW ok \in BOOLEAN
    PROVE  Done(kind, x, ok, <<>>) \in Completion
<1>1. <<>> \in Seq(Nat)
  OBVIOUS
<1> QED
  BY <1>1, DoneType, DatagramType

LEMMA ReadsType ==
    ASSUME NEW reads \in Seq(Datagram)
    PROVE  [i \in DOMAIN reads |-> Done("read", reads[i], FALSE, <<>>)]
                \in Seq(Completion)
<1> DEFINE s == [i \in DOMAIN reads |-> Done("read", reads[i], FALSE, <<>>)]
<1>1. DOMAIN reads = 1..Len(reads) /\ Len(reads) \in Nat
  OBVIOUS
<1>2. ASSUME NEW i \in 1..Len(reads) PROVE s[i] \in Completion
  <2>1. reads[i] \in Datagram
    OBVIOUS
  <2>2. Done("read", reads[i], FALSE, <<>>) \in Completion
    BY <2>1, FailedType
  <2> QED
    BY <1>1, <2>2
<1>3. s = [i \in 1..Len(reads) |-> s[i]]
  BY <1>1
<1> HIDE DEF s
<1>4. s \in [1..Len(reads) -> Completion]
  BY <1>2, <1>3
<1>5. s \in Seq(Completion)
  BY <1>1, <1>4
<1> QED
  BY <1>5 DEF s

LEMMA WritesType ==
    ASSUME NEW writes \in Seq(Operation), NEW ok \in BOOLEAN
    PROVE  [i \in DOMAIN writes |->
                Done(writes[i].kind, writes[i].x, ok, <<>>)] \in Seq(Completion)
<1> DEFINE s == [i \in DOMAIN writes |->
                    Done(writes[i].kind, writes[i].x, ok, <<>>)]
<1>1. DOMAIN writes = 1..Len(writes) /\ Len(writes) \in Nat
  OBVIOUS
<1>2. ASSUME NEW i \in 1..Len(writes) PROVE s[i] \in Completion
  <2>1. writes[i] \in Operation
    BY <1>1
  <2>2. writes[i].kind \in {"connect", "write", "read"} /\ writes[i].x \in Datagram
    BY <2>1 DEF Operation
  <2> QED
    BY <1>1, <2>2, FailedType
<1>3. s = [i \in 1..Len(writes) |-> s[i]]
  BY <1>1
<1> HIDE DEF s
<1>4. s \in [1..Len(writes) -> Completion]
  BY <1>2, <1>3
<1>5. s \in Seq(Completion)
  BY <1>1, <1>4
<1> QED
  BY <1>5 DEF s

LEMMA AbortedType == SocketOK => Aborted \in Seq(Completion)
<1> SUFFICES ASSUME SocketOK PROVE Aborted \in Seq(Completion)
  OBVIOUS
<1>1. socket_.reads \in Seq(Datagram) /\ socket_.writes \in Seq(Operation)
  BY DEF SocketOK, Socket
<1>2. [i \in DOMAIN socket_.reads |->
        Done("read", socket_.reads[i], FALSE, <<>>)] \in Seq(Completion)
  BY <1>1, ReadsType
<1>3. [i \in DOMAIN socket_.writes |->
        Done(socket_.writes[i].kind, socket_.writes[i].x, FALSE, <<>>)]
            \in Seq(Completion)
  BY <1>1, WritesType
<1> QED
  BY <1>2, <1>3 DEF Aborted

\* Closing socket_ leaves no connection open on the client's side.
LEMMA ClosedType ==
    ASSUME ConnsOK
    PROVE  /\ Closed \in Seq(Record)
           /\ \A c \in DOMAIN Closed : ~Closed[c].client
<1>1. /\ conns \in Seq(Record)
      /\ DOMAIN conns = 1..Len(conns) /\ Len(conns) \in Nat
      /\ \A c \in DOMAIN conns : conns[c] \in Record
  BY DEF ConnsOK
<1>2. DOMAIN Closed = 1..Len(conns)
  BY <1>1 DEF Closed, HangUp
<1>3. ASSUME NEW c \in 1..Len(conns)
      PROVE  Closed[c] \in Record /\ ~Closed[c].client
  <2>1. CASE c = socket_.conn
    <3>1. Closed[c] = [conns[c] EXCEPT !.client = FALSE, !.down = <<>>]
      BY <1>1, <2>1 DEF Closed, HangUp
    <3>2. conns[c] \in Record /\ <<>> \in Seq(Seq(Nat))
      BY <1>1
    <3> QED
      BY <3>1, <3>2 DEF Record
  <2>2. CASE c # socket_.conn
    <3>1. Closed[c] = conns[c]
      BY <1>1, <2>2 DEF Closed, HangUp
    <3>2. conns[c] \in Record /\ ~conns[c].client
      BY <1>1, <2>2 DEF ConnsOK, OneOpen, Record
    <3> QED
      BY <3>1, <3>2
  <2> QED
    BY <2>1, <2>2
<1>4. Closed \in [1..Len(conns) -> Record]
  <2>1. Closed = [c \in 1..Len(conns) |-> Closed[c]]
    BY <1>1 DEF Closed, HangUp
  <2> HIDE DEF Closed
  <2> QED
    BY <1>3, <2>1
<1> QED
  BY <1>1, <1>2, <1>3, <1>4

-----------------------------------------------------------------------------
(* The handlers.                                                           *)

\* What a handler finds at the head of ready.
LEMMA HeadType ==
    ASSUME ReadyOK, ready # <<>>
    PROVE  /\ Tail(ready) \in Seq(Completion)
           /\ Head(ready) \in Completion
           /\ Head(ready).ok \in BOOLEAN
           /\ Head(ready).ok \/ Head(ready).kind # "datagram"
                => Head(ready).x \in Datagram
<1>1. Head(ready) \in Completion /\ Tail(ready) \in Seq(Completion)
  BY DEF ReadyOK
<1> QED
  BY <1>1 DEF Completion

\* A connect: what was queued is aborted, no connection is open.
LEMMA ConnectToType ==
    ASSUME Inv, ready # <<>>, NEW n \in 1..Len(tcp_endpoints_),
           NEW x \in Datagram, ConnectTo(n, x)
    PROVE  ConnsOK' /\ SocketOK' /\ ReadyOK' /\ ExchangeOK'
<1>1. ConnsOK /\ SocketOK /\ ReadyOK /\ ExchangeOK
  BY DEF Inv
<1>2. ReadyOK'
  <2>1. ready' = Tail(ready) \o Aborted
    BY DEF ConnectTo
  <2>2. Tail(ready) \in Seq(Completion) /\ Aborted \in Seq(Completion)
    BY <1>1, HeadType, AbortedType
  <2> QED
    BY <2>1, <2>2 DEF ReadyOK
<1>3. conns' \in Seq(Record) /\ \A c \in DOMAIN conns' : ~conns'[c].client
  BY <1>1, ClosedType DEF ConnectTo
<1>4. SocketOK'
  <2>1. [kind |-> "connect", x |-> x] \in Operation
    BY DEF Operation
  <2>2. /\ <<[kind |-> "connect", x |-> x]>> \in Seq(Operation)
        /\ <<>> \in Seq(Datagram)
    BY <2>1
  <2>3. socket_' \in Socket /\ socket_'.conn = 0
    BY <2>2 DEF ConnectTo, Socket
  <2> QED
    BY <1>3, <2>3 DEF SocketOK
<1>5. ConnsOK'
  BY <1>3 DEF ConnsOK, OneOpen
<1>6. ExchangeOK'
  BY <1>1 DEF ConnectTo, ExchangeOK, tcp_endpoints_
<1> QED
  BY <1>2, <1>4, <1>5, <1>6

LEMMA FailType ==
    ASSUME Inv, ready # <<>>, NEW x \in Datagram, Fail(x)
    PROVE  ConnsOK' /\ SocketOK' /\ ReadyOK' /\ ExchangeOK'
<1>1. ConnsOK /\ SocketOK /\ ReadyOK /\ ExchangeOK
  BY DEF Inv
<1>2. ReadyOK'
  BY <1>1, HeadType DEF Fail, ReadyOK
<1>3. ConnsOK' /\ SocketOK'
  BY <1>1 DEF Fail, tcpVars, ConnsOK, SocketOK, OneOpen
<1>4. ExchangeOK'
  BY <1>1 DEF Fail, ExchangeOK
<1> QED
  BY <1>2, <1>3, <1>4

\* A record of conns changed in a field other than client.
LEMMA SameClients ==
    ASSUME ConnsOK, SocketOK, NEW c \in DOMAIN conns, NEW r \in Record,
           r.client = conns[c].client,
           conns' = [conns EXCEPT ![c] = r],
           socket_'.conn = socket_.conn
    PROVE  ConnsOK' /\ Len(conns') = Len(conns)
<1>1. conns \in Seq(Record) /\ DOMAIN conns = 1..Len(conns) /\ Len(conns) \in Nat
  BY DEF ConnsOK
<1>2. conns' \in [1..Len(conns) -> Record]
  BY <1>1
<1>3. conns' \in Seq(Record) /\ Len(conns') = Len(conns)
  BY <1>1, <1>2
<1>4. OneOpen'
  <2>1. \A d \in 1..Len(conns) : conns'[d].client = conns[d].client
    BY <1>1
  <2> QED
    BY <1>1, <1>3, <2>1 DEF ConnsOK, OneOpen
<1> QED
  BY <1>3, <1>4 DEF ConnsOK

LEMMA WriteType ==
    ASSUME Inv, ready # <<>>, NEW x \in Datagram, doWrite(x)
    PROVE  ConnsOK' /\ SocketOK' /\ ReadyOK' /\ ExchangeOK'
<1> USE DEF doWrite
<1>1. ConnsOK /\ SocketOK /\ ReadyOK /\ ExchangeOK
  BY DEF Inv
<1>2. ExchangeOK'
  BY <1>1 DEF Write, ExchangeOK
<1>3. Tail(ready) \in Seq(Completion)
  BY <1>1, HeadType
<1>4. CASE /\ Connecting
           /\ socket_' = [socket_ EXCEPT !.writes =
                            Append(@, [kind |-> "write", x |-> x])]
           /\ ready' = Tail(ready)
           /\ UNCHANGED conns
  <2>1. [kind |-> "write", x |-> x] \in Operation
    BY DEF Operation
  <2>2. socket_.writes \in Seq(Operation)
    BY <1>1 DEF SocketOK, Socket
  <2>3. Append(socket_.writes, [kind |-> "write", x |-> x]) \in Seq(Operation)
    BY <2>1, <2>2
  <2>4. socket_' \in Socket /\ socket_'.conn = socket_.conn
    BY <1>1, <1>4, <2>3 DEF SocketOK, Socket
  <2> QED
    BY <1>1, <1>2, <1>3, <1>4, <2>4
       DEF SocketOK, ReadyOK, ConnsOK, OneOpen
<1>5. CASE /\ socket_.conn # 0
           /\ conns' = IF conns[socket_.conn].server = "closed" THEN conns
                       ELSE [conns EXCEPT ![socket_.conn].up = Append(@, x)]
           /\ ready' = Append(Tail(ready), Done("write", x, TRUE, <<>>))
           /\ UNCHANGED socket_
  <2>1. ReadyOK'
    <3>1. Done("write", x, TRUE, <<>>) \in Completion
      BY FailedType
    <3>2. Append(Tail(ready), Done("write", x, TRUE, <<>>)) \in Seq(Completion)
      BY <1>3, <3>1, AppendType, Zenon
    <3> QED
      BY <1>5, <3>2 DEF ReadyOK
  <2> DEFINE c == socket_.conn
             r == [conns[c] EXCEPT !.up = Append(@, x)]
  <2>2. c \in DOMAIN conns /\ conns[c] \in Record
    BY <1>1, <1>5 DEF SocketOK, Socket, ConnsOK
  <2>3. r \in Record /\ r.client = conns[c].client
    <3>1. conns[c].up \in Seq(Nat) /\ x \in Nat
      BY <2>2, DatagramType DEF Record
    <3>2. Append(conns[c].up, x) \in Seq(Nat)
      BY <3>1
    <3> QED
      BY <2>2, <3>2 DEF Record
  <2>4. conns' = conns \/ conns' = [conns EXCEPT ![c] = r]
    BY <1>5
  <2> HIDE DEF r, c
  <2>5. ConnsOK' /\ Len(conns') = Len(conns)
    <3>1. CASE conns' = conns
      BY <1>1, <1>5, <3>1 DEF ConnsOK, OneOpen
    <3>2. CASE conns' = [conns EXCEPT ![c] = r]
      BY <1>1, <1>5, <3>2, <2>2, <2>3, SameClients
    <3> QED
      BY <2>4, <3>1, <3>2
  <2> QED
    BY <1>1, <1>2, <1>5, <2>1, <2>5 DEF SocketOK
<1>6. CASE /\ ready' = Append(Tail(ready), Done("write", x, FALSE, <<>>))
           /\ UNCHANGED <<conns, socket_>>
  <2>1. Done("write", x, FALSE, <<>>) \in Completion
    BY FailedType
  <2>2. Append(Tail(ready), Done("write", x, FALSE, <<>>)) \in Seq(Completion)
    BY <1>3, <2>1, AppendType, Zenon
  <2>3. ReadyOK'
    BY <1>6, <2>2 DEF ReadyOK
  <2> QED
    BY <1>1, <1>2, <1>6, <2>3 DEF SocketOK, ConnsOK, OneOpen
<1> QED
  BY <1>4, <1>5, <1>6 DEF Write

\* What a step of the client leaves of the server and the simulator.
Elsewhere == UNCHANGED <<serverVars, simulating, sent>>

LEMMA HandlerStep == Inv /\ Handlers /\ Elsewhere => Inv'
<1> SUFFICES ASSUME Inv, Handlers, Elsewhere PROVE Inv'
  OBVIOUS
<1> DEFINE x == Head(ready).x
<1>1. FlagsOK /\ ConnsOK /\ SocketOK /\ ReadyOK /\ ExchangeOK
  BY DEF Inv
<1>2. ready # <<>>
  BY DEF Handlers, RunDatagram, TakeDatagram, RunConnect, RunWrite, RunRead,
         Running
<1>3. /\ Tail(ready) \in Seq(Completion)
      /\ Head(ready).ok \in BOOLEAN
      /\ Head(ready).ok \/ Head(ready).kind # "datagram" => x \in Datagram
  BY <1>1, <1>2, HeadType
<1>4. FlagsOK'
  BY <1>1 DEF FlagsOK, Handlers, RunDatagram, TakeDatagram, RunConnect,
              RunWrite, RunRead, Elsewhere, serverVars
<1>5. CASE RunDatagram
  <2>1. CASE Head(ready).ok /\ ConnectTo(1, x)
    <3>1. x \in Datagram /\ 1 \in 1..Len(tcp_endpoints_)
      BY <1>3, <2>1 DEF tcp_endpoints_
    <3> QED
      BY <1>2, <1>4, <2>1, <3>1, ConnectToType DEF Inv
  <2>2. CASE /\ ready' = Tail(ready)
             /\ UNCHANGED <<tcpVars, socket_, exchangeVars>>
    BY <1>1, <1>3, <1>4, <2>2
       DEF Inv, ReadyOK, ConnsOK, SocketOK, ExchangeOK, OneOpen,
           tcpVars, exchangeVars
  <2> QED
    BY <1>5, <2>1, <2>2 DEF RunDatagram, TakeDatagram
<1>6. CASE RunConnect
  <2>1. x \in Datagram
    BY <1>3, <1>6 DEF RunConnect, Running
  <2>2. CASE doWrite(x)
    BY <1>2, <1>4, <2>1, <2>2, WriteType DEF Inv
  <2>3. CASE Another(x) /\ ConnectTo(attempt[x] + 1, x)
    <3>1. attempt[x] + 1 \in 1..Len(tcp_endpoints_)
      BY <1>1, <2>1, <2>3 DEF Another, ExchangeOK, tcp_endpoints_
    <3> QED
      BY <1>2, <1>4, <2>1, <2>3, <3>1, ConnectToType DEF Inv
  <2>4. CASE Fail(x)
    BY <1>2, <1>4, <2>1, <2>4, FailType DEF Inv
  <2> QED
    BY <1>6, <2>2, <2>3, <2>4 DEF RunConnect
<1>7. CASE RunWrite
  <2>1. x \in Datagram
    BY <1>3, <1>7 DEF RunWrite, Running
  <2>2. CASE Fail(x)
    BY <1>2, <1>4, <2>1, <2>2, FailType DEF Inv
  <2>3. CASE /\ exchange' = [exchange EXCEPT ![x] = "reading"]
             /\ UNCHANGED <<tcpVars, attempt, answer>>
             /\ \/ /\ socket_' = [socket_ EXCEPT !.reads = Append(@, x)]
                   /\ ready' = Tail(ready)
                \/ /\ ready' = Append(Tail(ready), Done("read", x, FALSE, <<>>))
                   /\ UNCHANGED socket_
    <3>1. ExchangeOK'
      BY <1>1, <2>3 DEF ExchangeOK
    <3>2. ReadyOK'
      <4>1. Done("read", x, FALSE, <<>>) \in Completion
        BY <2>1, FailedType
      <4>2. Append(Tail(ready), Done("read", x, FALSE, <<>>)) \in Seq(Completion)
        BY <1>3, <4>1, AppendType, Zenon
      <4> QED
        BY <1>3, <2>3, <4>2 DEF ReadyOK
    <3>3. socket_' \in Socket /\ socket_'.conn = socket_.conn
      <4>1. socket_.reads \in Seq(Datagram) /\ socket_ \in Socket
        BY <1>1 DEF SocketOK, Socket
      <4>2. Append(socket_.reads, x) \in Seq(Datagram)
        BY <2>1, <4>1
      <4> QED
        BY <2>3, <4>1, <4>2 DEF Socket
    <3> QED
      BY <1>1, <1>4, <2>3, <3>1, <3>2, <3>3
         DEF Inv, ConnsOK, OneOpen, SocketOK, tcpVars
  <2> QED
    BY <1>7, <2>2, <2>3 DEF RunWrite
<1>8. CASE RunRead
  <2>1. x \in Datagram
    BY <1>3, <1>8 DEF RunRead, Running
  <2>2. CASE Fail(x)
    BY <1>2, <1>4, <2>1, <2>2, FailType DEF Inv
  <2>3. CASE /\ exchange' = [exchange EXCEPT ![x] = "answered"]
             /\ socket_' = [open |-> FALSE, conn |-> 0,
                            writes |-> <<>>, reads |-> <<>>]
             /\ ready' = Tail(ready) \o Aborted
             /\ conns' = Closed
             /\ attempt' = attempt
    <3>1. ExchangeOK'
      BY <1>1, <2>3 DEF ExchangeOK
    <3>2. ReadyOK'
      BY <1>1, <1>3, <2>3, AbortedType DEF ReadyOK
    <3>3. conns' \in Seq(Record) /\ \A c \in DOMAIN conns' : ~conns'[c].client
      BY <1>1, <2>3, ClosedType
    <3>4. ConnsOK'
      BY <3>3 DEF ConnsOK, OneOpen
    <3>5. SocketOK'
      <4>1. <<>> \in Seq(Operation) /\ <<>> \in Seq(Datagram)
        OBVIOUS
      <4> QED
        BY <2>3, <3>3, <4>1 DEF SocketOK, Socket
    <3> QED
      BY <1>4, <3>1, <3>2, <3>4, <3>5 DEF Inv
  <2> QED
    BY <1>8, <2>2, <2>3 DEF RunRead
<1> QED
  BY <1>5, <1>6, <1>7, <1>8 DEF Handlers
-----------------------------------------------------------------------------
(* The sockets of the client, and its main.                                *)

LEMMA ReceiveStep == Inv /\ Receive /\ Elsewhere => Inv'
<1> SUFFICES ASSUME Inv, Receive, Elsewhere PROVE Inv'
  OBVIOUS
<1>1. FlagsOK /\ ConnsOK /\ SocketOK /\ ReadyOK /\ ExchangeOK
  BY DEF Inv
<1>2. Head(inbox) \in Datagram /\ Tail(inbox) \in Seq(Datagram)
  BY <1>1 DEF Receive, FlagsOK
<1>3. Done("datagram", Head(inbox), TRUE, <<>>) \in Completion
  <2>1. <<>> \in Seq(Nat) /\ Head(inbox) \in 0..MaxDatagrams
    BY <1>2, DatagramType
  <2> QED
    BY <1>2, <2>1, DoneType
<1>4. ReadyOK'
  <2>1. ready \in Seq(Completion)
    BY <1>1 DEF ReadyOK
  <2>2. Append(ready, Done("datagram", Head(inbox), TRUE, <<>>))
            \in Seq(Completion)
    BY <1>3, <2>1, AppendType, Zenon
  <2> QED
    BY <2>2 DEF Receive, ReadyOK
<1>5. FlagsOK'
  BY <1>1, <1>2 DEF FlagsOK, Receive, Elsewhere, serverVars
<1> QED
  BY <1>1, <1>4, <1>5 DEF Inv, Receive, ConnsOK, SocketOK, ExchangeOK,
     OneOpen, tcpVars, exchangeVars

\* A connection just established is the one of socket_, and no other is open.
LEMMA EstablishStep == Inv /\ Establish /\ Elsewhere => Inv'
<1> SUFFICES ASSUME Inv, Establish, Elsewhere PROVE Inv'
  OBVIOUS
<1>1. FlagsOK /\ ConnsOK /\ SocketOK /\ ReadyOK /\ ExchangeOK
  BY DEF Inv
<1> DEFINE ok == Accepts(tcp_endpoints_[attempt[Head(socket_.writes).x]])
           n == Len(socket_.writes) - 1
           new == NewConn([i \in 1..n |-> Garbage])
<1>2. /\ conns' = IF ok THEN Append(conns, new) ELSE conns
      /\ socket_' = [socket_ EXCEPT
            !.conn = IF ok THEN Len(conns) + 1 ELSE 0,
            !.writes = <<>>, !.reads = IF ok THEN @ ELSE <<>>]
      /\ ready' = ready \o
            [i \in DOMAIN socket_.writes |->
                Done(socket_.writes[i].kind, socket_.writes[i].x, ok, <<>>)]
            \o (IF ok THEN <<>>
                ELSE [i \in DOMAIN socket_.reads |->
                        Done("read", socket_.reads[i], FALSE, <<>>)])
      /\ socket_.conn = 0 /\ socket_.writes # <<>>
  BY DEF Establish, Connecting
<1>3. /\ socket_ \in Socket /\ socket_.writes \in Seq(Operation)
      /\ socket_.reads \in Seq(Datagram)
  BY <1>1 DEF SocketOK, Socket
<1>4. ok \in BOOLEAN
  <2>1. listening \in BOOLEAN \/ listening \notin BOOLEAN
    OBVIOUS
  <2> QED
    BY DEF Accepts
<1>5. new \in Record /\ new.client
  <2>0. \A w \in Seq(Operation) : w # <<>> => Len(w) - 1 \in Nat
    OBVIOUS
  <2>1. n \in Nat
    BY <1>2, <1>3, <2>0
  <2>2. Garbage \in Nat
    BY DEF Garbage
  <2>3. [i \in 1..n |-> Garbage] \in Seq(Nat)
    BY <2>1, <2>2
  <2>4. <<>> \in Seq(Seq(Nat))
    OBVIOUS
  <2> QED
    BY <2>3, <2>4 DEF NewConn, Record, ServerSide
<1> HIDE DEF ok, n, new
<1>6. ReadyOK'
  <2>1. [i \in DOMAIN socket_.writes |->
            Done(socket_.writes[i].kind, socket_.writes[i].x, ok, <<>>)]
                \in Seq(Completion)
    BY <1>3, <1>4, WritesType
  <2>2. [i \in DOMAIN socket_.reads |->
            Done("read", socket_.reads[i], FALSE, <<>>)] \in Seq(Completion)
    BY <1>3, ReadsType
  <2>3. ready \in Seq(Completion) /\ <<>> \in Seq(Completion)
    BY <1>1 DEF ReadyOK
  <2> QED
    BY <1>2, <2>1, <2>2, <2>3 DEF ReadyOK
<1>7. conns \in Seq(Record) /\ \A c \in DOMAIN conns : ~conns[c].client
  BY <1>1, <1>2 DEF ConnsOK, OneOpen, Record
<1>8. ConnsOK' /\ SocketOK'
  <2>0. <<>> \in Seq(Operation) /\ <<>> \in Seq(Datagram)
    OBVIOUS
  <2>1. CASE ok
    <3>1. conns' = Append(conns, new) /\ socket_'.conn = Len(conns) + 1
      BY <1>2, <1>3, <2>1 DEF Socket
    <3>2. /\ conns' \in Seq(Record) /\ Len(conns') = Len(conns) + 1
          /\ Len(conns) \in Nat
          /\ \A c \in 1..Len(conns) : conns'[c] = conns[c]
          /\ DOMAIN conns' = 1..(Len(conns) + 1)
          /\ DOMAIN conns = 1..Len(conns)
      BY <1>5, <1>7, <3>1
    <3>3. OneOpen'
      BY <1>7, <3>1, <3>2 DEF OneOpen
    <3>4. socket_' \in Socket
      <4>1. socket_' = [socket_ EXCEPT !.conn = Len(conns) + 1,
                                       !.writes = <<>>, !.reads = @]
        BY <1>2, <2>1
      <4>2. Len(conns) + 1 \in Nat
        BY <3>2
      <4> QED
        BY <1>3, <2>0, <4>1, <4>2 DEF Socket
    <3> QED
      BY <3>1, <3>2, <3>3, <3>4 DEF ConnsOK, SocketOK
  <2>2. CASE ~ok
    <3>1. conns' = conns /\ socket_'.conn = 0
      BY <1>2, <1>3, <2>2 DEF Socket
    <3>2. socket_' \in Socket
      BY <1>2, <1>3, <2>0, <2>2 DEF Socket
    <3> QED
      BY <1>7, <3>1, <3>2 DEF ConnsOK, SocketOK, OneOpen
  <2> QED
    BY <2>1, <2>2
<1>9. FlagsOK' /\ ExchangeOK'
  BY <1>1 DEF FlagsOK, ExchangeOK, Establish, Elsewhere, serverVars, exchangeVars
<1> QED
  BY <1>6, <1>8, <1>9 DEF Inv

LEMMA ArriveStep == Inv /\ Arrive /\ Elsewhere => Inv'
<1> SUFFICES ASSUME Inv, Arrive, Elsewhere PROVE Inv'
  OBVIOUS
<1>1. FlagsOK /\ ConnsOK /\ SocketOK /\ ReadyOK /\ ExchangeOK
  BY DEF Inv
<1> DEFINE c == socket_.conn
           x == Head(socket_.reads)
<1>2. /\ socket_ \in Socket /\ c \in DOMAIN conns
      /\ conns[c] \in Record /\ conns[c].down \in Seq(Seq(Nat))
      /\ x \in Datagram /\ Tail(socket_.reads) \in Seq(Datagram)
  <2>1. /\ socket_ \in Socket /\ c \in DOMAIN conns
        /\ socket_.reads \in Seq(Datagram) /\ socket_.reads # <<>>
    BY <1>1 DEF SocketOK, Socket, ConnsOK, Arrive
  <2>2. conns[c] \in Record
    BY <1>1, <2>1 DEF ConnsOK
  <2> QED
    BY <2>1, <2>2 DEF Record
<1>3. /\ socket_' \in Socket /\ socket_'.conn = c
  BY <1>2 DEF Arrive, Socket
<1>4. ready \in Seq(Completion)
  BY <1>1 DEF ReadyOK
<1>5. FlagsOK' /\ ExchangeOK'
  BY <1>1 DEF FlagsOK, ExchangeOK, Arrive, Elsewhere, serverVars, exchangeVars
<1>6. CASE /\ conns[c].down # <<>>
           /\ ready' = Append(ready, Done("read", x, TRUE, Head(conns[c].down)))
           /\ conns' = [conns EXCEPT ![c].down = Tail(@)]
  <2> DEFINE r == [conns[c] EXCEPT !.down = Tail(@)]
  <2>1. r \in Record /\ r.client = conns[c].client
    <3>1. Tail(conns[c].down) \in Seq(Seq(Nat))
      BY <1>2, <1>6
    <3> QED
      BY <1>2, <3>1 DEF Record
  <2>2. conns' = [conns EXCEPT ![c] = r]
    BY <1>6
  <2>3. Done("read", x, TRUE, Head(conns[c].down)) \in Completion
    <3>1. Head(conns[c].down) \in Seq(Nat)
      BY <1>2, <1>6
    <3> QED
      BY <1>2, <3>1, DoneType, DatagramType
  <2>4. Append(ready, Done("read", x, TRUE, Head(conns[c].down)))
            \in Seq(Completion)
    BY <1>4, <2>3, AppendType, Zenon
  <2>5. ReadyOK'
    BY <1>6, <2>4 DEF ReadyOK
  <2> HIDE DEF r, c
  <2>6. ConnsOK' /\ Len(conns') = Len(conns)
    BY <1>1, <1>2, <1>3, <2>1, <2>2, SameClients DEF c
  <2> QED
    BY <1>1, <1>3, <1>5, <2>5, <2>6 DEF Inv, SocketOK, c
<1>7. CASE /\ ready' = Append(ready, Done("read", x, FALSE, <<>>))
           /\ UNCHANGED conns
  <2>1. Done("read", x, FALSE, <<>>) \in Completion
    BY <1>2, FailedType
  <2>2. Append(ready, Done("read", x, FALSE, <<>>)) \in Seq(Completion)
    BY <1>4, <2>1, AppendType, Zenon
  <2>3. ReadyOK'
    BY <1>7, <2>2 DEF ReadyOK
  <2> QED
    BY <1>1, <1>3, <1>5, <1>7, <2>3
       DEF Inv, SocketOK, ConnsOK, OneOpen
<1> QED
  BY <1>6, <1>7 DEF Arrive

LEMMA MainStep == Inv /\ (StopClient \/ ExitClient) /\ Elsewhere => Inv'
<1> SUFFICES ASSUME Inv, StopClient \/ ExitClient, Elsewhere PROVE Inv'
  OBVIOUS
<1>1. FlagsOK /\ ConnsOK /\ SocketOK /\ ReadyOK /\ ExchangeOK
  BY DEF Inv
<1>2. CASE StopClient
  <2>1. FlagsOK'
    <3>1. <<>> \in Seq(Datagram)
      OBVIOUS
    <3> QED
      BY <1>1, <1>2, <3>1 DEF FlagsOK, StopClient, Elsewhere, serverVars
  <2>2. ReadyOK'
    <3>1. <<>> \in Seq(Nat) /\ 0 \in 0..MaxDatagrams
      BY MaxDatagramsAssumption
    <3>2. Done("datagram", 0, FALSE, <<>>) \in Completion
      BY <3>1, DoneType
    <3>3. ready \in Seq(Completion)
      BY <1>1 DEF ReadyOK
    <3>4. Append(ready, Done("datagram", 0, FALSE, <<>>)) \in Seq(Completion)
      BY <3>2, <3>3, AppendType, Zenon
    <3> QED
      BY <1>2, <3>3, <3>4 DEF StopClient, ReadyOK
  <2> QED
    BY <1>1, <1>2, <2>1, <2>2 DEF Inv, StopClient, ConnsOK, SocketOK,
       ExchangeOK, OneOpen, tcpVars, exchangeVars
<1>3. CASE ExitClient
  <2>1. conns' \in Seq(Record) /\ \A c \in DOMAIN conns' : ~conns'[c].client
    BY <1>1, <1>3, ClosedType DEF ExitClient
  <2>2. Len(conns') = Len(conns)
    <3>1. DOMAIN conns' = DOMAIN conns
      BY <1>3 DEF ExitClient, Closed, HangUp
    <3> QED
      BY <1>1, <2>1, <3>1 DEF ConnsOK
  <2>3. FlagsOK' /\ ExchangeOK' /\ ReadyOK'
    BY <1>1, <1>3 DEF FlagsOK, ExchangeOK, ReadyOK, ExitClient, Elsewhere,
                      serverVars, exchangeVars
  <2>4. SocketOK'
    <3>1. <<>> \in Seq(Operation) /\ <<>> \in Seq(Datagram)
      OBVIOUS
    <3> QED
      BY <1>1, <1>3, <2>2, <3>1 DEF ExitClient, SocketOK, Socket, ConnsOK
  <2> QED
    BY <2>1, <2>3, <2>4 DEF Inv, ConnsOK, OneOpen
<1> QED
  BY <1>2, <1>3
-----------------------------------------------------------------------------
(* The server, the network and the simulator, which leave socket_ alone.   *)

Beyond == UNCHANGED <<forwarderVars, simulating, sent>>

\* A step that keeps every connection's client keeps what the client knows.
LEMMA OtherConns ==
    ASSUME Inv, FlagsOK', Beyond,
           conns' \in Seq(Record), Len(conns') = Len(conns),
           \A c \in DOMAIN conns : conns'[c].client = conns[c].client
    PROVE  Inv'
<1>1. FlagsOK /\ ConnsOK /\ SocketOK /\ ReadyOK /\ ExchangeOK
  BY DEF Inv
<1>2. DOMAIN conns' = DOMAIN conns
  BY <1>1 DEF ConnsOK
<1>3. ConnsOK' /\ SocketOK'
  BY <1>1, <1>2 DEF ConnsOK, SocketOK, OneOpen, Beyond, forwarderVars
<1>4. ReadyOK' /\ ExchangeOK'
  BY <1>1 DEF ReadyOK, ExchangeOK, Beyond, forwarderVars
<1> QED
  BY <1>3, <1>4 DEF Inv

\* One connection changes, on the server's side.
LEMMA OneConn ==
    ASSUME Inv, FlagsOK', Beyond, NEW c \in DOMAIN conns, NEW r \in Record,
           r.client = conns[c].client, conns' = [conns EXCEPT ![c] = r]
    PROVE  Inv'
<1>1. ConnsOK /\ conns \in Seq(Record)
  BY DEF Inv, ConnsOK
<1>2. /\ conns' \in Seq(Record) /\ Len(conns') = Len(conns)
      /\ \A d \in DOMAIN conns : conns'[d].client = conns[d].client
  BY <1>1
<1> QED
  BY <1>2, OtherConns

\* Every connection changes, on the server's side.
LEMMA EveryConn ==
    ASSUME Inv, FlagsOK', Beyond,
           \A c \in DOMAIN conns : /\ conns'[c] \in Record
                                   /\ conns'[c].client = conns[c].client,
           conns' = [c \in DOMAIN conns |-> conns'[c]]
    PROVE  Inv'
<1>1. /\ conns \in Seq(Record) /\ Len(conns) \in Nat
      /\ DOMAIN conns = 1..Len(conns)
  BY DEF Inv, ConnsOK
<1>2. conns' \in [1..Len(conns) -> Record]
  BY <1>1
<1>3. /\ conns' \in Seq(Record) /\ Len(conns') = Len(conns)
  BY <1>1, <1>2
<1>4. \A c \in DOMAIN conns : conns'[c].client = conns[c].client
  BY <1>1
<1> QED
  BY <1>3, <1>4, OtherConns

LEMMA RecordType ==
    ASSUME Inv, NEW c \in DOMAIN conns
    PROVE  /\ conns[c] \in Record
           /\ conns[c].up \in Seq(Nat) /\ conns[c].down \in Seq(Seq(Nat))
           /\ <<>> \in Seq(Nat) /\ <<>> \in Seq(Seq(Nat))
<1>1. conns[c] \in Record
  BY DEF Inv, ConnsOK
<1> QED
  BY <1>1 DEF Record

\* What a close by the server leaves.
LEMMA ShutStep ==
    ASSUME Inv, FlagsOK', Beyond, NEW c \in DOMAIN conns, conns' \in Shut(c)
    PROVE  Inv'
<1>1. PICK d \in Seq(Seq(Nat)) :
        conns' = [conns EXCEPT ![c].server = "closed", ![c].up = <<>>,
                               ![c].down = d]
  BY RecordType DEF Shut
<1> DEFINE r == [conns[c] EXCEPT !.server = "closed", !.up = <<>>, !.down = d]
<1>2. r \in Record /\ r.client = conns[c].client
  BY RecordType DEF Record, ServerSide
<1>3. conns' = [conns EXCEPT ![c] = r]
  BY <1>1 DEF Inv, ConnsOK
<1> HIDE DEF r
<1> QED
  BY <1>2, <1>3, OneConn

LEMMA ServerStep == Inv /\ ServerNext /\ Beyond => Inv'
<1> SUFFICES ASSUME Inv, ServerNext, Beyond PROVE Inv'
  OBVIOUS
<1>1. FlagsOK'
  <2>1. FlagsOK
    BY DEF Inv
  <2>2. is_running_' \in BOOLEAN /\ exited' \in BOOLEAN
        /\ accept' \in {"waiting", "completed", "aborted", "restarting", "ended"}
    <3>1. CASE RunAccept \/ NextAccept \/ StopServer \/ CloseAcceptor
      BY <2>1, <3>1 DEF FlagsOK, RunAccept, NextAccept, StartSession,
         StopServer, CloseAcceptor, CloseListening
    <3>2. CASE ExitServer
      BY <2>1, <3>2 DEF FlagsOK, ExitServer
    <3>3. ASSUME NEW c \in DOMAIN conns,
                 AcceptCompletes(c) \/ Serve(c) \/ Finish(c)
          PROVE  /\ is_running_' \in BOOLEAN /\ exited' \in BOOLEAN
                 /\ accept' \in {"waiting", "completed", "aborted",
                                 "restarting", "ended"}
      BY <2>1, <3>3 DEF FlagsOK, AcceptCompletes, Serve, Finish, serverVars
    <3> QED
      BY <3>1, <3>2, <3>3 DEF ServerNext, ServerHandlers
  <2> QED
    BY <2>1, <2>2 DEF FlagsOK, Beyond, forwarderVars
<1>2. CASE RunAccept
  <2>1. conns' = [c \in DOMAIN conns |->
                    IF conns[c].server = "accepted"
                    THEN [conns[c] EXCEPT !.server = "reading"] ELSE conns[c]]
    BY <1>2 DEF RunAccept, StartSession
  <2>2. conns' = [c \in DOMAIN conns |-> conns'[c]]
    BY <2>1
  <2>3. ASSUME NEW c \in DOMAIN conns
        PROVE  conns'[c] \in Record /\ conns'[c].client = conns[c].client
    <3>1. [conns[c] EXCEPT !.server = "reading"] \in Record
      BY RecordType DEF Record, ServerSide
    <3> QED
      BY <2>1, <3>1, RecordType DEF Record
  <2> QED
    BY <1>1, <2>2, <2>3, EveryConn
<1>3. ASSUME NEW c \in DOMAIN conns, AcceptCompletes(c) PROVE Inv'
  <2> DEFINE r == [conns[c] EXCEPT !.server = "accepted"]
  <2>1. r \in Record /\ r.client = conns[c].client
    BY RecordType DEF Record, ServerSide
  <2>2. conns' = [conns EXCEPT ![c] = r]
    BY <1>3 DEF AcceptCompletes, Inv, ConnsOK
  <2> HIDE DEF r
  <2> QED
    BY <1>1, <2>1, <2>2, OneConn
<1>4. ASSUME NEW c \in DOMAIN conns, Serve(c) PROVE Inv'
  <2>1. CASE conns' \in Shut(c)
    BY <1>1, <2>1, ShutStep
  <2>2. CASE \E k \in 1..Len(conns[c].up) :
               conns' = [conns EXCEPT
                            ![c].server = "answered",
                            ![c].up = SubSeq(@, k + 1, Len(@)),
                            ![c].down = IF conns[c].client
                                        THEN <<SubSeq(conns[c].up, 1, k)>>
                                        ELSE <<>>]
    <3>1. PICK k \in 1..Len(conns[c].up) :
               conns' = [conns EXCEPT
                            ![c].server = "answered",
                            ![c].up = SubSeq(@, k + 1, Len(@)),
                            ![c].down = IF conns[c].client
                                        THEN <<SubSeq(conns[c].up, 1, k)>>
                                        ELSE <<>>]
      BY <2>2
    <3> DEFINE u == SubSeq(conns[c].up, k + 1, Len(conns[c].up))
               d == IF conns[c].client THEN <<SubSeq(conns[c].up, 1, k)>>
                    ELSE <<>>
               r == [conns[c] EXCEPT !.server = "answered", !.up = u,
                                     !.down = d]
    <3>2. \A s \in Seq(Nat) : \A j \in 1..Len(s) :
             SubSeq(s, j + 1, Len(s)) \in Seq(Nat) /\ SubSeq(s, 1, j) \in Seq(Nat)
      OBVIOUS
    <3>3. u \in Seq(Nat) /\ SubSeq(conns[c].up, 1, k) \in Seq(Nat)
      BY <3>2, RecordType
    <3>4. d \in Seq(Seq(Nat))
      BY <3>3, RecordType
    <3>5. conns' = [conns EXCEPT ![c] = r]
      BY <3>1 DEF Inv, ConnsOK
    <3> HIDE DEF u, d
    <3>6. r \in Record /\ r.client = conns[c].client
      BY <3>3, <3>4, RecordType DEF Record, ServerSide
    <3> HIDE DEF r
    <3> QED
      BY <1>1, <3>5, <3>6, OneConn
  <2> QED
    BY <1>4, <2>1, <2>2 DEF Serve
<1>5. ASSUME NEW c \in DOMAIN conns, Finish(c) PROVE Inv'
  BY <1>1, <1>5, ShutStep DEF Finish
<1>6. CASE CloseAcceptor
  <2>1. conns' = [c \in DOMAIN conns |->
                    IF conns[c].server = "backlog"
                    THEN [conns[c] EXCEPT !.server = "closed", !.up = <<>>]
                    ELSE conns[c]]
    BY <1>6 DEF CloseAcceptor, CloseListening
  <2>2. conns' = [c \in DOMAIN conns |-> conns'[c]]
    BY <2>1
  <2>3. ASSUME NEW c \in DOMAIN conns
        PROVE  conns'[c] \in Record /\ conns'[c].client = conns[c].client
    <3>1. [conns[c] EXCEPT !.server = "closed", !.up = <<>>] \in Record
      BY RecordType DEF Record, ServerSide
    <3> QED
      BY <2>1, <3>1, RecordType DEF Record
  <2> QED
    BY <1>1, <2>2, <2>3, EveryConn
<1>7. CASE ExitServer
  <2>1. conns' = [c \in DOMAIN conns |->
                    [conns[c] EXCEPT !.server = "closed", !.up = <<>>]]
    BY <1>7 DEF ExitServer
  <2>2. conns' = [c \in DOMAIN conns |-> conns'[c]]
    BY <2>1
  <2>3. ASSUME NEW c \in DOMAIN conns
        PROVE  conns'[c] \in Record /\ conns'[c].client = conns[c].client
    <3>1. /\ [conns[c] EXCEPT !.server = "closed", !.up = <<>>] \in Record
          /\ [conns[c] EXCEPT !.server = "closed", !.up = <<>>].client
                = conns[c].client
      BY RecordType DEF Record, ServerSide
    <3> QED
      BY <2>1, <3>1
  <2> QED
    BY <1>1, <2>2, <2>3, EveryConn
<1>8. CASE NextAccept \/ StopServer
  <2>1. conns' = conns
    BY <1>8 DEF NextAccept, StopServer, tcpVars
  <2> QED
    BY <1>1, <2>1 DEF Inv, ConnsOK, SocketOK, ReadyOK, ExchangeOK, OneOpen,
       Beyond, forwarderVars
<1> QED
  BY <1>2, <1>3, <1>4, <1>5, <1>6, <1>7, <1>8 DEF ServerNext, ServerHandlers

LEMMA BreakStep ==
    ASSUME Inv, NEW c \in DOMAIN conns, Break(c), UNCHANGED serverVars, Beyond
    PROVE  Inv'
<1>1. FlagsOK'
  BY DEF Inv, FlagsOK, Beyond, forwarderVars, serverVars
<1> DEFINE r == [conns[c] EXCEPT !.server = "closed", !.up = <<>>,
                                 !.down = <<>>]
<1>2. r \in Record /\ r.client = conns[c].client
  BY RecordType DEF Record, ServerSide
<1>3. conns' = [conns EXCEPT ![c] = r]
  BY DEF Break, Inv, ConnsOK
<1> HIDE DEF r
<1> QED
  BY <1>1, <1>2, <1>3, OneConn

LEMMA SimulatorStep == Inv /\ (Send \/ StopSimulator) => Inv'
<1> SUFFICES ASSUME Inv, Send \/ StopSimulator PROVE Inv'
  OBVIOUS
<1>1. FlagsOK /\ ConnsOK /\ SocketOK /\ ReadyOK /\ ExchangeOK
  BY DEF Inv
<1>2. ConnsOK' /\ SocketOK' /\ ReadyOK' /\ ExchangeOK'
  BY <1>1 DEF Send, StopSimulator, ConnsOK, SocketOK, ReadyOK, ExchangeOK,
     OneOpen, tcpVars, forwarderVars, exchangeVars
<1>3. CASE Send
  <2>1. sent' = sent + 1 /\ sent + 1 \in Datagram /\ sent' \in 0..MaxDatagrams
    BY <1>1, <1>3, MaxDatagramsAssumption DEF Send, FlagsOK, Datagram
  <2>2. inbox' = inbox \/ inbox' = Append(inbox, sent + 1)
    BY <1>3 DEF Send
  <2>3. inbox' \in Seq(Datagram)
    BY <1>1, <2>1, <2>2 DEF FlagsOK
  <2> QED
    BY <1>1, <1>2, <1>3, <2>1, <2>3 DEF Inv, FlagsOK, Send, serverVars
<1>4. CASE StopSimulator
  BY <1>1, <1>2, <1>4 DEF Inv, FlagsOK, StopSimulator, serverVars, forwarderVars
<1> QED
  BY <1>3, <1>4

-----------------------------------------------------------------------------
LEMMA InvInit == Init => Inv
<1> SUFFICES ASSUME Init PROVE Inv
  OBVIOUS
<1> USE DEF Init, TcpInit, ForwarderInit, ServerInit
<1>1. /\ <<>> \in Seq(Record) /\ <<>> \in Seq(Datagram)
      /\ <<>> \in Seq(Operation) /\ <<>> \in Seq(Completion)
      /\ Len(conns) = 0 /\ DOMAIN conns = {}
  OBVIOUS
<1>2. FlagsOK
  <2>1. sent \in 0..MaxDatagrams
    BY MaxDatagramsAssumption
  <2>2. inbox \in Seq(Datagram)
    BY <1>1
  <2>3. /\ client_running \in BOOLEAN /\ halted \in BOOLEAN
        /\ receiving \in BOOLEAN
        /\ is_running_ \in BOOLEAN /\ exited \in BOOLEAN
        /\ accept \in {"waiting", "completed", "aborted", "restarting", "ended"}
    OBVIOUS
  <2> QED
    BY <2>1, <2>2, <2>3 DEF FlagsOK
<1>3. ConnsOK /\ SocketOK
  BY <1>1 DEF ConnsOK, SocketOK, Socket, OneOpen
<1>4. ReadyOK /\ ExchangeOK
  BY <1>1 DEF ReadyOK, ExchangeOK, tcp_endpoints_
<1> QED
  BY <1>2, <1>3, <1>4 DEF Inv

LEMMA InvStep == Inv /\ [Next]_vars => Inv'
<1> SUFFICES ASSUME Inv, [Next]_vars PROVE Inv'
  OBVIOUS
<1>1. CASE Send \/ StopSimulator
  BY <1>1, SimulatorStep
<1>2. CASE Client /\ Elsewhere
  BY <1>2, HandlerStep, ReceiveStep, EstablishStep, ArriveStep DEF Client
<1>3. CASE (StopClient \/ ExitClient) /\ Elsewhere
  BY <1>3, MainStep
<1>4. CASE ServerNext /\ Beyond
  BY <1>4, ServerStep
<1>5. CASE /\ \E c \in DOMAIN conns : Break(c) /\ UNCHANGED serverVars
           /\ Beyond
  BY <1>5, BreakStep
<1>6. CASE UNCHANGED vars
  BY <1>6 DEF vars, Inv, FlagsOK, ConnsOK, SocketOK, ReadyOK, ExchangeOK,
     OneOpen, tcpVars, forwarderVars, serverVars
<1> QED
  BY <1>1, <1>2, <1>3, <1>4, <1>5, <1>6 DEF Next, Elsewhere, Beyond

\* What the handlers of the server and the two statements of stop() do to the
\* acceptor, each taken alone and in whatever order they come.
LEMMA AcceptorStep == AcceptorOK /\ [Next]_vars => AcceptorOK'
<1> SUFFICES ASSUME AcceptorOK, [Next]_vars PROVE AcceptorOK'
  OBVIOUS
<1>1. CASE RunAccept
  BY <1>1 DEF AcceptorOK, RunAccept, StartSession
<1>2. CASE NextAccept
  BY <1>2 DEF AcceptorOK, NextAccept, tcpVars
<1>3. ASSUME NEW c \in DOMAIN conns, AcceptCompletes(c) PROVE AcceptorOK'
  BY <1>3 DEF AcceptorOK, AcceptCompletes
<1>4. ASSUME UNCHANGED <<serverVars, listening>> PROVE AcceptorOK'
  BY <1>4 DEF AcceptorOK, serverVars
<1>5. ASSUME NEW c \in DOMAIN conns, Serve(c) \/ Finish(c) PROVE AcceptorOK'
  BY <1>4, <1>5 DEF Serve, Finish
<1>6. CASE StopServer
  BY <1>6 DEF AcceptorOK, StopServer, tcpVars
<1>7. CASE CloseAcceptor
  BY <1>7 DEF AcceptorOK, CloseAcceptor, CloseListening
<1>8. CASE ExitServer
  BY <1>8 DEF AcceptorOK, ExitServer
<1>9. CASE ServerNext
  BY <1>1, <1>2, <1>3, <1>5, <1>6, <1>7, <1>8, <1>9
     DEF ServerNext, ServerHandlers
<1>10. ASSUME NEW c \in DOMAIN conns, Break(c), UNCHANGED serverVars
       PROVE  AcceptorOK'
  BY <1>4, <1>10 DEF Break
<1>11. CASE (Client \/ StopClient \/ ExitClient) /\ Elsewhere
  <2>1. UNCHANGED listening
    BY <1>11 DEF Client, Handlers, RunDatagram, TakeDatagram, RunConnect,
       RunWrite, RunRead, ConnectTo, doWrite, Write, Fail, Receive, Establish,
       Arrive, StopClient, ExitClient, tcpVars
  <2> QED
    BY <1>4, <1>11, <2>1 DEF Elsewhere
<1>12. CASE Send \/ StopSimulator \/ UNCHANGED vars
  BY <1>4, <1>12 DEF Send, StopSimulator, vars, tcpVars
<1> QED
  BY <1>9, <1>10, <1>11, <1>12 DEF Next, Elsewhere

\* The types of module Forwarding: no attempt ever goes past the endpoints
\* resolved, socket_ never stands for a connection that does not exist, and
\* wherever the two statements of stop() come between the handlers of the
\* accept, none waits on the closed acceptor.
THEOREM TypeCorrect == Spec => []TypeOK
<1>1. Inv /\ AcceptorOK => TypeOK
  <2> SUFFICES ASSUME Inv, AcceptorOK PROVE TypeOK
    OBVIOUS
  <2>1. socket_.conn \in 0..Len(conns)
    BY DEF Inv, SocketOK, Socket, ConnsOK
  <2>2. \A c \in DOMAIN conns : conns[c].server \in ServerSide
    BY RecordType DEF Record
  <2> QED
    BY <2>1, <2>2 DEF Inv, FlagsOK, ExchangeOK, AcceptorOK, TypeOK
<1>2. Init => AcceptorOK
  BY DEF Init, TcpInit, ServerInit, AcceptorOK
<1> QED
  BY <1>1, <1>2, InvInit, InvStep, AcceptorStep, PTL DEF Spec

-----------------------------------------------------------------------------
(* Sequences of operations, and the operations in them.                    *)

\* The operations of a sequence, each named by its kind and its exchange.
Elements(s) == {s[i] : i \in DOMAIN s}
Key(o) == <<o.kind, o.x>>
Keys(s) == {Key(o) : o \in Elements(s)}
Distinct(s) == \A i, j \in DOMAIN s : Key(s[i]) = Key(s[j]) => i = j

\* The same for the sequences that hold only numbers.
Tagged(kind, s) == {<<kind, n>> : n \in Elements(s)}
Once(s) == \A i, j \in DOMAIN s : s[i] = s[j] => i = j

LEMMA ConcatElements ==
    ASSUME NEW S, NEW s \in Seq(S), NEW t \in Seq(S)
    PROVE  Elements(s \o t) = Elements(s) \cup Elements(t)
<1>1. /\ Len(s) \in Nat /\ Len(t) \in Nat
      /\ DOMAIN s = 1..Len(s) /\ DOMAIN t = 1..Len(t)
      /\ DOMAIN (s \o t) = 1..(Len(s) + Len(t))
  OBVIOUS
<1>2. \A i \in 1..Len(s) : (s \o t)[i] = s[i]
  OBVIOUS
<1>3. \A i \in 1..Len(t) : (s \o t)[Len(s) + i] = t[i]
  OBVIOUS
<1>4. \A i \in 1..Len(s) : i \in 1..(Len(s) + Len(t))
  BY <1>1
<1>5. \A i \in 1..Len(t) : Len(s) + i \in 1..(Len(s) + Len(t))
  BY <1>1
<1>6. \A i \in 1..(Len(s) + Len(t)) :
        i \in 1..Len(s) \/ \E j \in 1..Len(t) : i = Len(s) + j
  <2> TAKE i \in 1..(Len(s) + Len(t))
  <2>1. CASE i <= Len(s)
    BY <1>1, <2>1
  <2>2. CASE i > Len(s)
    <3>1. i - Len(s) \in 1..Len(t) /\ i = Len(s) + (i - Len(s))
      BY <1>1, <2>2
    <3> QED
      BY <3>1
  <2> QED
    BY <1>1, <2>1, <2>2
<1>7. ASSUME NEW e \in Elements(s \o t) PROVE e \in Elements(s) \cup Elements(t)
  <2>1. PICK i \in 1..(Len(s) + Len(t)) : e = (s \o t)[i]
    BY <1>1, <1>7, Zenon DEF Elements
  <2>2. CASE i \in 1..Len(s)
    BY <1>1, <1>2, <2>1, <2>2, Zenon DEF Elements
  <2>3. ASSUME NEW j \in 1..Len(t), i = Len(s) + j PROVE e \in Elements(t)
    BY <1>1, <1>3, <2>1, <2>3, Zenon DEF Elements
  <2> QED
    BY <1>6, <2>2, <2>3
<1>8. ASSUME NEW e \in Elements(s) PROVE e \in Elements(s \o t)
  BY <1>1, <1>2, <1>4, <1>8, Zenon DEF Elements
<1>9. ASSUME NEW e \in Elements(t) PROVE e \in Elements(s \o t)
  BY <1>1, <1>3, <1>5, <1>9, Zenon DEF Elements
<1> QED
  BY <1>7, <1>8, <1>9

LEMMA ConcatDistinct ==
    ASSUME NEW S, NEW s \in Seq(S), NEW t \in Seq(S), Distinct(s), Distinct(t),
           Keys(s) \cap Keys(t) = {}
    PROVE  Distinct(s \o t)
<1>1. /\ Len(s) \in Nat /\ Len(t) \in Nat
      /\ DOMAIN s = 1..Len(s) /\ DOMAIN t = 1..Len(t)
      /\ DOMAIN (s \o t) = 1..(Len(s) + Len(t))
  OBVIOUS
<1>2. ASSUME NEW i \in 1..(Len(s) + Len(t))
      PROVE  \/ i \in 1..Len(s) /\ (s \o t)[i] = s[i]
             \/ \E k \in 1..Len(t) : i = Len(s) + k /\ (s \o t)[i] = t[k]
  <2>1. CASE i <= Len(s)
    BY <1>1, <2>1
  <2>2. CASE i > Len(s)
    <3>1. i - Len(s) \in 1..Len(t) /\ i = Len(s) + (i - Len(s))
      BY <1>1, <2>2
    <3>2. (s \o t)[i] = t[i - Len(s)]
      BY <1>1, <2>2
    <3> QED
      BY <3>1, <3>2
  <2> QED
    BY <1>1, <2>1, <2>2
<1>3. ASSUME NEW i \in 1..Len(s), NEW k \in 1..Len(t) PROVE Key(s[i]) # Key(t[k])
  <2>1. Key(s[i]) \in Keys(s) /\ Key(t[k]) \in Keys(t)
    BY <1>1, Zenon DEF Keys, Elements
  <2> QED
    BY <2>1
<1>4. SUFFICES ASSUME NEW i \in 1..(Len(s) + Len(t)),
                      NEW j \in 1..(Len(s) + Len(t)),
                      Key((s \o t)[i]) = Key((s \o t)[j])
               PROVE  i = j
  BY <1>1, Zenon DEF Distinct
<1>5. CASE i \in 1..Len(s) /\ (s \o t)[i] = s[i]
  <2>1. CASE j \in 1..Len(s) /\ (s \o t)[j] = s[j]
    BY <1>1, <1>4, <1>5, <2>1, Zenon DEF Distinct
  <2>2. ASSUME NEW k \in 1..Len(t), (s \o t)[j] = t[k] PROVE FALSE
    BY <1>3, <1>4, <1>5, <2>2, Zenon
  <2> QED
    BY <1>2, <2>1, <2>2, Zenon
<1>6. ASSUME NEW k \in 1..Len(t), i = Len(s) + k, (s \o t)[i] = t[k]
      PROVE  i = j
  <2>1. CASE j \in 1..Len(s) /\ (s \o t)[j] = s[j]
    BY <1>3, <1>4, <1>6, <2>1, Zenon
  <2>2. ASSUME NEW l \in 1..Len(t), j = Len(s) + l, (s \o t)[j] = t[l]
        PROVE i = j
    <3>1. k = l
      BY <1>1, <1>4, <1>6, <2>2, Zenon DEF Distinct
    <3> QED
      BY <1>6, <2>2, <3>1, Zenon
  <2> QED
    BY <1>2, <2>1, <2>2, Zenon
<1> QED
  BY <1>2, <1>5, <1>6, Zenon

LEMMA OneElement ==
    ASSUME NEW e
    PROVE  Elements(<<e>>) = {e} /\ Distinct(<<e>>) /\ Once(<<e>>)
  BY DEF Elements, Distinct, Once

LEMMA NoElement ==
    Elements(<<>>) = {} /\ Distinct(<<>>) /\ Once(<<>>)
  BY DEF Elements, Distinct, Once

LEMMA AppendElements ==
    ASSUME NEW S, NEW s \in Seq(S), NEW e \in S
    PROVE  Elements(Append(s, e)) = Elements(s) \cup {e}
<1>1. /\ Len(s) \in Nat /\ DOMAIN s = 1..Len(s)
      /\ DOMAIN Append(s, e) = 1..(Len(s) + 1)
      /\ \A i \in 1..Len(s) : Append(s, e)[i] = s[i]
      /\ Append(s, e)[Len(s) + 1] = e
  OBVIOUS
<1>2. \A i \in 1..(Len(s) + 1) : i \in 1..Len(s) \/ i = Len(s) + 1
  BY <1>1
<1>3. (\A i \in 1..Len(s) : i \in 1..(Len(s) + 1)) /\ Len(s) + 1 \in 1..(Len(s) + 1)
  BY <1>1
<1> QED
  BY <1>1, <1>2, <1>3, Zenon DEF Elements

LEMMA AppendDistinct ==
    ASSUME NEW S, NEW s \in Seq(S), NEW e \in S
    PROVE  /\ Distinct(s) /\ Key(e) \notin Keys(s) => Distinct(Append(s, e))
           /\ Once(s) /\ e \notin Elements(s) => Once(Append(s, e))
<1>1. /\ Len(s) \in Nat /\ DOMAIN s = 1..Len(s)
      /\ DOMAIN Append(s, e) = 1..(Len(s) + 1)
      /\ \A i \in 1..Len(s) : Append(s, e)[i] = s[i]
      /\ Append(s, e)[Len(s) + 1] = e
  OBVIOUS
<1>2. \A i \in 1..(Len(s) + 1) : i \in 1..Len(s) \/ i = Len(s) + 1
  BY <1>1
<1>3. ASSUME Distinct(s), Key(e) \notin Keys(s) PROVE Distinct(Append(s, e))
  <2>1. \A i \in 1..Len(s) : Key(s[i]) \in Keys(s)
    BY <1>1, Zenon DEF Keys, Elements
  <2>2. \A i \in 1..Len(s) : Key(s[i]) # Key(e)
    BY <1>3, <2>1, Zenon
  <2> QED
    BY <1>1, <1>2, <1>3, <2>2, Zenon DEF Distinct
<1>4. ASSUME Once(s), e \notin Elements(s) PROVE Once(Append(s, e))
  <2>1. \A i \in 1..Len(s) : s[i] # e
    BY <1>1, <1>4, Zenon DEF Elements
  <2> QED
    BY <1>1, <1>2, <1>4, <2>1, Zenon DEF Once
<1> QED
  BY <1>3, <1>4

LEMMA TailElements ==
    ASSUME NEW S, NEW s \in Seq(S), s # <<>>
    PROVE  /\ Elements(s) = {Head(s)} \cup Elements(Tail(s))
           /\ Distinct(s) => /\ Distinct(Tail(s))
                             /\ Key(Head(s)) \notin Keys(Tail(s))
           /\ Once(s) => Once(Tail(s)) /\ Head(s) \notin Elements(Tail(s))
<1> DEFINE t == Tail(s)
           next(i) == i + 1
<1>1. /\ 1 \in DOMAIN s /\ Head(s) = s[1]
      /\ \A i \in DOMAIN t : /\ next(i) \in DOMAIN s /\ next(i) # 1
                             /\ t[i] = s[next(i)]
      /\ \A i, j \in DOMAIN t : next(i) = next(j) => i = j
  OBVIOUS
<1>2. \A i \in DOMAIN s : i = 1 \/ \E j \in DOMAIN t : i = next(j)
  <2> TAKE i \in DOMAIN s
  <2>1. i # 1 => i - 1 \in DOMAIN t /\ i = next(i - 1)
    OBVIOUS
  <2> HIDE DEF t, next
  <2> QED
    BY <2>1
<1> HIDE DEF t, next
<1>3. Elements(s) = {Head(s)} \cup Elements(t)
  <2>1. ASSUME NEW e \in Elements(s) PROVE e = Head(s) \/ e \in Elements(t)
    <3>1. PICK i \in DOMAIN s : e = s[i]
      BY Zenon DEF Elements
    <3>2. ASSUME NEW j \in DOMAIN t, i = next(j) PROVE e \in Elements(t)
      BY <1>1, <3>1, <3>2, Zenon DEF Elements
    <3> QED
      BY <1>1, <1>2, <3>1, <3>2, Zenon
  <2>2. \A e \in Elements(t) : e \in Elements(s)
    BY <1>1, Zenon DEF Elements
  <2>3. Head(s) \in Elements(s)
    BY <1>1, Zenon DEF Elements
  <2> QED
    BY <2>1, <2>2, <2>3
<1>4. ASSUME Distinct(s) PROVE Distinct(t) /\ Key(Head(s)) \notin Keys(t)
  <2>1. ASSUME NEW i \in DOMAIN t, NEW j \in DOMAIN t, Key(t[i]) = Key(t[j])
        PROVE  i = j
    <3>1. Key(s[next(i)]) = Key(s[next(j)])
      BY <1>1, <2>1, Zenon
    <3>2. next(i) = next(j)
      BY <1>1, <1>4, <3>1, Zenon DEF Distinct
    <3> QED
      BY <1>1, <3>2, Zenon
  <2>2. \A i \in DOMAIN t : Key(t[i]) # Key(Head(s))
    BY <1>1, <1>4, Zenon DEF Distinct
  <2>3. Key(Head(s)) \notin Keys(t)
    BY <2>2, Zenon DEF Keys, Elements
  <2> QED
    BY <2>1, <2>3, Zenon DEF Distinct
<1>5. ASSUME Once(s) PROVE Once(t) /\ Head(s) \notin Elements(t)
  <2>1. ASSUME NEW i \in DOMAIN t, NEW j \in DOMAIN t, t[i] = t[j]
        PROVE  i = j
    <3>1. s[next(i)] = s[next(j)]
      BY <1>1, <2>1, Zenon
    <3>2. next(i) = next(j)
      BY <1>1, <1>5, <3>1, Zenon DEF Once
    <3> QED
      BY <1>1, <3>2, Zenon
  <2>2. \A i \in DOMAIN t : t[i] # Head(s)
    BY <1>1, <1>5, Zenon DEF Once
  <2> QED
    BY <2>1, <2>2, Zenon DEF Once, Elements
<1> QED
  BY <1>3, <1>4, <1>5 DEF t

\* Operations that complete keep their names.
LEMMA CompletedWrites ==
    ASSUME NEW writes \in Seq(Operation), NEW ok \in BOOLEAN, NEW s,
           DOMAIN s = DOMAIN writes,
           \A i \in DOMAIN writes :
                s[i] = Done(writes[i].kind, writes[i].x, ok, <<>>)
    PROVE  /\ Keys(s) = Keys(writes)
           /\ Distinct(writes) => Distinct(s)
           /\ \A o \in Elements(s) : o.kind # "read" /\ o.ok = ok
<1>1. DOMAIN s = DOMAIN writes
  OBVIOUS
<1>2. \A i \in DOMAIN writes : /\ s[i].kind = writes[i].kind
                               /\ s[i].x = writes[i].x
                               /\ s[i].ok = ok
  BY DEF Done
<1>3. \A i \in DOMAIN writes : Key(s[i]) = Key(writes[i])
  BY <1>2, Zenon DEF Key
<1>4. \A i \in DOMAIN writes : writes[i].kind # "read"
  <2>1. \A i \in DOMAIN writes : writes[i] \in Operation
    OBVIOUS
  <2> QED
    BY <2>1 DEF Operation
<1>5. Keys(s) = Keys(writes)
  BY <1>1, <1>3, Zenon DEF Keys, Elements
<1>6. Distinct(writes) => Distinct(s)
  BY <1>1, <1>3, Zenon DEF Distinct
<1>7. \A o \in Elements(s) : o.kind # "read" /\ o.ok = ok
  BY <1>1, <1>2, <1>4, Zenon DEF Elements
<1> QED
  BY <1>5, <1>6, <1>7

LEMMA CompletedReads ==
    ASSUME NEW reads \in Seq(Datagram), NEW s,
           DOMAIN s = DOMAIN reads,
           \A i \in DOMAIN reads : s[i] = Done("read", reads[i], FALSE, <<>>)
    PROVE  /\ Keys(s) = Tagged("read", reads)
           /\ Once(reads) => Distinct(s)
           /\ \A o \in Elements(s) : ~o.ok
<1>1. DOMAIN s = DOMAIN reads
  OBVIOUS
<1>2. \A i \in DOMAIN reads : /\ s[i].kind = "read"
                              /\ s[i].x = reads[i]
                              /\ ~s[i].ok
  BY DEF Done
<1>3. \A i \in DOMAIN reads : Key(s[i]) = <<"read", reads[i]>>
  BY <1>2, Zenon DEF Key
<1>5. Keys(s) = Tagged("read", reads)
  BY <1>1, <1>3, Zenon DEF Keys, Elements, Tagged
<1>6. \A i, j \in DOMAIN reads : Key(s[i]) = Key(s[j]) => reads[i] = reads[j]
  BY <1>3
<1>7. Once(reads) => Distinct(s)
  BY <1>1, <1>6, Zenon DEF Distinct, Once
<1>8. \A o \in Elements(s) : ~o.ok
  BY <1>1, <1>2, Zenon DEF Elements
<1> QED
  BY <1>5, <1>7, <1>8

-----------------------------------------------------------------------------
(* Every exchange has one operation, which is of its stage.                *)

Kind == {"datagram", "connect", "write", "read"}

Stage(kind) ==
    CASE kind = "datagram" -> "none"
      [] kind = "connect"  -> "connecting"
      [] kind = "write"    -> "writing"
      [] kind = "read"     -> "reading"

StagesOK(keys, stages, n) ==
    \A kind \in Kind, x \in Datagram :
        <<kind, x>> \in keys => stages[x] = Stage(kind) /\ x <= n

Queued == Keys(socket_.writes) \cup Tagged("read", socket_.reads)
              \cup Tagged("datagram", inbox)

OperationsOK ==
    /\ Distinct(ready) /\ Distinct(socket_.writes)
    /\ Once(socket_.reads) /\ Once(inbox)
    /\ Keys(ready) \cap Queued = {}
    /\ StagesOK(Keys(ready) \cup Queued, exchange, sent)
    /\ client_running => <<"datagram", 0>> \notin Keys(ready)
    /\ \A x \in Datagram : x > sent => exchange[x] = "none"

\* What is under way on the connection of an exchange no other overlapped.
Own(x, stage, up, down) ==
    /\ stage = "connecting" => up = <<>> /\ down = <<>>
    /\ \/ up = <<>> /\ (down = <<>> \/ down = <<<<x>>>>)
       \/ up = <<x>> /\ down = <<>>

AloneOK ==
    \A x \in Active \ crossed :
        /\ Active = {x}
        /\ \A o \in Elements(ready) : o.kind = "read" /\ o.ok => o.got = <<x>>
        /\ socket_.conn # 0 =>
              Own(x, exchange[x], conns[socket_.conn].up, conns[socket_.conn].down)

AnswersOK == DOMAIN answer = Datagram /\ AnswerIsMine

AnswerInv == Inv /\ OperationsOK /\ AloneOK /\ AnswersOK

LEMMA StageAlone ==
    ASSUME NEW keys, NEW stages, NEW n, StagesOK(keys, stages, n),
           NEW kind \in Kind, NEW x \in Datagram, <<kind, x>> \in keys,
           NEW k \in Kind, <<k, x>> \in keys
    PROVE  k = kind
<1>1. \A i, j \in Kind : Stage(i) = Stage(j) => i = j
  BY DEF Kind, Stage
<1>2. stages[x] = Stage(kind) /\ stages[x] = Stage(k)
  BY Zenon DEF StagesOK
<1> QED
  BY <1>1, <1>2, Zenon

\* An exchange whose operation is taken away may go to any stage,
LEMMA StageEnds ==
    ASSUME NEW keys, NEW stages, NEW n, StagesOK(keys, stages, n),
           DOMAIN stages = Datagram,
           NEW kind \in Kind, NEW x \in Datagram, <<kind, x>> \in keys,
           NEW stage
    PROVE  StagesOK(keys \ {<<kind, x>>}, [stages EXCEPT ![x] = stage], n)
<1> DEFINE after == [stages EXCEPT ![x] = stage]
<1>1. \A y \in Datagram : y # x => after[y] = stages[y]
  OBVIOUS
<1> HIDE DEF after
<1>2. SUFFICES ASSUME NEW k \in Kind, NEW y \in Datagram,
                      <<k, y>> \in keys, <<k, y>> # <<kind, x>>
               PROVE  after[y] = Stage(k) /\ y <= n
  BY DEF StagesOK, after
<1>3. y # x
  BY <1>2, StageAlone
<1>4. stages[y] = Stage(k) /\ y <= n
  BY <1>2 DEF StagesOK
<1> QED
  BY <1>1, <1>3, <1>4

\* and another may start, of the stage it goes to.
LEMMA StageMoves ==
    ASSUME NEW keys, NEW stages, NEW n, StagesOK(keys, stages, n),
           DOMAIN stages = Datagram,
           NEW kind \in Kind, NEW x \in Datagram, <<kind, x>> \in keys,
           NEW new \in Kind
    PROVE  StagesOK((keys \ {<<kind, x>>}) \cup {<<new, x>>},
                    [stages EXCEPT ![x] = Stage(new)], n)
<1> DEFINE after == [stages EXCEPT ![x] = Stage(new)]
           rest == keys \ {<<kind, x>>}
<1>1. after[x] = Stage(new)
  OBVIOUS
<1>2. StagesOK(rest, after, n)
  BY StageEnds
<1> HIDE DEF after
<1>3. x <= n
  BY DEF StagesOK
<1> HIDE DEF rest
<1>4. SUFFICES ASSUME NEW k \in Kind, NEW y \in Datagram,
                      <<k, y>> \in rest \cup {<<new, x>>}
               PROVE  after[y] = Stage(k) /\ y <= n
  BY DEF StagesOK, after, rest
<1>5. CASE <<k, y>> \in rest
  BY <1>2, <1>5 DEF StagesOK
<1>6. CASE k = new /\ y = x
  BY <1>1, <1>3, <1>6
<1> QED
  BY <1>4, <1>5, <1>6

\* The names of the operations queued, by their kinds.
LEMMA QueuedKinds ==
    ASSUME Inv
    PROVE  /\ \A key \in Keys(socket_.writes) : \E x \in Datagram :
                  key = <<"connect", x>> \/ key = <<"write", x>>
           /\ \A key \in Tagged("read", socket_.reads) : \E x \in Datagram :
                  key = <<"read", x>>
           /\ \A key \in Tagged("datagram", inbox) : \E x \in Datagram :
                  key = <<"datagram", x>>
<1>1. /\ socket_.writes \in Seq(Operation) /\ socket_.reads \in Seq(Datagram)
      /\ inbox \in Seq(Datagram)
  BY DEF Inv, SocketOK, Socket, FlagsOK
<1>2. \A i \in DOMAIN socket_.writes : socket_.writes[i] \in Operation
  BY <1>1
<1>3. \A i \in DOMAIN socket_.writes : \E x \in Datagram :
        \/ Key(socket_.writes[i]) = <<"connect", x>>
        \/ Key(socket_.writes[i]) = <<"write", x>>
  BY <1>2 DEF Operation, Key
<1>4. /\ \A i \in DOMAIN socket_.reads : socket_.reads[i] \in Datagram
      /\ \A i \in DOMAIN inbox : inbox[i] \in Datagram
  BY <1>1
<1>5. \A key \in Keys(socket_.writes) : \E x \in Datagram :
        key = <<"connect", x>> \/ key = <<"write", x>>
  BY <1>3, Zenon DEF Keys, Elements
<1>6. \A key \in Tagged("read", socket_.reads) : \E x \in Datagram :
        key = <<"read", x>>
  BY <1>4, Zenon DEF Tagged, Elements
<1>7. \A key \in Tagged("datagram", inbox) : \E x \in Datagram :
        key = <<"datagram", x>>
  BY <1>4, Zenon DEF Tagged, Elements
<1> QED
  BY <1>5, <1>6, <1>7

\* The queues hold operations of different kinds.
LEMMA QueuesApart ==
    ASSUME Inv
    PROVE  /\ Keys(socket_.writes) \cap Tagged("read", socket_.reads) = {}
           /\ Keys(socket_.writes) \cap Tagged("datagram", inbox) = {}
           /\ Tagged("read", socket_.reads) \cap Tagged("datagram", inbox) = {}
           /\ <<"datagram", 0>> \notin Queued
<1>1. \A x \in Datagram : x # 0
  BY DEF Datagram
<1> QED
  BY <1>1, QueuedKinds DEF Queued

LEMMA HeadOperation ==
    ASSUME Inv, OperationsOK, ready # <<>>
    PROVE  /\ Keys(ready) = {Key(Head(ready))} \cup Keys(Tail(ready))
           /\ Elements(ready) = {Head(ready)} \cup Elements(Tail(ready))
           /\ Key(Head(ready)) \notin Keys(Tail(ready)) \cup Queued
           /\ Distinct(Tail(ready))
           /\ Head(ready).kind \in Kind
<1>1. ready \in Seq(Completion)
  BY DEF Inv, ReadyOK
<1>2. Elements(ready) = {Head(ready)} \cup Elements(Tail(ready))
  BY <1>1, TailElements, Zenon
<1>3. Distinct(Tail(ready)) /\ Key(Head(ready)) \notin Keys(Tail(ready))
  BY <1>1, TailElements, Zenon DEF OperationsOK
<1>4. Keys(ready) = {Key(Head(ready))} \cup Keys(Tail(ready))
  BY <1>2 DEF Keys
<1>5. Key(Head(ready)) \notin Queued
  BY <1>4 DEF OperationsOK
<1>6. Head(ready).kind \in Kind
  BY <1>1 DEF Completion, Kind
<1> QED
  BY <1>2, <1>3, <1>4, <1>5, <1>6

LEMMA AbortedOperations ==
    ASSUME Inv, OperationsOK
    PROVE  /\ Aborted \in Seq(Completion)
           /\ Keys(Aborted) = Keys(socket_.writes)
                                \cup Tagged("read", socket_.reads)
           /\ Distinct(Aborted)
           /\ \A o \in Elements(Aborted) : ~o.ok
<1> DEFINE r == [i \in DOMAIN socket_.reads |->
                    Done("read", socket_.reads[i], FALSE, <<>>)]
           w == [i \in DOMAIN socket_.writes |->
                    Done(socket_.writes[i].kind, socket_.writes[i].x, FALSE, <<>>)]
<1>1. socket_.writes \in Seq(Operation) /\ socket_.reads \in Seq(Datagram)
  BY DEF Inv, SocketOK, Socket
<1>2. Aborted = r \o w
  BY DEF Aborted
<1>3. r \in Seq(Completion) /\ w \in Seq(Completion)
  BY <1>1, ReadsType, WritesType
<1>4. /\ Keys(r) = Tagged("read", socket_.reads) /\ Distinct(r)
      /\ \A o \in Elements(r) : ~o.ok
  <2>1. /\ DOMAIN r = DOMAIN socket_.reads
        /\ \A i \in DOMAIN socket_.reads :
              r[i] = Done("read", socket_.reads[i], FALSE, <<>>)
    OBVIOUS
  <2> HIDE DEF r
  <2> QED
    BY <1>1, <2>1, CompletedReads, Zenon DEF OperationsOK
<1>5. /\ Keys(w) = Keys(socket_.writes) /\ Distinct(w)
      /\ \A o \in Elements(w) : o.ok = FALSE
  <2>1. /\ DOMAIN w = DOMAIN socket_.writes
        /\ \A i \in DOMAIN socket_.writes :
              w[i] = Done(socket_.writes[i].kind, socket_.writes[i].x, FALSE, <<>>)
    OBVIOUS
  <2> HIDE DEF w
  <2> QED
    BY <1>1, <2>1, CompletedWrites DEF OperationsOK
<1>6. Aborted \in Seq(Completion)
  BY AbortedType DEF Inv
<1> HIDE DEF r, w
<1>7. Elements(Aborted) = Elements(r) \cup Elements(w)
  BY <1>2, <1>3, ConcatElements, Zenon
<1>8. Distinct(Aborted)
  <2>1. Keys(r) \cap Keys(w) = {}
    BY <1>4, <1>5, QueuesApart, Zenon
  <2> QED
    BY <1>2, <1>3, <1>4, <1>5, <2>1, ConcatDistinct, Zenon
<1>9. Keys(Aborted) = Keys(r) \cup Keys(w)
  BY <1>7 DEF Keys
<1> QED
  BY <1>4, <1>5, <1>6, <1>7, <1>8, <1>9

\* What a close leaves in ready.
LEMMA ReadyAborted ==
    ASSUME Inv, OperationsOK, ready # <<>>
    PROVE  /\ Keys(Tail(ready) \o Aborted) =
                Keys(Tail(ready)) \cup Keys(socket_.writes)
                    \cup Tagged("read", socket_.reads)
           /\ Distinct(Tail(ready) \o Aborted)
           /\ \A o \in Elements(Tail(ready) \o Aborted) :
                o.ok => o \in Elements(ready)
<1>1. Tail(ready) \in Seq(Completion)
  BY HeadType DEF Inv
<1>2. Elements(Tail(ready) \o Aborted) = Elements(Tail(ready)) \cup Elements(Aborted)
  <2>1. \A s, t \in Seq(Completion) : Elements(s \o t) = Elements(s) \cup Elements(t)
    BY ConcatElements, Zenon
  <2>2. Aborted \in Seq(Completion)
    BY AbortedOperations
  <2> QED
    BY <1>1, <2>1, <2>2, Zenon
<1>3. Keys(Tail(ready)) \cap Keys(Aborted) = {}
  BY HeadOperation, AbortedOperations DEF OperationsOK, Queued
<1>4. Distinct(Tail(ready) \o Aborted)
  BY <1>1, <1>3, AbortedOperations, HeadOperation, ConcatDistinct, Zenon
<1>5. Keys(Tail(ready) \o Aborted) = Keys(Tail(ready)) \cup Keys(Aborted)
  BY <1>2 DEF Keys
<1>6. \A o \in Elements(Tail(ready) \o Aborted) : o.ok => o \in Elements(ready)
  BY <1>2, AbortedOperations, HeadOperation, Zenon
<1> QED
  BY <1>4, <1>5, <1>6, AbortedOperations

\* A handler takes the operation of exchange x off ready; it may start another
\* for the stage it brings x to.
LEMMA OperationMoves ==
    ASSUME Inv, Inv', OperationsOK, ready # <<>>, Head(ready).x \in Datagram,
           NEW new \in Kind, NEW started,
           NEW stage, exchange' = [exchange EXCEPT ![Head(ready).x] = stage],
           \/ started = {}
           \/ started = {<<new, Head(ready).x>>} /\ stage = Stage(new),
           Distinct(ready)', Distinct(socket_.writes)', Once(socket_.reads)',
           Keys(ready)' \cap Queued' = {},
           Keys(ready)' \cup Queued' \subseteq
                Keys(Tail(ready)) \cup Queued \cup started,
           UNCHANGED <<inbox, sent, client_running>>
    PROVE  OperationsOK'
<1> DEFINE x == Head(ready).x
           rest == Keys(Tail(ready)) \cup Queued
<1>1. Key(Head(ready)) = <<Head(ready).kind, x>> /\ Head(ready).kind \in Kind
  BY HeadOperation DEF Key
<1>2. /\ rest \subseteq (Keys(ready) \cup Queued) \ {<<Head(ready).kind, x>>}
      /\ <<Head(ready).kind, x>> \in Keys(ready) \cup Queued
  BY <1>1, HeadOperation, Zenon
<1>3. DOMAIN exchange = Datagram
  BY DEF Inv, ExchangeOK
<1>4. StagesOK(Keys(ready) \cup Queued, exchange, sent)
  BY DEF OperationsOK
<1>5. x <= sent
  BY <1>1, <1>2, <1>4, Zenon DEF StagesOK
<1>6. StagesOK(rest \cup started, exchange', sent)
  <2> DEFINE keys == Keys(ready) \cup Queued
             kind == Head(ready).kind
  <2>1. /\ kind \in Kind /\ x \in Datagram /\ <<kind, x>> \in keys
        /\ rest \subseteq keys \ {<<kind, x>>}
        /\ StagesOK(keys, exchange, sent)
        /\ exchange' = [exchange EXCEPT ![x] = stage]
    BY <1>1, <1>2, <1>4
  <2> HIDE DEF keys, kind
  <2>2. StagesOK(keys \ {<<kind, x>>}, [exchange EXCEPT ![x] = stage], sent)
    BY <1>3, <2>1, StageEnds, Zenon
  <2>3. StagesOK((keys \ {<<kind, x>>}) \cup {<<new, x>>},
                 [exchange EXCEPT ![x] = Stage(new)], sent)
    BY <1>3, <2>1, StageMoves, Zenon
  <2>4. CASE started = {}
    BY <2>1, <2>2, <2>4 DEF StagesOK
  <2>5. CASE started = {<<new, x>>} /\ stage = Stage(new)
    BY <2>1, <2>3, <2>5 DEF StagesOK
  <2> QED
    BY <2>4, <2>5
<1>7. StagesOK(Keys(ready)' \cup Queued', exchange', sent')
  BY <1>6, Zenon DEF StagesOK
<1>8. client_running' => <<"datagram", 0>> \notin Keys(ready)'
  <2>1. <<"datagram", 0>> \notin started
    BY DEF Datagram
  <2>2. client_running => <<"datagram", 0>> \notin rest
    BY HeadOperation, QueuesApart DEF OperationsOK
  <2> QED
    BY <2>1, <2>2
<1>9. \A y \in Datagram : y > sent' => exchange'[y] = "none"
  <2>1. x \in Nat /\ sent \in Nat
    BY DEF Inv, FlagsOK, Datagram
  <2>2. \A y \in Datagram : y > sent => y # x
    BY <1>5, <2>1 DEF Datagram
  <2>3. \A y \in Datagram : y # x => exchange'[y] = exchange[y]
    BY <1>3
  <2> QED
    BY <2>2, <2>3 DEF OperationsOK
<1> QED
  BY <1>7, <1>8, <1>9 DEF OperationsOK

\* No other operation is of the exchange a handler runs for.
LEMMA HeadAlone ==
    ASSUME Inv, OperationsOK, ready # <<>>, Head(ready).x \in Datagram
    PROVE  \A k \in Kind : <<k, Head(ready).x>> \notin Keys(Tail(ready)) \cup Queued
<1> DEFINE x == Head(ready).x
           kind == Head(ready).kind
<1>1. Key(Head(ready)) = <<kind, x>> /\ kind \in Kind
  BY HeadOperation DEF Key
<1>2. StagesOK(Keys(ready) \cup Queued, exchange, sent)
  BY DEF OperationsOK
<1>3. <<kind, x>> \in Keys(ready) \cup Queued
  BY <1>1, HeadOperation, Zenon
<1> SUFFICES ASSUME NEW k \in Kind, <<k, x>> \in Keys(Tail(ready)) \cup Queued
             PROVE  FALSE
  OBVIOUS
<1>4. <<k, x>> \in Keys(ready) \cup Queued
  BY HeadOperation, Zenon
<1>5. k = kind
  BY <1>1, <1>2, <1>3, <1>4, StageAlone, Zenon
<1> QED
  BY <1>1, <1>5, HeadOperation, Zenon

LEMMA ConnectToOperations ==
    ASSUME Inv, Inv', OperationsOK, ready # <<>>, Head(ready).x \in Datagram,
           NEW n, ConnectTo(n, Head(ready).x),
           UNCHANGED <<inbox, sent, client_running>>
    PROVE  OperationsOK'
<1> DEFINE x == Head(ready).x
           op == [kind |-> "connect", x |-> x]
<1>1. /\ ready' = Tail(ready) \o Aborted
      /\ socket_'.writes = <<op>> /\ socket_'.reads = <<>>
      /\ exchange' = [exchange EXCEPT ![x] = "connecting"]
  BY DEF ConnectTo
<1>2. Key(op) = <<"connect", x>>
  BY DEF Key
<1> HIDE DEF op
<1>3. /\ Keys(ready)' = Keys(Tail(ready)) \cup Keys(socket_.writes)
                            \cup Tagged("read", socket_.reads)
      /\ Distinct(ready)'
  BY <1>1, ReadyAborted
<1>4. Keys(socket_.writes)' = {<<"connect", x>>} /\ Distinct(socket_.writes)'
  <2>1. Elements(<<op>>) = {op} /\ Distinct(<<op>>)
    BY OneElement, Zenon
  <2>2. Keys(<<op>>) = {<<"connect", x>>}
    BY <1>2, <2>1 DEF Keys
  <2> QED
    BY <1>1, <2>1, <2>2
<1>5. Tagged("read", socket_.reads)' = {} /\ Once(socket_.reads)'
  BY <1>1, NoElement DEF Tagged
<1>6. Tagged("datagram", inbox)' = Tagged("datagram", inbox)
  OBVIOUS
<1>7. "connect" \in Kind /\ Stage("connect") = "connecting"
  BY DEF Kind, Stage
<1>8. <<"connect", x>> \notin Keys(Tail(ready)) \cup Queued
  BY <1>7, HeadAlone
<1> HIDE DEF x
<1>9. Keys(ready)' \cap Queued' = {}
  <2>1. Keys(Tail(ready)) \cap Tagged("datagram", inbox) = {}
    BY HeadOperation DEF OperationsOK, Queued
  <2>2. (Keys(socket_.writes) \cup Tagged("read", socket_.reads))
            \cap Tagged("datagram", inbox) = {}
    BY QueuesApart
  <2>3. Queued' = {<<"connect", x>>} \cup Tagged("datagram", inbox)
    BY <1>4, <1>5, <1>6 DEF Queued
  <2>4. <<"connect", x>> \notin Keys(ready)'
    BY <1>3, <1>8 DEF Queued
  <2> QED
    BY <1>3, <2>1, <2>2, <2>3, <2>4
<1>10. Keys(ready)' \cup Queued'
            \subseteq Keys(Tail(ready)) \cup Queued \cup {<<"connect", x>>}
  BY <1>3, <1>4, <1>5, <1>6 DEF Queued
<1> QED
  BY <1>1, <1>3, <1>4, <1>5, <1>7, <1>9, <1>10, OperationMoves DEF x

\* The handler starts nothing: its exchange fails, or the socket was closed.
LEMMA FailOperations ==
    ASSUME Inv, Inv', OperationsOK, ready # <<>>, Head(ready).x \in Datagram,
           Fail(Head(ready).x), UNCHANGED <<inbox, sent, client_running>>
    PROVE  OperationsOK'
<1>1. /\ ready' = Tail(ready) /\ socket_' = socket_ /\ inbox' = inbox
      /\ exchange' = [exchange EXCEPT ![Head(ready).x] = "failed"]
  BY DEF Fail
<1>2. Keys(ready)' = Keys(Tail(ready)) /\ Queued' = Queued /\ Distinct(ready)'
  BY <1>1, HeadOperation DEF Queued
<1>3. Distinct(socket_.writes)' /\ Once(socket_.reads)'
  BY <1>1 DEF OperationsOK
<1>4. Keys(ready)' \cap Queued' = {}
  BY <1>2, HeadOperation DEF OperationsOK
<1>5. Keys(ready)' \cup Queued' \subseteq Keys(Tail(ready)) \cup Queued \cup {}
  BY <1>2
<1>6. "read" \in Kind
  BY DEF Kind
<1> QED
  BY <1>1, <1>2, <1>3, <1>4, <1>5, <1>6, OperationMoves

LEMMA AnsweredOperations ==
    ASSUME Inv, Inv', OperationsOK, ready # <<>>, Head(ready).x \in Datagram,
           ready' = Tail(ready) \o Aborted, socket_' = ClosedSocket,
           exchange' = [exchange EXCEPT ![Head(ready).x] = "answered"],
           UNCHANGED <<inbox, sent, client_running>>
    PROVE  OperationsOK'
<1>1. socket_'.writes = <<>> /\ socket_'.reads = <<>>
  OBVIOUS
<1>2. /\ Keys(ready)' = Keys(Tail(ready)) \cup Keys(socket_.writes)
                            \cup Tagged("read", socket_.reads)
      /\ Distinct(ready)'
  BY ReadyAborted
<1>3. Queued' = Tagged("datagram", inbox)
  BY <1>1, NoElement DEF Queued, Keys, Tagged
<1>4. Distinct(socket_.writes)' /\ Once(socket_.reads)'
  BY <1>1, NoElement
<1>5. Keys(ready)' \cap Queued' = {}
  <2>1. Keys(Tail(ready)) \cap Tagged("datagram", inbox) = {}
    BY HeadOperation DEF OperationsOK, Queued
  <2> QED
    BY <1>2, <1>3, <2>1, QueuesApart
<1>6. Keys(ready)' \cup Queued' \subseteq Keys(Tail(ready)) \cup Queued \cup {}
  BY <1>2, <1>3 DEF Queued
<1>7. "read" \in Kind
  BY DEF Kind
<1> QED
  BY <1>2, <1>4, <1>5, <1>6, <1>7, OperationMoves

\* An operation of kind k completes at once.
LEMMA CompletedOperations ==
    ASSUME Inv, Inv', OperationsOK, ready # <<>>, Head(ready).x \in Datagram,
           NEW k \in Kind, NEW ok, NEW got,
           Done(k, Head(ready).x, ok, got) \in Completion,
           ready' = Append(Tail(ready), Done(k, Head(ready).x, ok, got)),
           exchange' = [exchange EXCEPT ![Head(ready).x] = Stage(k)],
           UNCHANGED <<socket_, inbox, sent, client_running>>
    PROVE  OperationsOK'
<1> DEFINE x == Head(ready).x
           op == Done(k, x, ok, got)
<1>1. Key(op) = <<k, x>>
  BY DEF Key, Done
<1>2. Tail(ready) \in Seq(Completion) /\ op \in Completion
  BY HeadType DEF Inv
<1>3. <<k, x>> \notin Keys(Tail(ready)) \cup Queued
  BY HeadAlone
<1>4. ready' = Append(Tail(ready), op)
  OBVIOUS
<1> HIDE DEF op
<1>5. Elements(Append(Tail(ready), op)) = Elements(Tail(ready)) \cup {op}
  <2>1. \A s \in Seq(Completion), o \in Completion :
            Elements(Append(s, o)) = Elements(s) \cup {o}
    BY AppendElements
  <2> QED
    BY <1>2, <2>1, Zenon
<1>6. Distinct(Append(Tail(ready), op))
  BY <1>1, <1>2, <1>3, HeadOperation, AppendDistinct
<1>7. Keys(ready)' = Keys(Tail(ready)) \cup {<<k, x>>}
  BY <1>1, <1>4, <1>5 DEF Keys
<1>8. Queued' = Queued /\ Distinct(socket_.writes)' /\ Once(socket_.reads)'
  BY DEF Queued, OperationsOK
<1>9. Distinct(ready)'
  BY <1>4, <1>6
<1> HIDE DEF x
<1>10. Keys(ready)' \cap Queued' = {}
  BY <1>3, <1>7, <1>8, HeadOperation DEF OperationsOK
<1>11. Keys(ready)' \cup Queued'
            \subseteq Keys(Tail(ready)) \cup Queued \cup {<<k, x>>}
  BY <1>7, <1>8
<1> QED
  BY <1>8, <1>9, <1>10, <1>11, OperationMoves DEF x

\* An operation of kind k is queued.
LEMMA QueuedOperations ==
    ASSUME Inv, Inv', OperationsOK, ready # <<>>, Head(ready).x \in Datagram,
           ready' = Tail(ready),
           \/ /\ socket_'.writes = Append(socket_.writes,
                                 [kind |-> "write", x |-> Head(ready).x])
              /\ socket_'.reads = socket_.reads
              /\ exchange' = [exchange EXCEPT ![Head(ready).x] = "writing"]
           \/ /\ socket_'.reads = Append(socket_.reads, Head(ready).x)
              /\ socket_'.writes = socket_.writes
              /\ exchange' = [exchange EXCEPT ![Head(ready).x] = "reading"],
           UNCHANGED <<inbox, sent, client_running>>
    PROVE  OperationsOK'
<1> DEFINE x == Head(ready).x
           rest == Keys(Tail(ready)) \cup Queued
<1>1. \A k \in Kind : <<k, x>> \notin rest
  BY HeadAlone
<1>2. /\ "write" \in Kind /\ Stage("write") = "writing"
      /\ "read" \in Kind /\ Stage("read") = "reading"
  BY DEF Kind, Stage
<1>3. socket_.writes \in Seq(Operation) /\ socket_.reads \in Seq(Datagram)
  BY DEF Inv, SocketOK, Socket
<1>4. Keys(ready)' = Keys(Tail(ready)) /\ Distinct(ready)'
  BY HeadOperation
<1>5. Keys(Tail(ready)) \cap Queued = {}
  BY HeadOperation DEF OperationsOK
<1>6. CASE /\ socket_'.writes = Append(socket_.writes,
                                 [kind |-> "write", x |-> x])
           /\ socket_'.reads = socket_.reads
           /\ exchange' = [exchange EXCEPT ![x] = "writing"]
  <2> DEFINE op == [kind |-> "write", x |-> x]
  <2>1. op \in Operation /\ Key(op) = <<"write", x>>
    BY DEF Operation, Key
  <2>2. socket_'.writes = Append(socket_.writes, op)
    BY <1>6
  <2> HIDE DEF op
  <2>3. Elements(Append(socket_.writes, op)) = Elements(socket_.writes) \cup {op}
    BY <1>3, <2>1, AppendElements
  <2>4. Distinct(Append(socket_.writes, op))
    <3>1. Key(op) \notin Keys(socket_.writes) /\ Distinct(socket_.writes)
      BY <1>1, <1>2, <2>1 DEF Queued, OperationsOK
    <3> QED
      BY <1>3, <2>1, <3>1, AppendDistinct, Zenon
  <2>5. Keys(Append(socket_.writes, op)) = Keys(socket_.writes) \cup {<<"write", x>>}
    BY <2>1, <2>3 DEF Keys
  <2>6. Queued' = Queued \cup {<<"write", x>>}
    BY <1>6, <2>2, <2>5 DEF Queued
  <2>7. Distinct(socket_.writes)' /\ Once(socket_.reads)'
    BY <1>6, <2>2, <2>4 DEF OperationsOK
  <2>8. Keys(ready)' \cap Queued' = {}
    BY <1>1, <1>2, <1>4, <1>5, <2>6
  <2>9. Keys(ready)' \cup Queued' \subseteq rest \cup {<<"write", x>>}
    BY <1>4, <2>6
  <2> QED
    BY <1>2, <1>4, <1>6, <2>7, <2>8, <2>9, OperationMoves
<1>7. CASE /\ socket_'.reads = Append(socket_.reads, x)
           /\ socket_'.writes = socket_.writes
           /\ exchange' = [exchange EXCEPT ![x] = "reading"]
  <2>1. Elements(Append(socket_.reads, x)) = Elements(socket_.reads) \cup {x}
    BY <1>3, AppendElements
  <2>2. Once(Append(socket_.reads, x))
    <3>1. x \notin Elements(socket_.reads) /\ Once(socket_.reads)
      BY <1>1, <1>2 DEF Queued, OperationsOK, Tagged
    <3> QED
      BY <1>3, <3>1, AppendDistinct, Zenon
  <2>3. Tagged("read", Append(socket_.reads, x)) =
            Tagged("read", socket_.reads) \cup {<<"read", x>>}
    BY <2>1 DEF Tagged
  <2>4. Queued' = Queued \cup {<<"read", x>>}
    BY <1>7, <2>3 DEF Queued
  <2>5. Distinct(socket_.writes)' /\ Once(socket_.reads)'
    BY <1>7, <2>2 DEF OperationsOK
  <2>6. Keys(ready)' \cap Queued' = {}
    BY <1>1, <1>2, <1>4, <1>5, <2>4
  <2>7. Keys(ready)' \cup Queued' \subseteq rest \cup {<<"read", x>>}
    BY <1>4, <2>4
  <2> QED
    BY <1>2, <1>4, <1>7, <2>5, <2>6, <2>7, OperationMoves
<1> QED
  BY <1>6, <1>7

\* No exchange changes its stage, no operation is new but an aborted receive.
LEMMA OperationsStay ==
    ASSUME Inv, OperationsOK,
           Distinct(ready)', Distinct(socket_.writes)', Once(socket_.reads)',
           Once(inbox)', Keys(ready)' \cap Queued' = {},
           Keys(ready)' \cup Queued' \subseteq
                Keys(ready) \cup Queued \cup {<<"datagram", 0>>},
           client_running' => <<"datagram", 0>> \notin Keys(ready)',
           UNCHANGED <<exchange, sent>>
    PROVE  OperationsOK'
<1>1. ASSUME NEW k \in Kind, NEW x \in Datagram,
             <<k, x>> \in Keys(ready)' \cup Queued'
      PROVE  exchange[x] = Stage(k) /\ x <= sent
  <2>1. x # 0
    BY DEF Datagram
  <2>2. <<k, x>> \in Keys(ready) \cup Queued
    BY <1>1, <2>1
  <2> QED
    BY <2>2, Zenon DEF OperationsOK, StagesOK
<1>2. StagesOK(Keys(ready)' \cup Queued', exchange', sent')
  BY <1>1 DEF StagesOK
<1> QED
  BY <1>2 DEF OperationsOK

LEMMA WriteOperations ==
    ASSUME Inv, Inv', OperationsOK, ready # <<>>, Head(ready).x \in Datagram,
           doWrite(Head(ready).x), UNCHANGED <<inbox, sent, client_running>>
    PROVE  OperationsOK'
<1> DEFINE x == Head(ready).x
<1>1. /\ exchange' = [exchange EXCEPT ![x] = "writing"]
      /\ "write" \in Kind /\ Stage("write") = "writing"
  BY DEF doWrite, Write, Kind, Stage
<1>2. CASE /\ socket_' = [socket_ EXCEPT !.writes =
                            Append(@, [kind |-> "write", x |-> x])]
           /\ ready' = Tail(ready)
  <2>1. /\ socket_'.writes = Append(socket_.writes, [kind |-> "write", x |-> x])
        /\ socket_'.reads = socket_.reads
    BY <1>2 DEF Inv, SocketOK, Socket
  <2> QED
    BY <1>1, <1>2, <2>1, QueuedOperations
<1>3. ASSUME NEW ok \in BOOLEAN,
             ready' = Append(Tail(ready), Done("write", x, ok, <<>>)),
             UNCHANGED socket_
      PROVE  OperationsOK'
  <2>1. Done("write", x, ok, <<>>) \in Completion
    BY FailedType
  <2>2. exchange' = [exchange EXCEPT ![x] = Stage("write")]
    BY <1>1
  <2> QED
    BY <1>1, <1>3, <2>1, <2>2, CompletedOperations
<1> QED
  BY <1>2, <1>3 DEF doWrite, Write

LEMMA HandlerOperations ==
    ASSUME Inv, Inv', OperationsOK, Handlers, Elsewhere
    PROVE  OperationsOK'
<1> DEFINE x == Head(ready).x
<1>1. ready # <<>> /\ UNCHANGED <<inbox, sent, client_running>>
  BY DEF Handlers, RunDatagram, TakeDatagram, RunConnect, RunWrite, RunRead,
         Running, Elsewhere
<1>2. Head(ready).ok \/ Head(ready).kind # "datagram" => x \in Datagram
  BY <1>1, HeadType DEF Inv
<1>3. CASE RunDatagram
  <2>1. CASE Head(ready).ok /\ ConnectTo(1, x)
    BY <1>1, <1>2, <2>1, ConnectToOperations
  <2>2. CASE ready' = Tail(ready) /\ UNCHANGED <<socket_, exchangeVars>>
    <3>1. /\ Keys(ready)' = Keys(Tail(ready)) /\ Queued' = Queued
          /\ Distinct(ready)' /\ Keys(ready)' \subseteq Keys(ready)
      BY <1>1, <2>2, HeadOperation DEF Queued
    <3>2. Distinct(socket_.writes)' /\ Once(socket_.reads)' /\ Once(inbox)'
      BY <1>1, <2>2 DEF OperationsOK
    <3>3. Keys(ready)' \cap Queued' = {}
      BY <3>1 DEF OperationsOK
    <3>4. client_running' => <<"datagram", 0>> \notin Keys(ready)'
      BY <1>1, <3>1 DEF OperationsOK
    <3> QED
      BY <1>1, <2>2, <3>1, <3>2, <3>3, <3>4, OperationsStay DEF exchangeVars
  <2> QED
    BY <1>3, <2>1, <2>2 DEF RunDatagram, TakeDatagram
<1>4. CASE RunConnect
  <2>1. x \in Datagram
    BY <1>2, <1>4 DEF RunConnect, Running
  <2> QED
    BY <1>1, <1>4, <2>1, WriteOperations, ConnectToOperations, FailOperations
       DEF RunConnect
<1>5. CASE RunWrite
  <2>1. x \in Datagram
    BY <1>2, <1>5 DEF RunWrite, Running
  <2>2. CASE Fail(x)
    BY <1>1, <2>1, <2>2, FailOperations
  <2>3. CASE /\ exchange' = [exchange EXCEPT ![x] = "reading"]
             /\ socket_' = [socket_ EXCEPT !.reads = Append(@, x)]
             /\ ready' = Tail(ready)
    <3>1. /\ socket_'.reads = Append(socket_.reads, x)
          /\ socket_'.writes = socket_.writes
      BY <2>3 DEF Inv, SocketOK, Socket
    <3> QED
      BY <1>1, <2>1, <2>3, <3>1, QueuedOperations
  <2>4. CASE /\ exchange' = [exchange EXCEPT ![x] = "reading"]
             /\ ready' = Append(Tail(ready), Done("read", x, FALSE, <<>>))
             /\ UNCHANGED socket_
    <3>1. Done("read", x, FALSE, <<>>) \in Completion
      BY <2>1, FailedType
    <3>2. /\ "read" \in Kind
          /\ exchange' = [exchange EXCEPT ![x] = Stage("read")]
      BY <2>4 DEF Kind, Stage
    <3> QED
      BY <1>1, <2>1, <2>4, <3>1, <3>2, CompletedOperations
  <2> QED
    BY <1>5, <2>2, <2>3, <2>4 DEF RunWrite
<1>6. CASE RunRead
  <2>1. x \in Datagram
    BY <1>2, <1>6 DEF RunRead, Running
  <2> QED
    BY <1>1, <1>6, <2>1, AnsweredOperations, FailOperations DEF RunRead
<1> QED
  BY <1>3, <1>4, <1>5, <1>6 DEF Handlers

LEMMA ReceiveOperations ==
    ASSUME Inv, OperationsOK, Receive, Elsewhere
    PROVE  OperationsOK'
<1> DEFINE n == Head(inbox)
           op == Done("datagram", n, TRUE, <<>>)
<1>1. /\ inbox # <<>> /\ inbox' = Tail(inbox) /\ ready' = Append(ready, op)
      /\ UNCHANGED <<socket_, exchange, sent, client_running>>
  BY DEF Receive, Elsewhere, exchangeVars
<1>2. inbox \in Seq(Datagram) /\ n \in Datagram
  BY <1>1 DEF Inv, FlagsOK
<1>3. ready \in Seq(Completion) /\ op \in Completion /\ Key(op) = <<"datagram", n>>
  <2>1. <<>> \in Seq(Nat)
    OBVIOUS
  <2>2. op \in Completion
    BY <1>2, <2>1, DoneType, DatagramType
  <2> QED
    BY <2>2 DEF Inv, ReadyOK, Key, Done
<1> HIDE DEF op
<1>4. /\ Elements(inbox) = {n} \cup Elements(Tail(inbox))
      /\ Once(Tail(inbox)) /\ n \notin Elements(Tail(inbox))
  BY <1>1, <1>2, TailElements DEF OperationsOK
<1> HIDE DEF n
<1>5. Tagged("datagram", inbox) =
        {<<"datagram", n>>} \cup Tagged("datagram", Tail(inbox))
  BY <1>4 DEF Tagged
<1>6. <<"datagram", n>> \notin Tagged("datagram", Tail(inbox))
  BY <1>4 DEF Tagged
<1>7. <<"datagram", n>> \notin Keys(ready)
  BY <1>5 DEF OperationsOK, Queued
<1>8. Elements(Append(ready, op)) = Elements(ready) \cup {op}
  BY <1>3, AppendElements
<1>9. Keys(ready)' = Keys(ready) \cup {<<"datagram", n>>}
  BY <1>1, <1>3, <1>8 DEF Keys
<1>10. Distinct(ready)'
  <2>1. Distinct(Append(ready, op))
    BY <1>3, <1>7, AppendDistinct DEF OperationsOK
  <2> QED
    BY <1>1, <2>1
<1>11. Queued' = Keys(socket_.writes) \cup Tagged("read", socket_.reads)
                    \cup Tagged("datagram", Tail(inbox))
  BY <1>1 DEF Queued
<1>12. <<"datagram", n>> \notin Queued'
  BY <1>5, <1>6, <1>11, QueuesApart
<1>13. Keys(ready)' \cap Queued' = {}
  BY <1>5, <1>9, <1>11, <1>12 DEF OperationsOK, Queued
<1>14. Keys(ready)' \cup Queued' \subseteq Keys(ready) \cup Queued
  BY <1>5, <1>9, <1>11 DEF Queued
<1>15. Distinct(socket_.writes)' /\ Once(socket_.reads)' /\ Once(inbox)'
  BY <1>1, <1>4 DEF OperationsOK
<1>16. client_running' => <<"datagram", 0>> \notin Keys(ready)'
  <2>1. n # 0
    BY <1>2 DEF Datagram
  <2> QED
    BY <1>1, <1>9, <2>1 DEF OperationsOK
<1> QED
  BY <1>1, <1>10, <1>13, <1>14, <1>15, <1>16, OperationsStay

LEMMA ArriveOperations ==
    ASSUME Inv, OperationsOK, Arrive, Elsewhere
    PROVE  OperationsOK'
<1> DEFINE n == Head(socket_.reads)
<1>1. PICK ok \in BOOLEAN, got \in Seq(Nat) :
        ready' = Append(ready, Done("read", n, ok, got))
  <2>1. CASE /\ conns[socket_.conn].down # <<>>
             /\ ready' = Append(ready, Done("read", Head(socket_.reads), TRUE,
                                            Head(conns[socket_.conn].down)))
    <3>1. socket_.conn \in DOMAIN conns /\ conns[socket_.conn] \in Record
      BY DEF Arrive, Inv, SocketOK, Socket, ConnsOK
    <3>2. conns[socket_.conn].down \in Seq(Seq(Nat))
      BY <3>1 DEF Record
    <3>3. Head(conns[socket_.conn].down) \in Seq(Nat)
      BY <2>1, <3>2
    <3> QED
      BY <2>1, <3>3
  <2>2. CASE ready' = Append(ready, Done("read", Head(socket_.reads), FALSE, <<>>))
    <3>1. <<>> \in Seq(Nat)
      OBVIOUS
    <3> QED
      BY <2>2, <3>1
  <2> QED
    BY <2>1, <2>2 DEF Arrive
<1> DEFINE op == Done("read", n, ok, got)
<1>2. /\ socket_.reads # <<>> /\ socket_'.reads = Tail(socket_.reads)
      /\ socket_'.writes = socket_.writes /\ ready' = Append(ready, op)
      /\ UNCHANGED <<inbox, exchange, sent, client_running>>
  BY <1>1 DEF Arrive, Elsewhere, exchangeVars, Inv, SocketOK, Socket
<1>3. socket_.reads \in Seq(Datagram) /\ n \in Datagram
  BY <1>2 DEF Inv, SocketOK, Socket
<1>4. ready \in Seq(Completion) /\ op \in Completion /\ Key(op) = <<"read", n>>
  <2>1. op \in Completion
    BY <1>3, DoneType, DatagramType
  <2> QED
    BY <2>1 DEF Inv, ReadyOK, Key, Done
<1> HIDE DEF op
<1>5. /\ Elements(socket_.reads) = {n} \cup Elements(Tail(socket_.reads))
      /\ Once(Tail(socket_.reads)) /\ n \notin Elements(Tail(socket_.reads))
  BY <1>2, <1>3, TailElements DEF OperationsOK
<1> HIDE DEF n
<1>6. Tagged("read", socket_.reads) =
        {<<"read", n>>} \cup Tagged("read", Tail(socket_.reads))
  BY <1>5 DEF Tagged
<1>7. <<"read", n>> \notin Tagged("read", Tail(socket_.reads))
  BY <1>5 DEF Tagged
<1>8. <<"read", n>> \notin Keys(ready)
  BY <1>6 DEF OperationsOK, Queued
<1>9. Elements(Append(ready, op)) = Elements(ready) \cup {op}
  BY <1>4, AppendElements
<1>10. Keys(ready)' = Keys(ready) \cup {<<"read", n>>}
  BY <1>2, <1>4, <1>9 DEF Keys
<1>11. Distinct(ready)'
  <2>1. Distinct(Append(ready, op))
    BY <1>4, <1>8, AppendDistinct DEF OperationsOK
  <2> QED
    BY <1>2, <2>1
<1>12. Queued' = Keys(socket_.writes) \cup Tagged("read", Tail(socket_.reads))
                    \cup Tagged("datagram", inbox)
  BY <1>2 DEF Queued
<1>13. <<"read", n>> \notin Queued'
  BY <1>6, <1>7, <1>12, QueuesApart
<1>14. Keys(ready)' \cap Queued' = {}
  BY <1>6, <1>10, <1>12, <1>13 DEF OperationsOK, Queued
<1>15. Keys(ready)' \cup Queued' \subseteq Keys(ready) \cup Queued
  BY <1>6, <1>10, <1>12 DEF Queued
<1>16. Distinct(socket_.writes)' /\ Once(socket_.reads)' /\ Once(inbox)'
  BY <1>2, <1>5 DEF OperationsOK
<1>17. client_running' => <<"datagram", 0>> \notin Keys(ready)'
  BY <1>2, <1>10 DEF OperationsOK
<1> QED
  BY <1>2, <1>11, <1>14, <1>15, <1>16, <1>17, OperationsStay

\* The connect and all that waits behind it complete.
LEMMA ReadyEstablished ==
    ASSUME Inv, OperationsOK, Establish
    PROVE  \E ok \in BOOLEAN :
            /\ socket_' = [socket_ EXCEPT
                    !.conn = IF ok THEN Len(conns) + 1 ELSE 0,
                    !.writes = <<>>, !.reads = IF ok THEN @ ELSE <<>>]
            /\ conns' = IF ok THEN Append(conns, NewConn([i \in
                                    1..(Len(socket_.writes) - 1) |-> Garbage]))
                        ELSE conns
            /\ Distinct(ready)'
            /\ \A o \in Elements(ready') : o.kind = "read" /\ o.ok
                    => o \in Elements(ready)
            /\ Keys(ready)' = Keys(ready) \cup Keys(socket_.writes) \cup
                    (IF ok THEN {} ELSE Tagged("read", socket_.reads))
<1> DEFINE ok == Accepts(tcp_endpoints_[attempt[Head(socket_.writes).x]])
           w == [i \in DOMAIN socket_.writes |->
                    Done(socket_.writes[i].kind, socket_.writes[i].x, ok, <<>>)]
           r == [i \in DOMAIN socket_.reads |->
                    Done("read", socket_.reads[i], FALSE, <<>>)]
<1>1. /\ socket_' = [socket_ EXCEPT
                    !.conn = IF ok THEN Len(conns) + 1 ELSE 0,
                    !.writes = <<>>, !.reads = IF ok THEN @ ELSE <<>>]
      /\ conns' = IF ok THEN Append(conns, NewConn([i \in
                                    1..(Len(socket_.writes) - 1) |-> Garbage]))
                        ELSE conns
      /\ ready' = ready \o w \o (IF ok THEN <<>> ELSE r)
  BY DEF Establish
<1>2. socket_.writes \in Seq(Operation) /\ socket_.reads \in Seq(Datagram)
  BY DEF Inv, SocketOK, Socket
<1>3. ok \in BOOLEAN
  BY DEF Accepts
<1> HIDE DEF ok
<1>4. w \in Seq(Completion) /\ r \in Seq(Completion) /\ ready \in Seq(Completion)
  BY <1>2, <1>3, WritesType, ReadsType DEF Inv, ReadyOK
<1>5. /\ Keys(w) = Keys(socket_.writes) /\ Distinct(w)
      /\ \A o \in Elements(w) : o.kind # "read" /\ o.ok = ok
  <2>1. /\ DOMAIN w = DOMAIN socket_.writes
        /\ \A i \in DOMAIN socket_.writes :
              w[i] = Done(socket_.writes[i].kind, socket_.writes[i].x, ok, <<>>)
    OBVIOUS
  <2> HIDE DEF w
  <2> QED
    BY <1>2, <1>3, <2>1, CompletedWrites DEF OperationsOK
<1>6. /\ Keys(r) = Tagged("read", socket_.reads) /\ Distinct(r)
      /\ \A o \in Elements(r) : ~o.ok
  <2>1. /\ DOMAIN r = DOMAIN socket_.reads
        /\ \A i \in DOMAIN socket_.reads :
              r[i] = Done("read", socket_.reads[i], FALSE, <<>>)
    OBVIOUS
  <2> HIDE DEF r
  <2> QED
    BY <1>2, <2>1, CompletedReads, Zenon DEF OperationsOK
<1> HIDE DEF w, r
<1> DEFINE rw == ready \o w
<1>7. rw \in Seq(Completion)
  BY <1>4
<1>8. Elements(rw) = Elements(ready) \cup Elements(w)
  BY <1>4, ConcatElements, Zenon
<1>9. Keys(rw) = Keys(ready) \cup Keys(socket_.writes)
  BY <1>5, <1>8 DEF Keys
<1>10. Distinct(rw)
  <2>1. Keys(ready) \cap Keys(w) = {}
    BY <1>5 DEF OperationsOK, Queued
  <2> QED
    BY <1>4, <1>5, <2>1, ConcatDistinct, Zenon DEF OperationsOK
<1> HIDE DEF rw
<1>11. CASE ok
  <2>1. ready' = rw
    <3>1. ready' = rw \o <<>>
      BY <1>1, <1>11 DEF rw
    <3> QED
      BY <1>7, <3>1
  <2> QED
    BY <1>1, <1>3, <1>5, <1>8, <1>9, <1>10, <1>11, <2>1
<1>12. CASE ~ok
  <2>1. ready' = rw \o r
    BY <1>1, <1>12 DEF rw
  <2>2. Elements(rw \o r) = Elements(rw) \cup Elements(r)
    BY <1>4, <1>7, ConcatElements, Zenon
  <2>3. Keys(rw) \cap Keys(r) = {}
    BY <1>6, <1>9, QueuesApart DEF OperationsOK, Queued
  <2>4. Distinct(rw \o r)
    BY <1>4, <1>6, <1>7, <1>10, <2>3, ConcatDistinct, Zenon
  <2>5. Keys(rw \o r) = Keys(rw) \cup Keys(r)
    BY <2>2 DEF Keys
  <2> QED
    BY <1>1, <1>3, <1>5, <1>6, <1>8, <1>9, <1>12, <2>1, <2>2, <2>4, <2>5
<1> QED
  BY <1>3, <1>11, <1>12

LEMMA EstablishOperations ==
    ASSUME Inv, OperationsOK, Establish, Elsewhere
    PROVE  OperationsOK'
<1>1. PICK ok \in BOOLEAN :
        /\ socket_' = [socket_ EXCEPT
                    !.conn = IF ok THEN Len(conns) + 1 ELSE 0,
                    !.writes = <<>>, !.reads = IF ok THEN @ ELSE <<>>]
        /\ Distinct(ready)'
        /\ Keys(ready)' = Keys(ready) \cup Keys(socket_.writes) \cup
                    (IF ok THEN {} ELSE Tagged("read", socket_.reads))
  BY ReadyEstablished
<1>2. UNCHANGED <<inbox, exchange, sent, client_running>>
  BY DEF Establish, Elsewhere, exchangeVars
<1>3. /\ socket_'.writes = <<>>
      /\ socket_'.reads = IF ok THEN socket_.reads ELSE <<>>
  BY <1>1 DEF Inv, SocketOK, Socket
<1>4. Distinct(socket_.writes)' /\ Once(socket_.reads)' /\ Once(inbox)'
  BY <1>2, <1>3, NoElement DEF OperationsOK
<1>5. Keys(socket_.writes)' = {}
  BY <1>3, NoElement DEF Keys
<1>6. Tagged("read", socket_.reads)' =
        IF ok THEN Tagged("read", socket_.reads) ELSE {}
  BY <1>3, NoElement DEF Tagged
<1>7. Queued' = (IF ok THEN Tagged("read", socket_.reads) ELSE {})
                    \cup Tagged("datagram", inbox)
  BY <1>2, <1>5, <1>6 DEF Queued
<1>8. Keys(ready)' \cap Queued' = {}
  BY <1>1, <1>7, QueuesApart DEF OperationsOK, Queued
<1>9. Keys(ready)' \cup Queued' \subseteq Keys(ready) \cup Queued
  BY <1>1, <1>7 DEF Queued
<1>10. client_running' => <<"datagram", 0>> \notin Keys(ready)'
  BY <1>1, <1>2, QueuesApart DEF OperationsOK, Queued
<1> QED
  BY <1>1, <1>2, <1>4, <1>8, <1>9, <1>10, OperationsStay

LEMMA MainOperations ==
    ASSUME Inv, OperationsOK, StopClient \/ ExitClient, Elsewhere
    PROVE  OperationsOK'
<1>1. UNCHANGED <<exchange, sent>> /\ ~client_running'
  <2>1. UNCHANGED <<exchange, sent>>
    BY DEF StopClient, ExitClient, Elsewhere, exchangeVars
  <2>2. StopClient => client_running' = FALSE
    BY Zenon DEF StopClient
  <2>3. ExitClient => ~client_running /\ client_running' = client_running
    BY Zenon DEF ExitClient
  <2>4. ~client_running'
    BY <2>2, <2>3, Zenon
  <2> QED
    BY <2>1, <2>4
<1>2. ready \in Seq(Completion)
  BY DEF Inv, ReadyOK
<1>3. CASE StopClient
  <2> DEFINE op == Done("datagram", 0, FALSE, <<>>)
  <2>1. /\ ready' = ready \/ (client_running /\ ready' = Append(ready, op))
        /\ UNCHANGED socket_ /\ inbox' = <<>>
    BY <1>3 DEF StopClient
  <2>2. op \in Completion /\ Key(op) = <<"datagram", 0>>
    <3>1. <<>> \in Seq(Nat)
      OBVIOUS
    <3>2. 0 \in 0..MaxDatagrams /\ ~(FALSE \/ "datagram" # "datagram")
      BY MaxDatagramsAssumption
    <3>3. op \in Completion
      BY <3>1, <3>2, DoneType
    <3> QED
      BY <3>3 DEF Key, Done
  <2> HIDE DEF op
  <2>3. Once(inbox)' /\ Tagged("datagram", inbox)' = {}
    BY <2>1, NoElement DEF Tagged
  <2>4. Queued' = Keys(socket_.writes) \cup Tagged("read", socket_.reads)
    BY <2>1, <2>3 DEF Queued
  <2>5. /\ Keys(ready)' \subseteq Keys(ready) \cup {<<"datagram", 0>>}
        /\ Distinct(ready)'
    <3>1. Elements(Append(ready, op)) = Elements(ready) \cup {op}
      BY <1>2, <2>2, AppendElements
    <3>2. Keys(Append(ready, op)) = Keys(ready) \cup {<<"datagram", 0>>}
      BY <2>2, <3>1 DEF Keys
    <3>3. client_running => Distinct(Append(ready, op))
      BY <1>2, <2>2, AppendDistinct DEF OperationsOK
    <3> QED
      BY <2>1, <3>2, <3>3 DEF OperationsOK
  <2>6. Keys(ready)' \cap Queued' = {}
    BY <2>4, <2>5, QueuesApart DEF OperationsOK, Queued
  <2>7. Keys(ready)' \cup Queued' \subseteq
            Keys(ready) \cup Queued \cup {<<"datagram", 0>>}
    BY <2>4, <2>5 DEF Queued
  <2>8. Distinct(socket_.writes)' /\ Once(socket_.reads)'
    BY <2>1 DEF OperationsOK
  <2> QED
    BY <1>1, <2>3, <2>5, <2>6, <2>7, <2>8, OperationsStay
<1>4. CASE ExitClient
  <2>1. /\ ready' = ready /\ inbox' = inbox
        /\ socket_'.writes = <<>> /\ socket_'.reads = <<>>
    BY <1>4 DEF ExitClient
  <2>2. Queued' = Tagged("datagram", inbox)
    BY <2>1, NoElement DEF Queued, Keys, Tagged
  <2>3. /\ Distinct(socket_.writes)' /\ Once(socket_.reads)'
        /\ Distinct(ready)' /\ Once(inbox)'
    BY <2>1, NoElement DEF OperationsOK
  <2>4. Keys(ready)' \cap Queued' = {}
    BY <2>1, <2>2 DEF OperationsOK, Queued
  <2>5. Keys(ready)' \cup Queued' \subseteq Keys(ready) \cup Queued
    BY <2>1, <2>2 DEF Queued
  <2> QED
    BY <1>1, <2>3, <2>4, <2>5, OperationsStay
<1> QED
  BY <1>3, <1>4

LEMMA SendOperations ==
    ASSUME Inv, OperationsOK, Send
    PROVE  OperationsOK'
<1> DEFINE n == sent + 1
<1>1. UNCHANGED <<client_running, socket_, ready, exchange>>
  BY DEF Send, exchangeVars
<1>2. /\ n \in Datagram /\ n > sent /\ sent \in Nat /\ n # 0
      /\ inbox \in Seq(Datagram)
  BY MaxDatagramsAssumption DEF Send, Inv, FlagsOK, Datagram
<1>3. sent' = n
  BY DEF Send
<1>4. inbox' = inbox \/ inbox' = Append(inbox, n)
  BY DEF Send
<1>5. ASSUME NEW k \in Kind, <<k, n>> \in Keys(ready) \cup Queued PROVE FALSE
  <2>1. n <= sent
    BY <1>2, <1>5, Zenon DEF OperationsOK, StagesOK
  <2> QED
    BY <1>2, <2>1
<1>6. "datagram" \in Kind /\ Stage("datagram") = "none"
  BY DEF Kind, Stage
<1>7. exchange[n] = "none"
  BY <1>2 DEF OperationsOK
<1>8. <<"datagram", n>> \notin Keys(ready) \cup Queued
  BY <1>5, <1>6
<1> HIDE DEF n
<1>9. Elements(Append(inbox, n)) = Elements(inbox) \cup {n}
  BY <1>2, AppendElements
<1>10. Once(Append(inbox, n))
  <2>1. n \notin Elements(inbox)
    BY <1>8 DEF Queued, Tagged
  <2> QED
    BY <1>2, <2>1, AppendDistinct DEF OperationsOK
<1>11. Once(inbox)'
  BY <1>4, <1>10 DEF OperationsOK
<1>12. Queued' \subseteq Queued \cup {<<"datagram", n>>}
  <2>1. Tagged("datagram", Append(inbox, n)) =
            Tagged("datagram", inbox) \cup {<<"datagram", n>>}
    BY <1>9 DEF Tagged
  <2> QED
    BY <1>1, <1>4, <2>1 DEF Queued
<1>13. Keys(ready)' \cap Queued' = {}
  BY <1>1, <1>8, <1>12 DEF OperationsOK
<1>14. StagesOK(Keys(ready)' \cup Queued', exchange', sent')
  <2> SUFFICES ASSUME NEW k \in Kind, NEW x \in Datagram,
                      <<k, x>> \in Keys(ready)' \cup Queued'
               PROVE  exchange'[x] = Stage(k) /\ x <= sent'
    BY Zenon DEF StagesOK
  <2>1. CASE <<k, x>> = <<"datagram", n>>
    <3>1. k = "datagram" /\ x = n
      BY <2>1
    <3> QED
      BY <1>1, <1>2, <1>3, <1>6, <1>7, <3>1 DEF Datagram
  <2>2. CASE <<k, x>> \in Keys(ready) \cup Queued
    <3>1. exchange[x] = Stage(k) /\ x <= sent
      BY <2>2, Zenon DEF OperationsOK, StagesOK
    <3> QED
      BY <1>1, <1>2, <1>3, <3>1 DEF Datagram, n
  <2> QED
    BY <1>1, <1>12, <2>1, <2>2
<1>15. \A x \in Datagram : x > sent' => exchange'[x] = "none"
  BY <1>1, <1>2, <1>3 DEF OperationsOK, Datagram, n
<1> QED
  BY <1>1, <1>11, <1>13, <1>14, <1>15 DEF OperationsOK

\* The server, the network and the end of the simulator touch no operation.
LEMMA SameOperations ==
    ASSUME OperationsOK,
           UNCHANGED <<ready, socket_, inbox, exchange, sent, client_running>>
    PROVE  OperationsOK'
<1>1. Queued' = Queued
  BY DEF Queued
<1> QED
  BY <1>1 DEF OperationsOK

LEMMA OperationsStep == Inv /\ Inv' /\ OperationsOK /\ [Next]_vars => OperationsOK'
<1> SUFFICES ASSUME Inv, Inv', OperationsOK, [Next]_vars PROVE OperationsOK'
  OBVIOUS
<1>1. CASE Send
  BY <1>1, SendOperations
<1>2. CASE Client /\ Elsewhere
  BY <1>2, HandlerOperations, ReceiveOperations, EstablishOperations,
     ArriveOperations DEF Client
<1>3. CASE (StopClient \/ ExitClient) /\ Elsewhere
  BY <1>3, MainOperations
<1>4. CASE StopSimulator \/ Beyond \/ UNCHANGED vars
  BY <1>4, SameOperations DEF StopSimulator, Beyond, vars, forwarderVars
<1> QED
  BY <1>1, <1>2, <1>3, <1>4 DEF Next, Elsewhere, Beyond

-----------------------------------------------------------------------------
(* An exchange no other overlapped gets what it has sent.                  *)

\* What a step has to leave of the ready operations and the connection.
LEMMA AloneKept ==
    ASSUME AloneOK, Active' = Active, crossed' = crossed,
           \A x \in Active : Active = {x} /\ x \notin crossed =>
              /\ \A o \in Elements(ready') : o.kind = "read" /\ o.ok =>
                    o \in Elements(ready) \/ o.got = <<x>>
              /\ socket_'.conn # 0 =>
                    Own(x, exchange'[x], conns'[socket_'.conn].up,
                        conns'[socket_'.conn].down)
    PROVE  AloneOK'
<1> SUFFICES ASSUME NEW x \in Active, x \notin crossed
             PROVE  /\ Active = {x}
                    /\ \A o \in Elements(ready') : o.kind = "read" /\ o.ok =>
                            o.got = <<x>>
                    /\ socket_'.conn # 0 =>
                          Own(x, exchange'[x], conns'[socket_'.conn].up,
                              conns'[socket_'.conn].down)
  BY DEF AloneOK
<1>1. /\ Active = {x}
      /\ \A o \in Elements(ready) : o.kind = "read" /\ o.ok => o.got = <<x>>
  BY DEF AloneOK
<1> QED
  BY <1>1, Zenon

\* The exchange a handler runs for, unless its operation is a receive.
LEMMA HeadActive ==
    ASSUME Inv, OperationsOK, ready # <<>>, Head(ready).kind # "datagram"
    PROVE  Head(ready).x \in Active
<1>1. Head(ready).x \in Datagram
  BY HeadType DEF Inv
<1>2. Key(Head(ready)) = <<Head(ready).kind, Head(ready).x>>
  BY DEF Key
<1>3. <<Head(ready).kind, Head(ready).x>> \in Keys(ready) \cup Queued
  BY <1>2, HeadOperation, Zenon
<1>4. exchange[Head(ready).x] = Stage(Head(ready).kind)
  BY <1>1, <1>3, HeadOperation, Zenon DEF OperationsOK, StagesOK
<1> QED
  BY <1>1, <1>4, HeadOperation DEF Stage, Kind, Active

\* When the exchange of a handler ends, no other was alone.
LEMMA AloneEnds ==
    ASSUME Inv, AloneOK, NEW x \in Active, NEW end \in {"failed", "answered"},
           exchange' = [exchange EXCEPT ![x] = end], crossed' = crossed
    PROVE  AloneOK'
<1>1. DOMAIN exchange = Datagram
  BY DEF Inv, ExchangeOK
<1>2. x \notin Active'
  BY <1>1 DEF Active
<1>3. \A y \in Active' : y \in Active /\ y # x
  BY <1>1, <1>2 DEF Active
<1>4. \A y \in Active : y \notin crossed => Active = {y}
  BY DEF AloneOK
<1>5. Active' \ crossed' = {}
  BY <1>3, <1>4
<1> QED
  BY <1>5 DEF AloneOK

LEMMA SameActive ==
    ASSUME Inv, NEW x \in Active, NEW stage \in {"connecting", "writing", "reading"},
           exchange' = [exchange EXCEPT ![x] = stage]
    PROVE  Active' = Active
<1>1. DOMAIN exchange = Datagram /\ x \in Datagram
  BY DEF Inv, ExchangeOK, Active
<1>2. x \in Active'
  BY <1>1 DEF Active
<1>3. \A y \in Datagram : y # x => (y \in Active' <=> y \in Active)
  BY <1>1 DEF Active
<1>4. Active \subseteq Datagram /\ Active' \subseteq Datagram
  BY DEF Active
<1> QED
  BY <1>2, <1>3, <1>4

LEMMA ConnectToAlone ==
    ASSUME Inv, OperationsOK, AloneOK, ready # <<>>, Head(ready).x \in Active,
           NEW n, ConnectTo(n, Head(ready).x), crossed' = crossed
    PROVE  AloneOK'
<1>1. /\ ready' = Tail(ready) \o Aborted /\ socket_'.conn = 0
      /\ exchange' = [exchange EXCEPT ![Head(ready).x] = "connecting"]
  BY DEF ConnectTo
<1>2. Active' = Active
  BY <1>1, SameActive
<1>3. \A o \in Elements(ready') : o.ok => o \in Elements(ready)
  BY <1>1, ReadyAborted
<1> QED
  BY <1>1, <1>2, <1>3, AloneKept

LEMMA WriteAlone ==
    ASSUME Inv, OperationsOK, AloneOK, ready # <<>>, Head(ready).x \in Active,
           Head(ready).kind = "connect",
           doWrite(Head(ready).x), crossed' = crossed
    PROVE  AloneOK'
<1> DEFINE x == Head(ready).x
<1>1. exchange' = [exchange EXCEPT ![x] = "writing"]
  BY DEF doWrite, Write
<1>2. DOMAIN exchange = Datagram /\ x \in Datagram
  BY DEF Inv, ExchangeOK, Active
<1>3. exchange'[x] = "writing" /\ exchange[x] = "connecting"
  <2>1. <<"connect", x>> \in Keys(ready) \cup Queued
    BY HeadOperation DEF Key
  <2>2. "connect" \in Kind /\ Stage("connect") = "connecting"
    BY DEF Kind, Stage
  <2>3. exchange[x] = "connecting"
    BY <1>2, <2>1, <2>2 DEF OperationsOK, StagesOK
  <2> QED
    BY <1>1, <1>2, <2>3
<1>4. Active' = Active
  BY <1>1, SameActive
<1>5. \A o \in Elements(ready') : o.kind = "read" => o \in Elements(ready)
  <2>1. CASE ready' = Tail(ready)
    BY <2>1, HeadOperation
  <2>2. ASSUME NEW ok \in BOOLEAN,
               ready' = Append(Tail(ready), Done("write", x, ok, <<>>))
        PROVE  \A o \in Elements(ready') : o.kind = "read" => o \in Elements(ready)
    <3> DEFINE op == Done("write", x, ok, <<>>)
    <3>1. Tail(ready) \in Seq(Completion) /\ op \in Completion
      BY <1>2, HeadType, FailedType DEF Inv
    <3>2. op.kind # "read" /\ ready' = Append(Tail(ready), op)
      BY <2>2 DEF Done
    <3> HIDE DEF op
    <3>3. Elements(Append(Tail(ready), op)) = Elements(Tail(ready)) \cup {op}
      <4>1. \A s \in Seq(Completion), o \in Completion :
                Elements(Append(s, o)) = Elements(s) \cup {o}
        BY AppendElements
      <4> QED
        BY <3>1, <4>1, Zenon
    <3> QED
      BY <3>2, <3>3, HeadOperation
  <2> QED
    BY <2>1, <2>2 DEF doWrite, Write
<1>6. ASSUME Active = {x}, x \notin crossed, socket_'.conn # 0
      PROVE  Own(x, "writing", conns'[socket_'.conn].up, conns'[socket_'.conn].down)
  <2> DEFINE c == socket_.conn
  <2>1. socket_'.conn = c /\ c # 0
    BY <1>6 DEF doWrite, Write, Inv, SocketOK, Socket
  <2>2. conns[c].up = <<>> /\ conns[c].down = <<>>
    BY <1>3, <1>6, <2>1 DEF AloneOK, Own
  <2>3. CASE conns' = conns
    BY <2>1, <2>2, <2>3 DEF Own
  <2>4. CASE conns' = [conns EXCEPT ![c].up = Append(@, x)]
    <3>1. c \in DOMAIN conns /\ conns[c] \in Record
      BY <2>1 DEF Inv, SocketOK, Socket, ConnsOK
    <3>2. /\ conns'[c].up = Append(conns[c].up, x)
          /\ conns'[c].down = conns[c].down
      BY <2>4, <3>1 DEF Record
    <3>3. conns'[c].up = <<x>> /\ conns'[c].down = <<>>
      BY <2>2, <3>2
    <3> QED
      BY <2>1, <3>3 DEF Own
  <2> QED
    BY <2>3, <2>4 DEF doWrite, Write
<1> HIDE DEF x
<1> QED
  BY <1>3, <1>4, <1>5, <1>6, AloneKept DEF x

LEMMA ReadAlone ==
    ASSUME Inv, OperationsOK, AloneOK, ready # <<>>, Head(ready).x \in Active,
           exchange' = [exchange EXCEPT ![Head(ready).x] = "reading"],
           socket_'.conn = socket_.conn,
           \/ ready' = Tail(ready)
           \/ ready' = Append(Tail(ready), Done("read", Head(ready).x, FALSE, <<>>)),
           UNCHANGED <<conns, crossed>>
    PROVE  AloneOK'
<1> DEFINE x == Head(ready).x
           op == Done("read", x, FALSE, <<>>)
<1>1. DOMAIN exchange = Datagram /\ x \in Datagram
  BY DEF Inv, ExchangeOK, Active
<1>2. Active' = Active /\ exchange'[x] = "reading"
  BY <1>1, SameActive
<1>3. \A o \in Elements(ready') : o.ok => o \in Elements(ready)
  <2>1. Tail(ready) \in Seq(Completion) /\ op \in Completion /\ ~op.ok
    BY <1>1, HeadType, FailedType DEF Inv, Done
  <2>2. ready' = Tail(ready) \/ ready' = Append(Tail(ready), op)
    OBVIOUS
  <2> HIDE DEF op
  <2>3. Elements(Append(Tail(ready), op)) = Elements(Tail(ready)) \cup {op}
    <3>1. \A s \in Seq(Completion), o \in Completion :
              Elements(Append(s, o)) = Elements(s) \cup {o}
      BY AppendElements
    <3> QED
      BY <2>1, <3>1, Zenon
  <2> QED
    BY <2>1, <2>2, <2>3, HeadOperation
<1>4. ASSUME Active = {x}, x \notin crossed, socket_'.conn # 0
      PROVE  Own(x, "reading", conns'[socket_'.conn].up, conns'[socket_'.conn].down)
  BY <1>4 DEF AloneOK, Own
<1> HIDE DEF x
<1> QED
  BY <1>2, <1>3, <1>4, AloneKept DEF x

LEMMA DatagramAlone ==
    ASSUME Inv, OperationsOK, AloneOK, RunDatagram
    PROVE  AloneOK'
<1> DEFINE x == Head(ready).x
<1>1. ready # <<>> /\ Head(ready).kind = "datagram"
  BY DEF RunDatagram, TakeDatagram, Running
<1>2. CASE Head(ready).ok /\ ConnectTo(1, x)
            /\ crossed' = IF Active = {} THEN crossed
                          ELSE crossed \cup Active \cup {x}
  <2>1. /\ ready' = Tail(ready) \o Aborted /\ socket_'.conn = 0
        /\ exchange' = [exchange EXCEPT ![x] = "connecting"]
    BY <1>2 DEF ConnectTo
  <2>2. DOMAIN exchange = Datagram /\ x \in Datagram
    BY <1>1, <1>2, HeadType DEF Inv, ExchangeOK
  <2>3. Active' = Active \cup {x}
    <3>1. x \in Active'
      BY <2>1, <2>2 DEF Active
    <3>2. \A y \in Datagram : y # x => (y \in Active' <=> y \in Active)
      BY <2>1, <2>2 DEF Active
    <3>3. Active \subseteq Datagram /\ Active' \subseteq Datagram
      BY DEF Active
    <3> QED
      BY <2>2, <3>1, <3>2, <3>3
  <2>4. CASE Active = {}
    <3>1. ASSUME NEW o \in Elements(ready'), o.kind = "read", o.ok PROVE FALSE
      <4>1. o \in Elements(ready)
        BY <1>1, <2>1, <3>1, ReadyAborted
      <4>2. o \in Completion
        <5>1. \A i \in DOMAIN ready : ready[i] \in Completion
          BY DEF Inv, ReadyOK
        <5> QED
          BY <4>1, <5>1, Zenon DEF Elements
      <4>3. o.x \in Datagram
        BY <3>1, <4>2 DEF Completion
      <4>4. <<"read", o.x>> \in Keys(ready) \cup Queued
        BY <3>1, <4>1 DEF Keys, Key
      <4>5. exchange[o.x] = Stage("read") /\ "read" \in Kind
        BY <4>3, <4>4 DEF OperationsOK, StagesOK, Kind
      <4> QED
        BY <2>4, <4>3, <4>5 DEF Active, Stage
    <3> QED
      BY <2>1, <2>3, <2>4, <3>1 DEF AloneOK
  <2>5. CASE Active # {}
    <3>1. Active' \ crossed' = {}
      BY <1>2, <2>3, <2>5
    <3> QED
      BY <3>1 DEF AloneOK
  <2> QED
    BY <2>4, <2>5
<1>3. CASE ready' = Tail(ready) /\ UNCHANGED <<tcpVars, socket_, exchangeVars>>
  <2>1. Active' = Active /\ UNCHANGED <<conns, socket_, exchange, crossed>>
    BY <1>3 DEF Active, exchangeVars, tcpVars
  <2>2. \A o \in Elements(ready') : o \in Elements(ready)
    BY <1>1, <1>3, HeadOperation
  <2>3. \A y \in Active : y \notin crossed /\ socket_.conn # 0 =>
            Own(y, exchange[y], conns[socket_.conn].up, conns[socket_.conn].down)
    BY DEF AloneOK
  <2> QED
    BY <2>1, <2>2, <2>3, AloneKept
<1> QED
  BY <1>2, <1>3 DEF RunDatagram, TakeDatagram

LEMMA HandlerAlone ==
    ASSUME Inv, OperationsOK, AloneOK, Handlers
    PROVE  AloneOK'
<1> DEFINE x == Head(ready).x
<1>1. CASE RunDatagram
  BY <1>1, DatagramAlone
<1>2. ASSUME ready # <<>>, Head(ready).kind # "datagram", Fail(x), crossed' = crossed
      PROVE  AloneOK'
  <2>1. exchange' = [exchange EXCEPT ![x] = "failed"] /\ x \in Active
    BY <1>2, HeadActive DEF Fail
  <2> QED
    BY <1>2, <2>1, AloneEnds
<1>3. CASE RunConnect
  <2>1. /\ ready # <<>> /\ Head(ready).kind = "connect" /\ x \in Active
        /\ crossed' = crossed
    BY <1>3, HeadActive DEF RunConnect, Running
  <2> QED
    BY <1>2, <1>3, <2>1, WriteAlone, ConnectToAlone DEF RunConnect
<1>4. CASE RunWrite
  <2>1. /\ ready # <<>> /\ Head(ready).kind = "write" /\ x \in Active
        /\ crossed' = crossed
    BY <1>4, HeadActive DEF RunWrite, Running
  <2>2. CASE Fail(x)
    BY <1>2, <2>1, <2>2
  <2>3. CASE /\ exchange' = [exchange EXCEPT ![x] = "reading"]
             /\ \/ /\ socket_' = [socket_ EXCEPT !.reads = Append(@, x)]
                   /\ ready' = Tail(ready)
                \/ /\ ready' = Append(Tail(ready), Done("read", x, FALSE, <<>>))
                   /\ UNCHANGED socket_
             /\ UNCHANGED tcpVars
    <3>1. socket_'.conn = socket_.conn /\ conns' = conns
      BY <2>3 DEF Inv, SocketOK, Socket, tcpVars
    <3> QED
      BY <2>1, <2>3, <3>1, ReadAlone
  <2> QED
    BY <1>4, <2>2, <2>3 DEF RunWrite
<1>5. CASE RunRead
  <2>1. /\ ready # <<>> /\ Head(ready).kind = "read" /\ x \in Active
        /\ crossed' = crossed
    BY <1>5, HeadActive DEF RunRead, Running
  <2>2. exchange' = [exchange EXCEPT ![x] = "answered"] \/ Fail(x)
    BY <1>5 DEF RunRead
  <2> QED
    BY <1>2, <2>1, <2>2, AloneEnds
<1> QED
  BY <1>1, <1>3, <1>4, <1>5 DEF Handlers

LEMMA ReceiveAlone ==
    ASSUME Inv, OperationsOK, AloneOK, Receive
    PROVE  AloneOK'
<1> DEFINE op == Done("datagram", Head(inbox), TRUE, <<>>)
<1>1. /\ inbox # <<>> /\ ready' = Append(ready, op)
      /\ UNCHANGED <<conns, socket_, exchange, crossed>>
  BY DEF Receive, exchangeVars, tcpVars
<1>2. ready \in Seq(Completion) /\ op \in Completion /\ op.kind # "read"
  <2>1. <<>> \in Seq(Nat) /\ Head(inbox) \in Datagram
    BY <1>1 DEF Inv, FlagsOK
  <2>2. op \in Completion
    BY <2>1, DoneType, DatagramType
  <2> QED
    BY <2>2 DEF Inv, ReadyOK, Done
<1> HIDE DEF op
<1>3. Elements(Append(ready, op)) = Elements(ready) \cup {op}
  BY <1>2, AppendElements
<1>4. \A o \in Elements(ready') : o.kind = "read" => o \in Elements(ready)
  BY <1>1, <1>2, <1>3
<1>5. Active' = Active
  BY <1>1 DEF Active
<1>6. \A x \in Active : x \notin crossed /\ socket_.conn # 0 =>
        Own(x, exchange[x], conns[socket_.conn].up, conns[socket_.conn].down)
  BY DEF AloneOK
<1> QED
  BY <1>1, <1>4, <1>5, <1>6, AloneKept

\* While an exchange is alone nothing waits behind its connect.
LEMMA ConnectAlone ==
    ASSUME Inv, OperationsOK, NEW x \in Active, Active = {x}, socket_.writes # <<>>
    PROVE  Len(socket_.writes) = 1
<1>1. /\ socket_.writes \in Seq(Operation) /\ Len(socket_.writes) \in Nat \ {0}
      /\ DOMAIN socket_.writes = 1..Len(socket_.writes)
      /\ \A i \in DOMAIN socket_.writes : socket_.writes[i] \in Operation
  <2>1. socket_.writes \in Seq(Operation)
    BY DEF Inv, SocketOK, Socket
  <2> QED
    BY <2>1
<1>2. ASSUME NEW i \in DOMAIN socket_.writes
      PROVE  /\ socket_.writes[i].x = x
             /\ exchange[x] = Stage(socket_.writes[i].kind)
             /\ socket_.writes[i].kind \in {"connect", "write"}
  <2> DEFINE o == socket_.writes[i]
  <2>1. o.kind \in {"connect", "write"} /\ o.x \in Datagram
    BY <1>1 DEF Operation
  <2>2. <<o.kind, o.x>> \in Keys(ready) \cup Queued
    BY Zenon DEF Queued, Keys, Elements, Key
  <2>3. exchange[o.x] = Stage(o.kind)
    BY <2>1, <2>2 DEF OperationsOK, StagesOK, Kind
  <2>4. o.x \in Active
    BY <2>1, <2>3 DEF Active, Stage
  <2> QED
    BY <2>1, <2>3, <2>4
<1>3. ASSUME NEW i \in DOMAIN socket_.writes, NEW j \in DOMAIN socket_.writes
      PROVE  i = j
  <2>1. socket_.writes[i].kind = socket_.writes[j].kind
    BY <1>2 DEF Stage
  <2>2. Key(socket_.writes[i]) = Key(socket_.writes[j])
    BY <1>2, <2>1 DEF Key
  <2> QED
    BY <2>2, Zenon DEF OperationsOK, Distinct
<1>4. 1 \in DOMAIN socket_.writes /\ Len(socket_.writes) \in DOMAIN socket_.writes
  BY <1>1
<1> QED
  BY <1>3, <1>4

LEMMA EstablishAlone ==
    ASSUME Inv, OperationsOK, AloneOK, Establish
    PROVE  AloneOK'
<1>1. PICK ok \in BOOLEAN :
        /\ socket_' = [socket_ EXCEPT
                    !.conn = IF ok THEN Len(conns) + 1 ELSE 0,
                    !.writes = <<>>, !.reads = IF ok THEN @ ELSE <<>>]
        /\ conns' = IF ok THEN Append(conns, NewConn([i \in
                                1..(Len(socket_.writes) - 1) |-> Garbage]))
                    ELSE conns
        /\ \A o \in Elements(ready') : o.kind = "read" /\ o.ok
                => o \in Elements(ready)
  BY ReadyEstablished
<1>2. UNCHANGED <<exchange, crossed>> /\ socket_.writes # <<>>
  BY DEF Establish, exchangeVars, Connecting
<1>3. Active' = Active
  BY <1>2 DEF Active
<1>4. ASSUME NEW x \in Active, Active = {x}, socket_'.conn # 0
      PROVE  Own(x, exchange[x], conns'[socket_'.conn].up, conns'[socket_'.conn].down)
  <2>1. socket_'.conn = IF ok THEN Len(conns) + 1 ELSE 0
    BY <1>1 DEF Inv, SocketOK, Socket
  <2>2. ok /\ socket_'.conn = Len(conns) + 1
    BY <1>4, <2>1
  <2>3. Len(socket_.writes) = 1
    BY <1>2, <1>4, ConnectAlone
  <2> DEFINE sent_ == [i \in 1..(Len(socket_.writes) - 1) |-> Garbage]
  <2>4. sent_ = <<>>
    BY <2>3
  <2>5. conns' = Append(conns, NewConn(sent_)) /\ conns \in Seq(Record)
    BY <1>1, <2>2 DEF Inv, ConnsOK
  <2> HIDE DEF sent_
  <2>6. conns'[Len(conns) + 1] = NewConn(<<>>)
    BY <2>4, <2>5
  <2> QED
    BY <2>2, <2>6 DEF NewConn, Own
<1> QED
  BY <1>1, <1>2, <1>3, <1>4, AloneKept

LEMMA ArriveAlone ==
    ASSUME Inv, OperationsOK, AloneOK, Arrive
    PROVE  AloneOK'
<1> DEFINE c == socket_.conn
           n == Head(socket_.reads)
<1>1. /\ c \in DOMAIN conns /\ conns[c] \in Record /\ c # 0
      /\ UNCHANGED <<exchange, crossed>> /\ socket_'.conn = c
  BY DEF Arrive, Inv, SocketOK, Socket, ConnsOK, exchangeVars
<1>2. Active' = Active
  BY <1>1 DEF Active
<1>3. ready \in Seq(Completion) /\ n \in Datagram
  BY DEF Arrive, Inv, ReadyOK, SocketOK, Socket
<1>4. \A s \in Seq(Completion), o \in Completion :
            Elements(Append(s, o)) = Elements(s) \cup {o}
  BY AppendElements
<1>5. \A x \in Active : x \notin crossed => Own(x, exchange[x], conns[c].up, conns[c].down)
  BY <1>1 DEF AloneOK
<1>6. CASE /\ conns[c].down # <<>>
           /\ ready' = Append(ready, Done("read", n, TRUE, Head(conns[c].down)))
           /\ conns' = [conns EXCEPT ![c].down = Tail(@)]
  <2> DEFINE op == Done("read", n, TRUE, Head(conns[c].down))
  <2>1. op \in Completion
    <3>1. Head(conns[c].down) \in Seq(Nat)
      BY <1>1, <1>6 DEF Record
    <3> QED
      BY <1>3, <3>1, DoneType, DatagramType
  <2>2. ready' = Append(ready, op) /\ op.got = Head(conns[c].down)
    BY <1>6 DEF Done
  <2> HIDE DEF op
  <2>3. Elements(Append(ready, op)) = Elements(ready) \cup {op}
    BY <1>3, <1>4, <2>1, Zenon
  <2>4. /\ conns'[c].up = conns[c].up
        /\ conns'[c].down = Tail(conns[c].down)
    BY <1>1, <1>6 DEF Record
  <2>5. ASSUME NEW x \in Active, x \notin crossed
        PROVE  /\ op.got = <<x>>
               /\ Own(x, exchange[x], conns'[c].up, conns'[c].down)
    <3>1. Own(x, exchange[x], conns[c].up, conns[c].down)
      BY <1>5, <2>5
    <3>2. conns[c].up = <<>> /\ conns[c].down = <<<<x>>>>
      BY <1>6, <3>1 DEF Own
    <3>3. Head(conns[c].down) = <<x>> /\ Tail(conns[c].down) = <<>>
      BY <3>2
    <3> QED
      BY <2>2, <2>4, <3>2, <3>3 DEF Own
  <2>6. \A o \in Elements(ready') : o \in Elements(ready) \/ o = op
    BY <2>2, <2>3
  <2> HIDE DEF c
  <2> QED
    BY <1>1, <1>2, <2>5, <2>6, AloneKept
<1>7. CASE /\ ready' = Append(ready, Done("read", n, FALSE, <<>>))
           /\ UNCHANGED conns
  <2> DEFINE op == Done("read", n, FALSE, <<>>)
  <2>1. op \in Completion /\ ~op.ok /\ ready' = Append(ready, op)
    BY <1>3, <1>7, FailedType DEF Done
  <2> HIDE DEF op
  <2>2. Elements(Append(ready, op)) = Elements(ready) \cup {op}
    BY <1>3, <1>4, <2>1, Zenon
  <2>3. \A o \in Elements(ready') : o.ok => o \in Elements(ready)
    BY <2>1, <2>2
  <2> HIDE DEF c
  <2> QED
    BY <1>1, <1>2, <1>5, <1>7, <2>3, AloneKept
<1> QED
  BY <1>6, <1>7 DEF Arrive

LEMMA MainAlone ==
    ASSUME Inv, AloneOK, StopClient \/ ExitClient
    PROVE  AloneOK'
<1>1. UNCHANGED <<exchange, crossed>>
  BY DEF StopClient, ExitClient, exchangeVars
<1>2. Active' = Active
  BY <1>1 DEF Active
<1>3. \A x \in Active : x \notin crossed /\ socket_.conn # 0 =>
        Own(x, exchange[x], conns[socket_.conn].up, conns[socket_.conn].down)
  BY DEF AloneOK
<1>4. CASE StopClient
  <2> DEFINE op == Done("datagram", 0, FALSE, <<>>)
  <2>1. /\ ready' = ready \/ ready' = Append(ready, op)
        /\ UNCHANGED <<socket_, conns>>
    BY <1>4 DEF StopClient, tcpVars
  <2>2. op \in Completion /\ ~op.ok
    <3>1. <<>> \in Seq(Nat) /\ 0 \in 0..MaxDatagrams
            /\ ~(FALSE \/ "datagram" # "datagram")
      BY MaxDatagramsAssumption
    <3>2. op \in Completion
      BY <3>1, DoneType
    <3> QED
      BY <3>2 DEF Done
  <2> HIDE DEF op
  <2>3. Elements(Append(ready, op)) = Elements(ready) \cup {op}
    BY <2>2, AppendElements DEF Inv, ReadyOK
  <2>4. \A o \in Elements(ready') : o.ok => o \in Elements(ready)
    BY <2>1, <2>2, <2>3
  <2> QED
    BY <1>1, <1>2, <1>3, <2>1, <2>4, AloneKept
<1>5. CASE ExitClient
  <2>1. ready' = ready /\ socket_'.conn = 0
    BY <1>5 DEF ExitClient
  <2> QED
    BY <1>1, <1>2, <2>1, AloneKept
<1> QED
  BY <1>4, <1>5

\* The server reads what a lone exchange has sent, and sends it back.
LEMMA OwnServed ==
    ASSUME NEW x, NEW stage, NEW up, NEW down, Own(x, stage, up, down),
           NEW k \in 1..Len(up)
    PROVE  /\ stage # "connecting"
           /\ SubSeq(up, k + 1, Len(up)) = <<>> /\ SubSeq(up, 1, k) = <<x>>
<1>1. up # <<>>
  OBVIOUS
<1>2. up = <<x>> /\ stage # "connecting"
  BY <1>1 DEF Own
<1>3. Len(<<x>>) = 1 /\ k = 1
  BY <1>2
<1>4. /\ \A s \in Seq({x}) : SubSeq(s, 2, 1) = <<>>
      /\ \A s \in Seq({x}) : Len(s) = 1 => SubSeq(s, 1, 1) = s
  OBVIOUS
<1>5. SubSeq(<<x>>, 2, 1) = <<>> /\ SubSeq(<<x>>, 1, 1) = <<x>>
  <2>1. <<x>> \in Seq({x})
    OBVIOUS
  <2> QED
    BY <1>3, <1>4, <2>1
<1> QED
  BY <1>2, <1>3, <1>5

LEMMA ServerOwn ==
    ASSUME Inv, ServerNext \/ \E b \in DOMAIN conns : Break(b),
           NEW c \in DOMAIN conns, NEW x, NEW stage,
           Own(x, stage, conns[c].up, conns[c].down)
    PROVE  Own(x, stage, conns'[c].up, conns'[c].down)
<1>1. \A d \in DOMAIN conns : conns[d] \in Record
  BY RecordType
<1>2. ASSUME conns'[c].up = conns[c].up \/ conns'[c].up = <<>>,
             \/ conns'[c].down = conns[c].down
             \/ conns'[c].up = <<>> /\ conns'[c].down = <<>>
      PROVE  Own(x, stage, conns'[c].up, conns'[c].down)
  BY <1>2 DEF Own
<1>3. ASSUME NEW b \in DOMAIN conns, conns' \in Shut(b)
      PROVE  Own(x, stage, conns'[c].up, conns'[c].down)
  <2>1. PICK d : /\ d = conns[b].down \/ d = <<>>
                 /\ conns' = [conns EXCEPT ![b].server = "closed", ![b].up = <<>>,
                                           ![b].down = d]
    BY <1>3 DEF Shut
  <2>2. CASE b = c
    <3>1. conns'[c].up = <<>> /\ conns'[c].down = d
      BY <1>1, <2>1, <2>2 DEF Record
    <3> QED
      BY <1>2, <2>1, <2>2, <3>1
  <2>3. CASE b # c
    <3>1. conns'[c] = conns[c]
      BY <2>1, <2>3
    <3> QED
      BY <3>1
  <2> QED
    BY <2>2, <2>3
<1>4. CASE RunAccept
  <2>1. conns'[c].up = conns[c].up /\ conns'[c].down = conns[c].down
    BY <1>1, <1>4 DEF RunAccept, StartSession, Record
  <2> QED
    BY <1>2, <2>1
<1>5. ASSUME NEW b \in DOMAIN conns, AcceptCompletes(b)
      PROVE  Own(x, stage, conns'[c].up, conns'[c].down)
  <2>1. conns'[c].up = conns[c].up /\ conns'[c].down = conns[c].down
    BY <1>1, <1>5 DEF AcceptCompletes, Record
  <2> QED
    BY <1>2, <2>1
<1>6. ASSUME NEW b \in DOMAIN conns, Serve(b)
      PROVE  Own(x, stage, conns'[c].up, conns'[c].down)
  <2>1. CASE conns' \in Shut(b)
    BY <1>3, <2>1
  <2>2. ASSUME NEW k \in 1..Len(conns[b].up),
               conns' = [conns EXCEPT
                            ![b].server = "answered",
                            ![b].up = SubSeq(@, k + 1, Len(@)),
                            ![b].down = IF conns[b].client
                                        THEN <<SubSeq(conns[b].up, 1, k)>>
                                        ELSE <<>>]
        PROVE  Own(x, stage, conns'[c].up, conns'[c].down)
    <3>1. CASE b = c
      <4>1. /\ conns'[c].up = SubSeq(conns[c].up, k + 1, Len(conns[c].up))
            /\ \/ conns'[c].down = <<SubSeq(conns[c].up, 1, k)>>
               \/ conns'[c].down = <<>>
        BY <1>1, <2>2, <3>1 DEF Record
      <4>2. /\ stage # "connecting"
            /\ SubSeq(conns[c].up, k + 1, Len(conns[c].up)) = <<>>
            /\ SubSeq(conns[c].up, 1, k) = <<x>>
        BY <2>2, <3>1, OwnServed
      <4> QED
        BY <4>1, <4>2 DEF Own
    <3>2. CASE b # c
      <4>1. conns'[c] = conns[c]
        BY <2>2, <3>2
      <4> QED
        BY <4>1
    <3> QED
      BY <3>1, <3>2
  <2> QED
    BY <1>6, <2>1, <2>2 DEF Serve
<1>7. ASSUME NEW b \in DOMAIN conns, Finish(b)
      PROVE  Own(x, stage, conns'[c].up, conns'[c].down)
  BY <1>3, <1>7 DEF Finish
<1>8. CASE CloseAcceptor
  <2>1. \/ conns'[c] = conns[c]
        \/ conns'[c] = [conns[c] EXCEPT !.server = "closed", !.up = <<>>]
    BY <1>8 DEF CloseAcceptor, CloseListening
  <2>2. /\ conns'[c].up = conns[c].up \/ conns'[c].up = <<>>
        /\ conns'[c].down = conns[c].down
    BY <1>1, <2>1 DEF Record
  <2> QED
    BY <1>2, <2>2
<1>9. CASE ExitServer
  <2>1. conns'[c] = [conns[c] EXCEPT !.server = "closed", !.up = <<>>]
    BY <1>9 DEF ExitServer
  <2>2. conns'[c].up = <<>> /\ conns'[c].down = conns[c].down
    BY <1>1, <2>1 DEF Record
  <2> QED
    BY <1>2, <2>2
<1>10. ASSUME NEW b \in DOMAIN conns, Break(b)
       PROVE  Own(x, stage, conns'[c].up, conns'[c].down)
  <2>1. CASE b = c
    <3>1. conns'[c].up = <<>> /\ conns'[c].down = <<>>
      BY <1>1, <1>10, <2>1 DEF Break, Record
    <3> QED
      BY <1>2, <3>1
  <2>2. CASE b # c
    <3>1. conns'[c] = conns[c]
      BY <1>10, <2>2 DEF Break
    <3> QED
      BY <3>1
  <2> QED
    BY <2>1, <2>2
<1>11. CASE NextAccept \/ StopServer
  BY <1>11 DEF NextAccept, StopServer, tcpVars
<1> QED
  BY <1>4, <1>5, <1>6, <1>7, <1>8, <1>9, <1>10, <1>11
     DEF ServerNext, ServerHandlers

LEMMA BeyondAlone ==
    ASSUME Inv, AloneOK, ServerNext \/ \E b \in DOMAIN conns : Break(b), Beyond
    PROVE  AloneOK'
<1>1. UNCHANGED <<ready, socket_, exchange, crossed>>
  BY DEF Beyond, forwarderVars
<1>2. Active' = Active
  BY <1>1 DEF Active
<1>3. socket_.conn # 0 => socket_.conn \in DOMAIN conns
  BY DEF Inv, SocketOK, Socket, ConnsOK
<1>4. \A x \in Active : x \notin crossed /\ socket_.conn # 0 =>
        Own(x, exchange[x], conns[socket_.conn].up, conns[socket_.conn].down)
  BY DEF AloneOK
<1>5. \A x \in Active : x \notin crossed /\ socket_.conn # 0 =>
        Own(x, exchange[x], conns'[socket_.conn].up, conns'[socket_.conn].down)
  BY <1>3, <1>4, ServerOwn
<1> QED
  BY <1>1, <1>2, <1>5, AloneKept

LEMMA AloneStep == Inv /\ OperationsOK /\ AloneOK /\ [Next]_vars => AloneOK'
<1> SUFFICES ASSUME Inv, OperationsOK, AloneOK, [Next]_vars PROVE AloneOK'
  OBVIOUS
<1>1. CASE Client
  BY <1>1, HandlerAlone, ReceiveAlone, EstablishAlone, ArriveAlone DEF Client
<1>2. CASE StopClient \/ ExitClient
  BY <1>2, MainAlone
<1>3. CASE /\ ServerNext \/ \E c \in DOMAIN conns : Break(c)
           /\ Beyond
  BY <1>3, BeyondAlone
<1>4. CASE Send \/ StopSimulator \/ UNCHANGED vars
  <2>1. UNCHANGED <<conns, ready, socket_, exchange, crossed>>
    BY <1>4 DEF Send, StopSimulator, vars, tcpVars, forwarderVars, exchangeVars
  <2>2. Active' = Active
    BY <2>1 DEF Active
  <2> QED
    BY <2>1, <2>2 DEF AloneOK
<1> QED
  BY <1>1, <1>2, <1>3, <1>4 DEF Next, Beyond

LEMMA AnswersStep ==
    Inv /\ OperationsOK /\ AloneOK /\ AnswersOK /\ [Next]_vars => AnswersOK'
<1> SUFFICES ASSUME Inv, OperationsOK, AloneOK, AnswersOK, [Next]_vars
             PROVE  AnswersOK'
  OBVIOUS
<1> DEFINE x == Head(ready).x
<1>1. DOMAIN exchange = Datagram /\ DOMAIN answer = Datagram
  BY DEF Inv, ExchangeOK, AnswersOK
<1>2. ASSUME answer' = answer,
             \A y \in Datagram : exchange'[y] = "answered" => exchange[y] = "answered",
             crossed \subseteq crossed'
      PROVE  AnswersOK'
  BY <1>2 DEF AnswersOK, AnswerIsMine
<1>3. ASSUME NEW y, NEW stage \in {"connecting", "writing", "reading", "failed"},
             exchange' = [exchange EXCEPT ![y] = stage],
             answer' = answer, crossed \subseteq crossed'
      PROVE  AnswersOK'
  <2>1. \A z \in Datagram : exchange'[z] = "answered" => exchange[z] = "answered"
    BY <1>1, <1>3
  <2> QED
    BY <1>2, <1>3, <2>1
<1>4. CASE RunDatagram
  <2>1. crossed \subseteq crossed'
    BY <1>4 DEF RunDatagram, TakeDatagram, exchangeVars
  <2>2. CASE ConnectTo(1, x)
    BY <1>3, <2>1, <2>2 DEF ConnectTo
  <2>3. CASE UNCHANGED exchangeVars
    BY <1>2, <2>1, <2>3 DEF exchangeVars
  <2> QED
    BY <1>4, <2>2, <2>3 DEF RunDatagram, TakeDatagram
<1>5. CASE RunConnect
  BY <1>3, <1>5 DEF RunConnect, doWrite, Write, ConnectTo, Fail
<1>6. CASE RunWrite
  BY <1>3, <1>6 DEF RunWrite, Fail
<1>7. CASE RunRead
  <2>1. CASE Fail(x)
    BY <1>3, <1>7, <2>1 DEF RunRead, Fail
  <2>2. CASE /\ Head(ready).ok
             /\ exchange' = [exchange EXCEPT ![x] = "answered"]
             /\ answer' = [answer EXCEPT ![x] = Head(ready).got]
    <3>1. /\ ready # <<>> /\ Head(ready).kind = "read" /\ crossed' = crossed
          /\ x \in Active
      BY <1>7, HeadActive DEF RunRead, Running
    <3>2. x \notin crossed => Head(ready).got = <<x>>
      <4>1. Head(ready) \in Elements(ready)
        BY <3>1, HeadOperation, Zenon
      <4> QED
        BY <2>2, <3>1, <4>1 DEF AloneOK
    <3>3. /\ answer'[x] = Head(ready).got
          /\ \A y \in Datagram : y # x =>
                answer'[y] = answer[y] /\ exchange'[y] = exchange[y]
      BY <1>1, <2>2, <3>1 DEF Active
    <3>4. DOMAIN answer' = Datagram
      BY <1>1, <2>2
    <3> HIDE DEF x
    <3>5. AnswerIsMine'
      BY <3>1, <3>2, <3>3 DEF AnswersOK, AnswerIsMine
    <3> QED
      BY <3>4, <3>5 DEF AnswersOK
  <2> QED
    BY <1>7, <2>1, <2>2 DEF RunRead
<1>8. CASE \/ Send \/ StopSimulator \/ Receive \/ Establish \/ Arrive
           \/ StopClient \/ ExitClient \/ Beyond \/ UNCHANGED vars
  <2>1. UNCHANGED <<exchange, answer, crossed>>
    BY <1>8 DEF Send, StopSimulator, Receive, Establish, Arrive, StopClient,
       ExitClient, Beyond, vars, forwarderVars, exchangeVars
  <2> QED
    BY <1>2, <2>1
<1> QED
  BY <1>4, <1>5, <1>6, <1>7, <1>8 DEF Next, Client, Handlers, Beyond

LEMMA AnswerInit == Init => AnswerInv
<1> SUFFICES ASSUME Init PROVE AnswerInv
  OBVIOUS
<1>1. /\ ready = <<>> /\ inbox = <<>>
      /\ socket_.writes = <<>> /\ socket_.reads = <<>>
      /\ answer = [x \in Datagram |-> <<>>]
      /\ exchange = [x \in Datagram |-> "none"]
  BY DEF Init, ForwarderInit
<1>2. Keys(ready) = {} /\ Queued = {}
  BY <1>1, NoElement DEF Keys, Queued, Tagged
<1>3. OperationsOK
  BY <1>1, <1>2, NoElement DEF OperationsOK, StagesOK
<1>4. Active = {}
  BY <1>1 DEF Active
<1>5. AloneOK
  BY <1>4 DEF AloneOK
<1>6. AnswersOK
  BY <1>1 DEF AnswersOK, AnswerIsMine
<1> QED
  BY <1>3, <1>5, <1>6, InvInit DEF AnswerInv

LEMMA AnswerStep == AnswerInv /\ [Next]_vars => AnswerInv'
  BY InvStep, OperationsStep, AloneStep, AnswersStep DEF AnswerInv

\* Whatever became of the exchanges before it, an exchange that no other
\* overlapped prints the reply to its own datagram, and all of it.
THEOREM AnswerIsMineCorrect == Spec => []AnswerIsMine
<1>1. AnswerInv => AnswerIsMine
  BY DEF AnswerInv, AnswersOK
<1> QED
  BY <1>1, AnswerInit, AnswerStep, PTL DEF Spec
=============================================================================
