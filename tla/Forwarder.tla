------------------------------ MODULE Forwarder ------------------------------
(***************************************************************************)
(* The client of v3.0Client.cc: every datagram received on its UDP socket  *)
(* starts an exchange with the TCP server: connect, write, read, close.    *)
(* All exchanges share ONE socket_ and none waits for the one before, so a *)
(* datagram that arrives meanwhile closes the socket under the exchange in *)
(* progress, whose handlers then act on the socket of the other.           *)
(*                                                                         *)
(* One thread runs the handlers, in the order in which their operations    *)
(* completed (ready).  asio::async_connect on a range of endpoints closes  *)
(* and reopens the socket before each attempt, and on an error, an abort   *)
(* included, takes the next endpoint.  The operations of a socket wait in  *)
(* two queues of the reactor: the connect and what is written behind it,   *)
(* and the reads.  doWrite hands asio a buffer inside a string that dies   *)
(* as soon as it returns: what is not sent at once is sent as Garbage.     *)
(***************************************************************************)
EXTENDS Tcp

CONSTANT MaxDatagrams       \* bound on the datagrams of the simulator

ASSUME MaxDatagramsAssumption == MaxDatagrams \in Nat

VARIABLES
    client_running,     \* Client::is_running_
    halted,             \* io_context.stop() has been called
    receiving,          \* the asynchronous receive of udp_socket_ waits
    inbox,              \* datagrams in the buffer of udp_socket_
    socket_,            \* open or not, its connection, its queued operations
    ready,              \* completed operations whose handlers have not run
    attempt,            \* the endpoint a connecting exchange is at
    exchange,           \* how far the exchange of each datagram is
    answer,             \* what doRead printed
    crossed             \* history: the exchanges that overlapped another

forwarderVars == <<client_running, halted, receiving, inbox, socket_, ready,
                   attempt, exchange, answer, crossed>>
exchangeVars == <<attempt, exchange, answer, crossed>>

Datagram == 1..MaxDatagrams
Garbage == 0

\* localhost resolves to two addresses; the server's acceptor is open on one.
tcp_endpoints_ == <<"v6", "v4">>
Accepts(e) == e = "v4" /\ listening

\* A connect is under way: it heads the write queue.
Connecting == socket_.open /\ socket_.conn = 0 /\ socket_.writes # <<>>

Active == {x \in Datagram :
              exchange[x] \in {"connecting", "writing", "reading"}}

ClosedSocket == [open |-> FALSE, conn |-> 0, writes |-> <<>>, reads |-> <<>>]

Done(kind, x, ok, got) == [kind |-> kind, x |-> x, ok |-> ok, got |-> got]

ForwarderInit ==
    /\ client_running = TRUE
    /\ halted = FALSE
    /\ receiving = TRUE
    /\ inbox = <<>>
    /\ socket_ = ClosedSocket
    /\ ready = <<>>
    /\ attempt = [x \in Datagram |-> 0]
    /\ exchange = [x \in Datagram |-> "none"]
    /\ answer = [x \in Datagram |-> <<>>]
    /\ crossed = {}

\* The completions of the operations a close aborts: reads, then writes.
Aborted == [i \in DOMAIN socket_.reads |->
                Done("read", socket_.reads[i], FALSE, <<>>)]
           \o [i \in DOMAIN socket_.writes |->
                Done(socket_.writes[i].kind, socket_.writes[i].x, FALSE, <<>>)]

-----------------------------------------------------------------------------
(* The handlers, run by the io thread.                                     *)

Running(kind) ==
    /\ ~halted
    /\ ready # <<>>
    /\ Head(ready).kind = kind

\* The connections once socket_ is closed.
Closed == HangUp(socket_.conn)

\* socket_.close() and an asynchronous connect to the n-th endpoint.
ConnectTo(n, x) ==
    /\ socket_' = [open |-> TRUE, conn |-> 0, reads |-> <<>>,
                   writes |-> <<[kind |-> "connect", x |-> x]>>]
    /\ ready' = Tail(ready) \o Aborted
    /\ conns' = Closed
    /\ attempt' = [attempt EXCEPT ![x] = n]
    /\ exchange' = [exchange EXCEPT ![x] = "connecting"]
    /\ UNCHANGED <<listening, broken, answer>>

Fail(x) ==
    /\ exchange' = [exchange EXCEPT ![x] = "failed"]
    /\ ready' = Tail(ready)
    /\ UNCHANGED <<tcpVars, socket_, attempt, answer>>

\* The handler of startUdpReceive without its last statement.
TakeDatagram ==
    /\ Running("datagram")
    /\ LET x == Head(ready).x
       IN  \/ /\ Head(ready).ok
              /\ ConnectTo(1, x)
              /\ crossed' = IF Active = {} THEN crossed
                            ELSE crossed \cup Active \cup {x}
           \/ /\ ~Head(ready).ok
              /\ ready' = Tail(ready)
              /\ UNCHANGED <<tcpVars, socket_, exchangeVars>>
    /\ UNCHANGED <<client_running, halted, inbox>>

\* Mutant: the receive is not started again.
RunDatagram_Once == TakeDatagram /\ receiving' = FALSE

\* The handler of startUdpReceive, with onMessage.
RunDatagram == TakeDatagram /\ receiving' = client_running

\* A write of x started by its exchange: sent at once on a connected socket,
\* behind the connect on one that is connecting, an error on one closed,
\* refused, or whose peer has gone.
Write(x, content) ==
    /\ exchange' = [exchange EXCEPT ![x] = "writing"]
    /\ \/ /\ Connecting
          /\ socket_' = [socket_ EXCEPT !.writes =
                            Append(@, [kind |-> "write", x |-> x])]
          /\ ready' = Tail(ready)
          /\ UNCHANGED conns
       \/ /\ socket_.conn # 0
          /\ conns' = IF conns[socket_.conn].server = "closed" THEN conns
                      ELSE [conns EXCEPT ![socket_.conn].up =
                                Append(@, content)]
          /\ ready' = Append(Tail(ready), Done("write", x, TRUE, <<>>))
          /\ UNCHANGED socket_
       \/ /\ \/ socket_.conn = 0 /\ ~Connecting
             \/ socket_.conn # 0 /\ conns[socket_.conn].server = "closed"
          /\ ready' = Append(Tail(ready), Done("write", x, FALSE, <<>>))
          /\ UNCHANGED <<conns, socket_>>
    /\ UNCHANGED <<attempt, answer, listening, broken>>

\* Mutant: the string is gone before anything is sent.
doWrite_Late(x) == Write(x, Garbage)

doWrite(x) == Write(x, x)

\* Another endpoint is left to try.
Another(x) == attempt[x] < Len(tcp_endpoints_)

\* The handler of async_connect; a socket found closed counts as an abort.
RunConnect ==
    /\ Running("connect")
    /\ LET x == Head(ready).x
       IN  \/ socket_.open /\ Head(ready).ok /\ doWrite(x)
           \/ /\ socket_.open /\ ~Head(ready).ok /\ Another(x)
              /\ ConnectTo(attempt[x] + 1, x)
           \/ /\ socket_.open => ~Head(ready).ok /\ ~Another(x)
              /\ Fail(x)
    /\ UNCHANGED <<client_running, halted, receiving, inbox, crossed>>

\* The handler of doWrite, with doRead: on a socket neither connected nor
\* connecting the read fails at once.
RunWrite ==
    /\ Running("write")
    /\ LET x == Head(ready).x
       IN  \/ /\ Head(ready).ok
              /\ exchange' = [exchange EXCEPT ![x] = "reading"]
              /\ IF Connecting \/ socket_.conn # 0
                 THEN /\ socket_' = [socket_ EXCEPT !.reads = Append(@, x)]
                      /\ ready' = Tail(ready)
                 ELSE /\ ready' = Append(Tail(ready),
                                         Done("read", x, FALSE, <<>>))
                      /\ UNCHANGED socket_
              /\ UNCHANGED <<tcpVars, attempt, answer>>
           \/ ~Head(ready).ok /\ Fail(x)
    /\ UNCHANGED <<client_running, halted, receiving, inbox, crossed>>

\* The handler of doRead: the reply is printed and the socket closed.
RunRead ==
    /\ Running("read")
    /\ LET x == Head(ready).x
       IN  \/ /\ Head(ready).ok
              /\ exchange' = [exchange EXCEPT ![x] = "answered"]
              /\ answer' = [answer EXCEPT ![x] = Head(ready).got]
              /\ socket_' = ClosedSocket
              /\ ready' = Tail(ready) \o Aborted
              /\ conns' = Closed
              /\ UNCHANGED <<listening, broken, attempt>>
           \/ ~Head(ready).ok /\ Fail(x)
    /\ UNCHANGED <<client_running, halted, receiving, inbox, crossed>>

Handlers == RunDatagram \/ RunConnect \/ RunWrite \/ RunRead

-----------------------------------------------------------------------------
(* The sockets.                                                            *)

\* A datagram is received.
Receive ==
    /\ receiving /\ inbox # <<>>
    /\ receiving' = FALSE
    /\ inbox' = Tail(inbox)
    /\ ready' = Append(ready, Done("datagram", Head(inbox), TRUE, <<>>))
    /\ UNCHANGED <<tcpVars, client_running, halted, socket_, exchangeVars>>

\* The connect under way ends, and what was queued behind it is sent, as
\* Garbage; when it is refused, everything queued fails with it.
Establish ==
    /\ Connecting
    /\ LET ok == Accepts(tcp_endpoints_[attempt[Head(socket_.writes).x]])
       IN  /\ conns' = IF ok
                       THEN Append(conns, NewConn([i \in
                                1..(Len(socket_.writes) - 1) |-> Garbage]))
                       ELSE conns
           /\ socket_' = [socket_ EXCEPT
                !.conn = IF ok THEN Len(conns) + 1 ELSE 0,
                !.writes = <<>>, !.reads = IF ok THEN @ ELSE <<>>]
           /\ ready' = ready \o
                [i \in DOMAIN socket_.writes |->
                    Done(socket_.writes[i].kind, socket_.writes[i].x, ok, <<>>)]
                \o (IF ok THEN <<>>
                    ELSE [i \in DOMAIN socket_.reads |->
                            Done("read", socket_.reads[i], FALSE, <<>>)])
    /\ UNCHANGED <<listening, broken, client_running, halted, receiving,
                   inbox, exchangeVars>>

\* The first read gets what the server has sent, or the end of the stream.
Arrive ==
    /\ socket_.conn # 0 /\ socket_.reads # <<>>
    /\ LET c == socket_.conn
       IN  \/ /\ conns[c].down # <<>>
              /\ ready' = Append(ready, Done("read", Head(socket_.reads), TRUE,
                                             Head(conns[c].down)))
              /\ conns' = [conns EXCEPT ![c].down = Tail(@)]
           \/ /\ conns[c].down = <<>> /\ conns[c].server = "closed"
              /\ ready' = Append(ready, Done("read", Head(socket_.reads),
                                             FALSE, <<>>))
              /\ UNCHANGED conns
    /\ socket_' = [socket_ EXCEPT !.reads = Tail(@)]
    /\ UNCHANGED <<listening, broken, client_running, halted, receiving,
                   inbox, exchangeVars>>

-----------------------------------------------------------------------------
(* main, on its own thread.                                                *)

\* Client::stop, both statements: a receive the handler starts between its test
\* of the flag and the close ends as one that waited, and a datagram received
\* before the close is handled either way.
StopClient ==
    /\ client_running
    /\ client_running' = FALSE
    /\ receiving' = FALSE
    /\ inbox' = <<>>
    /\ ready' = IF receiving
                THEN Append(ready, Done("datagram", 0, FALSE, <<>>)) ELSE ready
    /\ UNCHANGED <<tcpVars, halted, socket_, exchangeVars>>

\* The context is stopped, the thread joined, the sockets destroyed.
ExitClient ==
    /\ ~client_running /\ ~halted
    /\ halted' = TRUE
    /\ socket_' = ClosedSocket
    /\ conns' = Closed
    /\ UNCHANGED <<listening, broken, client_running, receiving, inbox, ready,
                   exchangeVars>>
=============================================================================
