--------------------------- MODULE LongConnection ---------------------------
(***************************************************************************)
(* The ClientThread of longCon: one socket kept open from message to       *)
(* message, closed and connected again when a message is for another       *)
(* server, after any error, and after 30 seconds without traffic.          *)
(*                                                                         *)
(* A handler already completed when its socket is closed keeps its result  *)
(* and runs all the same, on whatever socket_ has become.  The buffer of a *)
(* write lives as long as the handler that starts it, no longer: what a    *)
(* write queued behind a connect puts on the wire is anybody's guess.      *)
(***************************************************************************)
EXTENDS Naturals, Sequences

CONSTANTS
    Server,         \* "host:port"
    NoServer,       \* current_server_host_ before the first message
    MaxMessages     \* bound on the messages sent

VARIABLES
    is_running_, is_connected_,
    current,        \* current_server_host_ and current_server_port_
    socket_,        \* open or not, connected or not, to which server, the
                    \* connect and the writes queued on it, how many reads
    inactivity_timer_,  \* its wait is pending
    ready,          \* handlers ready to run
    server,         \* the server each message sent is for
    written         \* history: the messages written, on a socket to where

flagVars == <<is_running_, is_connected_, current>>
vars == <<flagVars, socket_, inactivity_timer_, ready, server, written>>

Handler(kind, m, ok) == [kind |-> kind, m |-> m, ok |-> ok]

ClosedSocket == [open |-> FALSE, up |-> FALSE, to |-> NoServer,
                 writes |-> <<>>, reads |-> 0]

Init ==
    /\ is_running_ = TRUE /\ is_connected_ = FALSE /\ current = NoServer
    /\ socket_ = ClosedSocket
    /\ inactivity_timer_ = FALSE
    /\ ready = <<>> /\ server = <<>> /\ written = {}

Fails(reads, ops) ==
    [i \in 1..reads |-> Handler("read", 0, FALSE)]
    \o [i \in DOMAIN ops |-> Handler(ops[i].kind, ops[i].m, FALSE)]

\* socket_.close() in a handler: what is queued on it is aborted.
Close(next) ==
    /\ socket_' = next
    /\ ready' = Tail(ready) \o Fails(socket_.reads, socket_.writes)

handleDisconnect ==
    /\ is_connected_' = FALSE
    /\ Close(ClosedSocket)
    /\ UNCHANGED <<inactivity_timer_, current, written>>

Connecting == socket_.open /\ ~socket_.up /\ socket_.writes # <<>>

\* Sent at once when connected, queued behind a connect, failed otherwise.
doWrite(m) ==
    /\ written' = IF socket_.open THEN written \cup {<<m, socket_.to>>}
                  ELSE written
    /\ IF Connecting
       THEN /\ socket_' = [socket_ EXCEPT
                            !.writes = Append(@, Handler("write", m, TRUE))]
            /\ ready' = Tail(ready)
       ELSE /\ ready' = Append(Tail(ready), Handler("write", m, socket_.up))
            /\ UNCHANGED socket_

doRead ==
    IF Connecting \/ socket_.up
    THEN socket_' = [socket_ EXCEPT !.reads = @ + 1] /\ ready' = Tail(ready)
    ELSE ready' = Append(Tail(ready), Handler("read", 0, FALSE))
         /\ UNCHANGED socket_

-----------------------------------------------------------------------------
(* Any thread calls sendMessage and stop.                                  *)

sendMessage(s) ==
    /\ Len(server) < MaxMessages
    /\ server' = Append(server, s)
    /\ ready' = Append(ready, Handler("send", Len(server) + 1, TRUE))
    /\ UNCHANGED <<flagVars, socket_, inactivity_timer_, written>>

\* stop may come again: the destructor calls it too.
stop ==
    /\ is_running_' = FALSE
    /\ \/ /\ socket_.open
          /\ socket_' = ClosedSocket
          /\ ready' = ready \o Fails(socket_.reads, socket_.writes)
       \/ ~socket_.open /\ UNCHANGED <<socket_, ready>>
    /\ UNCHANGED <<is_connected_, current, inactivity_timer_, server, written>>

-----------------------------------------------------------------------------
(* The handlers.                                                           *)

Runs(kind) == ready # <<>> /\ Head(ready).kind = kind

\* The handler posted by sendMessage, with doConnect.
RunSend ==
    /\ Runs("send")
    /\ LET m == Head(ready).m
       IN  IF ~is_connected_ \/ current # server[m]
           THEN /\ current' = server[m]
                /\ is_connected_' = FALSE
                /\ Close([open |-> TRUE, up |-> FALSE, to |-> server[m],
                          writes |-> <<Handler("connect", m, TRUE)>>,
                          reads |-> 0])
                /\ UNCHANGED written
           ELSE doWrite(m) /\ UNCHANGED <<current, is_connected_>>
    /\ UNCHANGED <<is_running_, inactivity_timer_, server>>

RunConnect ==
    /\ Runs("connect")
    /\ is_connected_' = Head(ready).ok
    /\ IF Head(ready).ok
       THEN doWrite(Head(ready).m) /\ inactivity_timer_' = TRUE
       ELSE /\ ready' = Tail(ready)
            /\ UNCHANGED <<socket_, inactivity_timer_, written>>
    /\ UNCHANGED <<is_running_, current, server>>

\* The handlers of doWrite and doRead: the timer is started anew and a read
\* started, or the connection given up.
RunTransfer ==
    /\ Runs("write") \/ Runs("read")
    /\ IF Head(ready).ok
       THEN /\ inactivity_timer_' = TRUE
            /\ doRead
            /\ UNCHANGED <<is_connected_, current, written>>
       ELSE handleDisconnect
    /\ UNCHANGED <<is_running_, server>>

\* The handler of the timer; cancel() no longer reaches it here.
RunTimer ==
    /\ Runs("timer")
    /\ handleDisconnect
    /\ UNCHANGED <<is_running_, server>>

-----------------------------------------------------------------------------
(* What the reactor sees.                                                  *)

Establish ==
    /\ Connecting
    /\ \E ok \in BOOLEAN :
          /\ socket_' = [socket_ EXCEPT !.up = ok, !.writes = <<>>,
                                        !.reads = IF ok THEN @ ELSE 0]
          /\ ready' = ready \o
                (IF ok THEN socket_.writes
                 ELSE Fails(0, socket_.writes) \o Fails(socket_.reads, <<>>))
    /\ UNCHANGED <<flagVars, inactivity_timer_, server, written>>

\* Something comes for the first read, or the peer goes, reads or no reads.
Arrive ==
    /\ socket_.up
    /\ \/ /\ socket_.reads > 0
          /\ socket_' = [socket_ EXCEPT !.reads = @ - 1]
          /\ ready' = Append(ready, Handler("read", 0, TRUE))
       \/ /\ socket_' = [socket_ EXCEPT !.reads = 0, !.up = FALSE]
          /\ ready' = ready \o Fails(socket_.reads, <<>>)
    /\ UNCHANGED <<flagVars, inactivity_timer_, server, written>>

Expire ==
    /\ inactivity_timer_ /\ inactivity_timer_' = FALSE
    /\ ready' = Append(ready, Handler("timer", 0, TRUE))
    /\ UNCHANGED <<flagVars, socket_, server, written>>

Next ==
    \/ \E s \in Server : sendMessage(s)
    \/ stop
    \/ RunSend \/ RunConnect \/ RunTransfer \/ RunTimer
    \/ Establish \/ Arrive \/ Expire

Spec == Init /\ [][Next]_vars

-----------------------------------------------------------------------------
\* A message is written on a connection to the server it is for ("if already
\* connected to the right server, send the message directly").
RightServer == \A w \in written : w[2] = server[w[1]]
=============================================================================
