---------------------------- MODULE SessionServer ----------------------------
(***************************************************************************)
(* The server of v2.0Server.cc: an accept loop, and a session for each     *)
(* connection that reads once, answers with what it has read, and closes.  *)
(* Four threads run the handlers; those of one session follow one another, *)
(* and so do those of the acceptor, so a handler is one action, but for    *)
(* that of the accept: between its test of the flag and the next accept,   *)
(* main may come with either statement of stop(), from its own thread.     *)
(* acceptor_ is then used by two threads without a lock; one of them is    *)
(* taken to come first.                                                    *)
(***************************************************************************)
EXTENDS Tcp

VARIABLES
    is_running_,    \* Server::is_running_
    accept,         \* the asynchronous accept: waiting, completed (its handler
                    \* is ready), aborted (likewise), about to be started
                    \* again by a handler that found the flag set, or ended
    exited          \* the threads are joined, the sessions destroyed

serverVars == <<is_running_, accept, exited>>

ServerInit ==
    /\ is_running_ = TRUE
    /\ accept = "waiting"
    /\ exited = FALSE

\* The acceptor takes the oldest connection of the backlog.
AcceptCompletes(c) ==
    /\ accept = "waiting"
    /\ conns[c].server = "backlog"
    /\ \A b \in 1..(c - 1) : conns[b].server # "backlog"
    /\ conns' = [conns EXCEPT ![c].server = "accepted"]
    /\ accept' = "completed"
    /\ UNCHANGED <<is_running_, exited, listening, broken>>

\* The session accepted starts to read, if there is one.
StartSession ==
    /\ ~exited /\ accept \in {"completed", "aborted"}
    /\ conns' = [c \in DOMAIN conns |->
                    IF conns[c].server = "accepted"
                    THEN [conns[c] EXCEPT !.server = "reading"] ELSE conns[c]]
    /\ UNCHANGED <<is_running_, exited, listening, broken>>

\* Mutant: the next accept is not started.
RunAccept_Once == StartSession /\ accept' = "ended"

\* Mutant: the flag is not tested.
RunAccept_Always == StartSession /\ accept' = "restarting"

\* The handler of doAccept, up to its test of the flag.
RunAccept ==
    /\ StartSession
    /\ accept' = IF is_running_ THEN "restarting" ELSE "ended"

\* The rest of it: the next accept, which fails at once on a closed acceptor.
NextAccept ==
    /\ accept = "restarting"
    /\ accept' = IF listening THEN "waiting" ELSE "aborted"
    /\ UNCHANGED <<tcpVars, is_running_, exited>>

\* Session::doRead and doWrite: some of what has come is read, and answered; or
\* the client has closed, and the session ends.
Serve(c) ==
    /\ ~exited /\ conns[c].server = "reading"
    /\ \/ \E k \in 1..Len(conns[c].up) :
             conns' = [conns EXCEPT
                         ![c].server = "answered",
                         ![c].up = SubSeq(@, k + 1, Len(@)),
                         ![c].down = IF conns[c].client
                                     THEN <<SubSeq(conns[c].up, 1, k)>>
                                     ELSE <<>>]
       \/ /\ conns[c].up = <<>> /\ ~conns[c].client
          /\ conns' \in Shut(c)
    /\ UNCHANGED <<serverVars, listening, broken>>

\* The handler of doWrite closes the socket.
Finish(c) ==
    /\ ~exited /\ conns[c].server = "answered"
    /\ conns' \in Shut(c)
    /\ UNCHANGED <<serverVars, listening, broken>>

\* Server::stop, called by main: the flag is cleared.
StopServer ==
    /\ is_running_
    /\ is_running_' = FALSE
    /\ UNCHANGED <<tcpVars, accept, exited>>

\* acceptor_.close(): an accept that waits is aborted, and the connections of
\* the backlog are reset.
CloseListening ==
    /\ listening
    /\ listening' = FALSE
    /\ accept' = IF accept = "waiting" THEN "aborted" ELSE accept
    /\ conns' = [c \in DOMAIN conns |->
                    IF conns[c].server = "backlog"
                    THEN [conns[c] EXCEPT !.server = "closed", !.up = <<>>]
                    ELSE conns[c]]
    /\ UNCHANGED <<is_running_, exited, broken>>

\* Mutant: the acceptor is closed first, the flag cleared afterwards.
CloseAcceptor_First == CloseListening

\* Mutant: the acceptor is left open.
CloseAcceptor_Never == FALSE /\ CloseListening

\* The second statement of stop().
CloseAcceptor == ~is_running_ /\ CloseListening

\* main stops the context and joins the threads, once the handlers they are in
\* are over; what is left is destroyed.
ExitServer ==
    /\ ~listening /\ ~is_running_ /\ ~exited
    /\ accept # "restarting"
    /\ exited' = TRUE
    /\ conns' = [c \in DOMAIN conns |->
                    [conns[c] EXCEPT !.server = "closed", !.up = <<>>]]
    /\ UNCHANGED <<is_running_, accept, listening, broken>>

ServerHandlers ==
    \/ RunAccept \/ NextAccept
    \/ \E c \in DOMAIN conns : AcceptCompletes(c) \/ Serve(c) \/ Finish(c)

ServerNext == ServerHandlers \/ StopServer \/ CloseAcceptor \/ ExitServer
=============================================================================
