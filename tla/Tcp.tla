-------------------------------- MODULE Tcp --------------------------------
(***************************************************************************)
(* The TCP connections between a client program and the server program of  *)
(* v2.0Server.cc, as their kernels keep them.                              *)
(***************************************************************************)
EXTENDS Naturals, Sequences

VARIABLES
    conns,          \* every connection established: whether the client has
                    \* it open, where the server is with it, and what is
                    \* under way to the server (up) and the client (down)
    listening,      \* the server's acceptor is open
    broken          \* history: the network has failed

tcpVars == <<conns, listening, broken>>

ServerSide == {"backlog", "accepted", "reading", "answered", "closed"}

TcpInit ==
    /\ conns = <<>>
    /\ listening = TRUE
    /\ broken = FALSE

\* A connection just established, with what its client sent at once.
NewConn(sent) ==
    [client |-> TRUE, server |-> "backlog", up |-> sent, down |-> <<>>]

\* The client closes connection c, if there is one.
HangUp(c) ==
    [i \in DOMAIN conns |->
        IF i = c THEN [conns[i] EXCEPT !.client = FALSE, !.down = <<>>]
                 ELSE conns[i]]

\* The server's side is closed: what had not been read is lost, and the reset
\* this causes may overtake the reply.
Shut(c) ==
    {[conns EXCEPT ![c].server = "closed", ![c].up = <<>>, ![c].down = d] :
        d \in {conns[c].down} \cup (IF conns[c].up = <<>> THEN {} ELSE {<<>>})}

\* The network loses a connection.
Break(c) ==
    /\ conns[c].server # "closed"
    /\ conns' = [conns EXCEPT ![c].server = "closed", ![c].up = <<>>,
                              ![c].down = <<>>]
    /\ broken' = TRUE
    /\ UNCHANGED listening
=============================================================================
