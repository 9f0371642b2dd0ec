----------------------------- MODULE Forwarding -----------------------------
(***************************************************************************)
(* The chain of three programs: the UDP simulator of v1.0udpClient.cc, the *)
(* client of v3.0Client.cc that forwards each datagram over TCP, and the   *)
(* server of v2.0Server.cc that answers it.  Each main stops its own       *)
(* program whenever it likes, and the network may lose a connection.       *)
(***************************************************************************)
EXTENDS Forwarder, SessionServer

VARIABLES
    simulating,     \* the flag running of the simulator
    sent            \* how many datagrams it has sent

vars == <<tcpVars, forwarderVars, serverVars, simulating, sent>>

Init ==
    /\ TcpInit
    /\ ForwarderInit
    /\ ServerInit
    /\ simulating = TRUE
    /\ sent = 0

\* A thread of the simulator sends a datagram, which udp_socket_ keeps while it
\* is open and has room.
Send ==
    /\ simulating
    /\ sent < MaxDatagrams
    /\ sent' = sent + 1
    /\ inbox' \in {inbox} \cup
                  (IF client_running THEN {Append(inbox, sent + 1)} ELSE {})
    /\ UNCHANGED <<tcpVars, serverVars, client_running, halted, receiving,
                   socket_, ready, exchangeVars, simulating>>

StopSimulator ==
    /\ simulating
    /\ simulating' = FALSE
    /\ UNCHANGED <<tcpVars, forwarderVars, serverVars, sent>>

Client == Handlers \/ Receive \/ Establish \/ Arrive

Next ==
    \/ Send \/ StopSimulator
    \/ (Client \/ StopClient \/ ExitClient)
       /\ UNCHANGED <<serverVars, simulating, sent>>
    \/ (ServerNext \/ \E c \in DOMAIN conns : Break(c) /\ UNCHANGED serverVars)
       /\ UNCHANGED <<forwarderVars, simulating, sent>>

Spec == Init /\ [][Next]_vars

Fairness ==
    /\ WF_vars(Handlers /\ UNCHANGED <<serverVars, simulating, sent>>)
    /\ WF_vars(Receive /\ UNCHANGED <<serverVars, simulating, sent>>)
    /\ WF_vars(Establish /\ UNCHANGED <<serverVars, simulating, sent>>)
    /\ WF_vars(Arrive /\ UNCHANGED <<serverVars, simulating, sent>>)
    /\ WF_vars(ServerHandlers /\ UNCHANGED <<forwarderVars, simulating, sent>>)
    /\ WF_vars(CloseAcceptor /\ UNCHANGED <<forwarderVars, simulating, sent>>)

FairSpec == Spec /\ Fairness

-----------------------------------------------------------------------------
\* Every variable has its type; no attempt goes past the resolved endpoints; the
\* acceptor is open as long as the flag of its class is set, and an accept waits
\* on an open acceptor only.
TypeOK ==
    /\ client_running \in BOOLEAN /\ halted \in BOOLEAN
    /\ receiving \in BOOLEAN
    /\ attempt \in [Datagram -> 0..Len(tcp_endpoints_)]
    /\ exchange \in [Datagram -> {"none", "connecting", "writing", "reading",
                                  "answered", "failed"}]
    /\ socket_.conn \in 0..Len(conns)
    /\ \A c \in DOMAIN conns : conns[c].server \in ServerSide
    /\ sent \in 0..MaxDatagrams
    /\ accept \in {"waiting", "completed", "aborted", "restarting", "ended"}
    /\ is_running_ \in BOOLEAN /\ listening \in BOOLEAN /\ exited \in BOOLEAN
    /\ is_running_ => listening /\ accept # "ended"
    /\ accept = "waiting" => listening
    /\ exited => ~listening /\ accept # "restarting"

\* The reply printed for a datagram whose exchange no other overlapped is the
\* reply to that datagram, and to all of it, whatever became of the exchanges
\* before: the aborted, the refused, those that left the socket open.
AnswerIsMine ==
    \A x \in Datagram : exchange[x] = "answered" /\ x \notin crossed
        => answer[x] = <<x>>

\* Every exchange begun ends, with an answer or an error, even when another
\* has closed the socket under it or has taken its reply.
ExchangeEnds ==
    \A x \in Datagram :
        x \in Active ~> (exchange[x] \in {"answered", "failed"} \/ halted)

\* A connection the forwarder has given up, with an answer or without, does not
\* stay with the server: its session ends too, whatever stage it was at, and
\* also when the server was being stopped.
SessionEnds ==
    \A c \in Datagram :
        (c \in DOMAIN conns /\ ~conns[c].client)
            ~> (c \in DOMAIN conns /\ conns[c].server = "closed")

\* stop() ends the accept loop of the server wherever it meets it, between the
\* test of the flag and the next accept too: no accept is started for ever on
\* the acceptor it has closed.
AcceptLoopEnds == ~is_running_ ~> (accept = "ended" \/ exited)

\* While the network holds and neither program is stopped, a datagram that has
\* reached udp_socket_ is answered, unless another comes before its answer.
ServedAlone ==
    \A x \in Datagram :
        (\E i \in DOMAIN inbox : inbox[i] = x)
            ~> \/ exchange[x] = "answered" \/ x \in crossed
               \/ broken \/ ~is_running_ \/ ~client_running
=============================================================================
