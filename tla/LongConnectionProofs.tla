------------------------ MODULE LongConnectionProofs ------------------------
(***************************************************************************)
(* RightServer is violated (see its run).  What holds of it: the handler   *)
(* of sendMessage, which decides between the socket it finds and a new     *)
(* connection, never writes to another server than the message's, and what *)
(* others write goes at worst to the server of a later message.            *)
(***************************************************************************)
EXTENDS LongConnection, TLAPS

\* An open socket goes to the server last asked for.
SocketIsCurrent ==
    /\ socket_ = [open |-> socket_.open, up |-> socket_.up,
                  to |-> socket_.to, writes |-> socket_.writes,
                  reads |-> socket_.reads]
    /\ socket_.open => socket_.to = current

\* What the handler of sendMessage writes, it writes to the right server.
DirectSend ==
    RunSend => \A w \in written' \ written : w[2] = server[w[1]]

LEMMA SocketIsCurrentCorrect == Spec => []SocketIsCurrent
<1>1. Init => SocketIsCurrent
  BY DEF Init, ClosedSocket, SocketIsCurrent
<1>2. SocketIsCurrent /\ [Next]_vars => SocketIsCurrent'
  <2> SUFFICES ASSUME SocketIsCurrent, [Next]_vars PROVE SocketIsCurrent'
    OBVIOUS
  <2> USE DEF SocketIsCurrent
  <2>1. CASE UNCHANGED vars
    BY <2>1 DEF vars, flagVars
  <2>2. CASE \E s \in Server : sendMessage(s)
    BY <2>2 DEF sendMessage, flagVars
  <2>3. CASE stop
    BY <2>3 DEF stop, ClosedSocket
  <2> HIDE DEF SocketIsCurrent
  <2>a. ASSUME NEW m, doWrite(m), current' = current PROVE SocketIsCurrent'
    <3>1. \/ socket_' = socket_
          \/ socket_' = [socket_ EXCEPT
                            !.writes = Append(@, Handler("write", m, TRUE))]
      BY <2>a DEF doWrite
    <3> QED
      BY <3>1, <2>a DEF SocketIsCurrent
  <2>b. ASSUME doRead, current' = current PROVE SocketIsCurrent'
    <3>1. \/ socket_' = socket_
          \/ socket_' = [socket_ EXCEPT !.reads = @ + 1]
      BY <2>b DEF doRead
    <3> QED
      BY <3>1, <2>b DEF SocketIsCurrent
  <2>c. ASSUME handleDisconnect PROVE SocketIsCurrent'
    BY <2>c DEF handleDisconnect, Close, ClosedSocket, SocketIsCurrent
  <2>4. CASE RunSend
    <3> DEFINE m == Head(ready).m
    <3>1. \/ doWrite(m) /\ current' = current
          \/ /\ current' = server[m]
             /\ Close([open |-> TRUE, up |-> FALSE, to |-> server[m],
                       writes |-> <<Handler("connect", m, TRUE)>>,
                       reads |-> 0])
      BY <2>4 DEF RunSend
    <3>2. CASE doWrite(m) /\ current' = current
      BY <3>2, <2>a
    <3>3. CASE /\ current' = server[m]
               /\ Close([open |-> TRUE, up |-> FALSE, to |-> server[m],
                         writes |-> <<Handler("connect", m, TRUE)>>,
                         reads |-> 0])
      BY <3>3 DEF Close, SocketIsCurrent
    <3> QED
      BY <3>1, <3>2, <3>3
  <2>5. CASE RunConnect
    BY <2>5, <2>a DEF RunConnect, SocketIsCurrent
  <2>6. CASE RunTransfer
    BY <2>6, <2>b, <2>c DEF RunTransfer
  <2>7. CASE RunTimer
    BY <2>7, <2>c DEF RunTimer
  <2>8. CASE Establish \/ Arrive \/ Expire
    BY <2>8 DEF Establish, Arrive, Expire, flagVars, SocketIsCurrent
  <2> QED
    BY <2>1, <2>2, <2>3, <2>4, <2>5, <2>6, <2>7, <2>8 DEF Next
<1> QED
  BY <1>1, <1>2, PTL DEF Spec

\* sendMessage sends at once only when current is the server of the message,
\* and the open socket goes to current: a message can be misdirected only by
\* the handler of a connect that was overtaken.
THEOREM DirectSendRight == Spec => [][DirectSend]_vars
<1>1. SocketIsCurrent /\ [Next]_vars => [DirectSend]_vars
  <2> SUFFICES ASSUME SocketIsCurrent, RunSend,
                      NEW w \in written' \ written
               PROVE  w[2] = server[w[1]]
    BY DEF DirectSend
  <2>1. doWrite(Head(ready).m) /\ current = server[Head(ready).m]
    BY DEF RunSend
  <2>2. w = <<Head(ready).m, socket_.to>> /\ socket_.open
    BY <2>1 DEF doWrite
  <2> QED
    BY <2>1, <2>2 DEF SocketIsCurrent
<1> QED
  BY <1>1, SocketIsCurrentCorrect, PTL DEF Spec

-----------------------------------------------------------------------------
(* How far the misdirected messages go: only to the server of a later one. *)

HandlerSet == [kind : {"send", "connect", "write", "read", "timer"},
               m : Nat, ok : BOOLEAN]

\* The messages waiting are in order, after n and up to l; the connects are of
\* messages up to n.
QueueOK(r, n, l) ==
    /\ r \in Seq(HandlerSet)
    /\ \A i, j \in DOMAIN r :
          r[i].kind = "send" /\ r[j].kind = "send" /\ i < j => r[i].m < r[j].m
    /\ \A i \in DOMAIN r :
          /\ r[i].kind = "send" => n < r[i].m /\ r[i].m <= l
          /\ r[i].kind = "connect" => r[i].m \in 1..n

\* The same of operations, none of which is a message waiting.
WritesOK(a, n) ==
    /\ a \in Seq(HandlerSet)
    /\ \A i \in DOMAIN a : /\ a[i].kind # "send"
                           /\ a[i].kind = "connect" => a[i].m \in 1..n

\* current is the server of the last message handled, n.
LatestIs(n) ==
    /\ n \in 0 .. Len(server)
    /\ n # 0 => current = server[n]
    /\ QueueOK(ready, n, Len(server))
    /\ WritesOK(socket_.writes, n)

LatestInv ==
    /\ server \in Seq(Server)
    /\ socket_.reads \in Nat /\ socket_.up \in BOOLEAN
    /\ \E n : LatestIs(n)

\* A message is written to another server than its own only after a later
\* message, which is for that server, has been handled.
OvertakenOnly ==
    [][\A w \in written' \ written :
          w[2] # server[w[1]] =>
              \E n \in DOMAIN server : w[1] < n /\ server[n] = w[2]]_vars

LEMMA QueueJoin ==
    ASSUME NEW n \in Nat, NEW l, NEW r, QueueOK(r, n, l), NEW a, WritesOK(a, n)
    PROVE  QueueOK(r \o a, n, l)
<1> DEFINE c == r \o a
<1>1. /\ c \in Seq(HandlerSet)
      /\ \A i \in DOMAIN c :
            \/ i \in DOMAIN r /\ c[i] = r[i]
            \/ \E j \in DOMAIN a : c[i] = a[j]
  <2>1. r \in Seq(HandlerSet) /\ a \in Seq(HandlerSet)
    BY DEF QueueOK, WritesOK
  <2>2. ASSUME NEW i \in DOMAIN c, i \notin DOMAIN r
        PROVE  i - Len(r) \in DOMAIN a /\ c[i] = a[i - Len(r)]
    BY <2>1, <2>2
  <2>3. \A i \in DOMAIN r : c[i] = r[i]
    BY <2>1
  <2> QED
    BY <2>1, <2>2, <2>3
<1> HIDE DEF c
<1>2. \A i \in DOMAIN c :
         /\ c[i].kind = "send" => i \in DOMAIN r /\ c[i] = r[i]
         /\ c[i].kind = "connect" => c[i].m \in 1..n
  BY <1>1 DEF QueueOK, WritesOK
<1>3. QueueOK(c, n, l)
  BY <1>1, <1>2 DEF QueueOK
<1> QED
  BY <1>3 DEF c

LEMMA WritesJoin ==
    ASSUME NEW n \in Nat, NEW a, WritesOK(a, n), NEW b, WritesOK(b, n)
    PROVE  WritesOK(a \o b, n)
<1> DEFINE c == a \o b
<1>1. a \in Seq(HandlerSet) /\ b \in Seq(HandlerSet)
  BY DEF WritesOK
<1>2. c \in Seq(HandlerSet) /\ \A i \in DOMAIN a : c[i] = a[i]
  BY <1>1
<1>3. ASSUME NEW i \in DOMAIN c, i \notin DOMAIN a
      PROVE  i - Len(a) \in DOMAIN b /\ c[i] = b[i - Len(a)]
  BY <1>1, <1>3
<1> HIDE DEF c
<1>4. WritesOK(c, n)
  BY <1>2, <1>3 DEF WritesOK
<1> QED
  BY <1>4 DEF c

\* One operation that is no message waiting.
LEMMA WritesOne ==
    ASSUME NEW n \in Nat, NEW kind \in {"connect", "write", "read", "timer"},
           NEW m \in Nat, kind = "connect" => m \in 1..n, NEW ok \in BOOLEAN
    PROVE  /\ WritesOK(<<Handler(kind, m, ok)>>, n)
           /\ \A r : r \in Seq(HandlerSet) =>
                 Append(r, Handler(kind, m, ok)) = r \o <<Handler(kind, m, ok)>>
<1> DEFINE h == Handler(kind, m, ok)
<1>1. h \in HandlerSet /\ h.kind = kind /\ h.m = m
  BY DEF Handler, HandlerSet
<1> HIDE DEF h
<1>2. WritesOK(<<h>>, n)
  BY <1>1 DEF WritesOK
<1>3. \A r : r \in Seq(HandlerSet) => Append(r, h) = r \o <<h>>
  BY <1>1
<1> QED
  BY <1>2, <1>3 DEF h

\* What a close aborts.
LEMMA FailsOK ==
    ASSUME NEW n \in Nat, NEW reads \in Nat, NEW ops, WritesOK(ops, n)
    PROVE  WritesOK(Fails(reads, ops), n)
<1> DEFINE a == [i \in 1..reads |-> Handler("read", 0, FALSE)]
           b == [i \in DOMAIN ops |-> Handler(ops[i].kind, ops[i].m, FALSE)]
<1>1. WritesOK(a, n)
  <2>1. Handler("read", 0, FALSE) \in HandlerSet
        /\ Handler("read", 0, FALSE).kind = "read"
    BY DEF Handler, HandlerSet
  <2> DEFINE h == Handler("read", 0, FALSE)
  <2> HIDE DEF h
  <2>2. h \in HandlerSet /\ h.kind = "read"
    BY <2>1 DEF h
  <2>3. [i \in 1..reads |-> h] \in Seq(HandlerSet)
    BY <2>2
  <2>4. a = [i \in 1..reads |-> h]
    BY DEF h
  <2> HIDE DEF a
  <2> QED
    BY <2>2, <2>3, <2>4 DEF WritesOK
<1>2. WritesOK(b, n)
  <2>1. ops \in Seq(HandlerSet) /\ \A i \in DOMAIN ops : ops[i] \in HandlerSet
    BY DEF WritesOK
  <2>2. \A i \in DOMAIN ops :
           /\ Handler(ops[i].kind, ops[i].m, FALSE) \in HandlerSet
           /\ Handler(ops[i].kind, ops[i].m, FALSE).kind = ops[i].kind
           /\ Handler(ops[i].kind, ops[i].m, FALSE).m = ops[i].m
    BY <2>1 DEF Handler, HandlerSet
  <2>3. DOMAIN ops = 1 .. Len(ops) /\ Len(ops) \in Nat
    BY <2>1
  <2> DEFINE g(i) == Handler(ops[i].kind, ops[i].m, FALSE)
  <2> HIDE DEF g
  <2>4. \A i \in DOMAIN ops : g(i) \in HandlerSet
    BY <2>2 DEF g
  <2>5. [i \in DOMAIN ops |-> g(i)] \in Seq(HandlerSet)
    BY <2>3, <2>4
  <2>6. b = [i \in DOMAIN ops |-> g(i)]
    BY DEF g
  <2>7. \A i \in DOMAIN ops : g(i).kind = ops[i].kind /\ g(i).m = ops[i].m
    BY <2>2 DEF g
  <2> HIDE DEF b
  <2>8. b \in Seq(HandlerSet) /\ DOMAIN b = DOMAIN ops /\ \A i \in DOMAIN b : b[i] = g(i)
    BY <2>5, <2>6
  <2> QED
    BY <2>7, <2>8 DEF WritesOK
<1> HIDE DEF a, b
<1>3. WritesOK(a \o b, n)
  BY <1>1, <1>2, WritesJoin
<1> QED
  BY <1>3 DEF Fails, a, b

\* Later, more messages have been handled.
LEMMA WritesLater ==
    ASSUME NEW n \in Nat, NEW m \in Nat, n <= m, NEW a, WritesOK(a, n)
    PROVE  WritesOK(a, m)
  BY DEF WritesOK

\* The next handler runs; if it is that of a message, this is the last one now.
LEMMA QueueTail ==
    ASSUME NEW n \in Nat, NEW l \in Nat, NEW r, QueueOK(r, n, l), r # <<>>
    PROVE  /\ Head(r) \in HandlerSet
           /\ Head(r).kind = "connect" => Head(r).m \in 1..n
           /\ QueueOK(Tail(r), n, l)
           /\ Head(r).kind = "send" =>
                 /\ Head(r).m \in 1..l /\ n < Head(r).m
                 /\ QueueOK(Tail(r), Head(r).m, l)
<1> DEFINE t == Tail(r)
           h == Head(r)
<1>1. r \in Seq(HandlerSet)
  BY DEF QueueOK
<1>2. /\ t \in Seq(HandlerSet) /\ h \in HandlerSet
      /\ 1 \in DOMAIN r /\ h = r[1]
      /\ \A i \in DOMAIN t : /\ i \in Nat /\ 1 < i + 1
                             /\ i + 1 \in DOMAIN r /\ t[i] = r[i + 1]
  BY <1>1
<1> HIDE DEF t, h
<1>3. \A i, j \in DOMAIN t :
         t[i].kind = "send" /\ t[j].kind = "send" /\ i < j => t[i].m < t[j].m
  <2>1. ASSUME NEW i \in DOMAIN t, NEW j \in DOMAIN t, i < j PROVE i + 1 < j + 1
    BY <1>2, <2>1
  <2> QED
    BY <1>2, <2>1 DEF QueueOK
<1>4. QueueOK(t, n, l)
  BY <1>2, <1>3 DEF QueueOK
<1>5. /\ h.kind = "connect" => h.m \in 1..n
      /\ h.kind = "send" => n < h.m /\ h.m <= l
      /\ h.m \in Nat
  BY <1>2 DEF QueueOK, HandlerSet
<1>6. ASSUME h.kind = "send" PROVE h.m \in 1..l /\ n < h.m /\ QueueOK(t, h.m, l)
  <2>1. h.m \in 1..l /\ n < h.m
    BY <1>5, <1>6
  <2>2. \A i \in DOMAIN t : t[i].kind = "send" => h.m < t[i].m /\ t[i].m <= l
    BY <1>2, <1>6 DEF QueueOK
  <2>3. ASSUME NEW i \in DOMAIN t, t[i].kind = "connect" PROVE t[i].m \in 1..h.m
    <3>1. t[i].m \in 1..n
      BY <1>4, <2>3 DEF QueueOK
    <3> QED
      BY <1>5, <2>1, <3>1
  <2> QED
    BY <1>2, <1>3, <2>1, <2>2, <2>3 DEF QueueOK
<1> QED
  BY <1>2, <1>4, <1>5, <1>6 DEF t, h

\* The variables of the invariant, but for current and server.
Operations(n) ==
    /\ QueueOK(ready, n, Len(server))
    /\ WritesOK(socket_.writes, n)
    /\ socket_.reads \in Nat /\ socket_.up \in BOOLEAN

LEMMA WriteOperations ==
    ASSUME NEW n \in Nat, Operations(n), QueueOK(Tail(ready), n, Len(server)),
           SocketIsCurrent, NEW m \in Nat, doWrite(m), server' = server
    PROVE  Operations(n)'
<1> DEFINE t == Tail(ready)
<1>0. t \in Seq(HandlerSet) /\ socket_.writes \in Seq(HandlerSet)
  BY DEF Operations, QueueOK, WritesOK
<1>1. CASE Connecting
  <2> DEFINE h == Handler("write", m, TRUE)
  <2>1. /\ socket_' = [socket_ EXCEPT !.writes = Append(@, h)]
        /\ ready' = t
    BY <1>1 DEF doWrite
  <2>2. /\ WritesOK(<<h>>, n)
        /\ Append(socket_.writes, h) = socket_.writes \o <<h>>
    BY <1>0, WritesOne
  <2> HIDE DEF h
  <2>3. /\ socket_'.writes = Append(socket_.writes, h)
        /\ socket_'.reads = socket_.reads /\ socket_'.up = socket_.up
    BY <2>1 DEF SocketIsCurrent
  <2>4. WritesOK(socket_.writes \o <<h>>, n)
    BY <2>2, WritesJoin DEF Operations
  <2> QED
    BY <2>1, <2>2, <2>3, <2>4 DEF Operations
<1>2. CASE ~Connecting
  <2> DEFINE h == Handler("write", m, socket_.up)
  <2>1. ready' = Append(t, h) /\ socket_' = socket_
    BY <1>2 DEF doWrite
  <2>2. WritesOK(<<h>>, n) /\ Append(t, h) = t \o <<h>>
    BY <1>0, WritesOne DEF Operations
  <2> HIDE DEF h
  <2>3. QueueOK(t \o <<h>>, n, Len(server))
    BY <2>2, QueueJoin
  <2> QED
    BY <2>1, <2>2, <2>3 DEF Operations
<1> QED
  BY <1>1, <1>2

LEMMA ReadOperations ==
    ASSUME NEW n \in Nat, Operations(n), QueueOK(Tail(ready), n, Len(server)),
           SocketIsCurrent, doRead, server' = server
    PROVE  Operations(n)'
<1> DEFINE t == Tail(ready)
           h == Handler("read", 0, FALSE)
<1>0. t \in Seq(HandlerSet)
  BY DEF QueueOK
<1>1. CASE socket_' = [socket_ EXCEPT !.reads = @ + 1] /\ ready' = t
  <2>1. /\ socket_'.writes = socket_.writes /\ socket_'.up = socket_.up
        /\ socket_'.reads = socket_.reads + 1
    BY <1>1 DEF SocketIsCurrent
  <2> QED
    BY <1>1, <2>1 DEF Operations
<1>2. CASE ready' = Append(t, h) /\ socket_' = socket_
  <2>1. WritesOK(<<h>>, n) /\ Append(t, h) = t \o <<h>>
    BY <1>0, WritesOne
  <2> HIDE DEF h
  <2>2. QueueOK(t \o <<h>>, n, Len(server))
    BY <2>1, QueueJoin
  <2> QED
    BY <1>2, <2>1, <2>2 DEF Operations
<1> QED
  BY <1>1, <1>2 DEF doRead

\* A close in a handler, for a closed socket or a connect.
LEMMA CloseOperations ==
    ASSUME NEW n \in Nat, NEW m \in Nat, n <= m, Operations(n),
           QueueOK(Tail(ready), m, Len(server)), NEW next, Close(next),
           WritesOK(next.writes, m), next.reads \in Nat, next.up \in BOOLEAN,
           server' = server
    PROVE  Operations(m)'
<1>1. WritesOK(Fails(socket_.reads, socket_.writes), m)
  BY FailsOK, WritesLater DEF Operations
<1>2. QueueOK(Tail(ready) \o Fails(socket_.reads, socket_.writes), m, Len(server))
  BY <1>1, QueueJoin
<1> QED
  BY <1>2 DEF Close, Operations

LEMMA ClosedOK ==
    ASSUME NEW n \in Nat
    PROVE  /\ WritesOK(ClosedSocket.writes, n)
           /\ ClosedSocket.reads \in Nat /\ ClosedSocket.up \in BOOLEAN
  BY DEF ClosedSocket, WritesOK

LEMMA LatestStep ==
    SocketIsCurrent /\ LatestInv /\ [Next]_vars => LatestInv'
<1> SUFFICES ASSUME SocketIsCurrent, LatestInv, [Next]_vars PROVE LatestInv'
  OBVIOUS
<1> PICK n : LatestIs(n)
  BY DEF LatestInv
<1>0. /\ server \in Seq(Server) /\ Len(server) \in Nat
      /\ n \in Nat /\ n <= Len(server) /\ Operations(n)
  BY DEF LatestInv, LatestIs, Operations
<1>1. ASSUME NEW m \in 0 .. Len(server), Operations(m)', server' = server,
             m # 0 => current' = server[m]
      PROVE  LatestInv'
  <2>1. LatestIs(m)'
    BY <1>1 DEF LatestIs, Operations
  <2> QED
    BY <1>0, <1>1, <2>1 DEF LatestInv, Operations
<1>2. ASSUME Operations(n)', server' = server, current' = current
      PROVE  LatestInv'
  BY <1>0, <1>1, <1>2 DEF LatestIs
<1>3. ASSUME NEW a, WritesOK(a, n), ready' = ready \o a,
             WritesOK(socket_'.writes, n), socket_'.reads \in Nat,
             socket_'.up \in BOOLEAN, server' = server, current' = current
      PROVE  LatestInv'
  <2>1. QueueOK(ready \o a, n, Len(server))
    BY <1>0, <1>3, QueueJoin DEF Operations
  <2>2. Operations(n)'
    BY <1>3, <2>1 DEF Operations
  <2> QED
    BY <1>2, <1>3, <2>2
<1>4. WritesOK(Fails(socket_.reads, socket_.writes), n)
  BY <1>0, FailsOK DEF Operations
<1>5. CASE UNCHANGED vars
  <2>1. UNCHANGED <<ready, socket_, server, current>>
    BY <1>5 DEF vars, flagVars
  <2>2. Operations(n)'
    BY <1>0, <2>1 DEF Operations
  <2> QED
    BY <1>2, <2>1, <2>2
<1>6. ASSUME NEW s \in Server, sendMessage(s) PROVE LatestInv'
  <2> DEFINE l == Len(server)
             h == Handler("send", l + 1, TRUE)
  <2>1. /\ server' = Append(server, s) /\ ready' = Append(ready, h)
        /\ socket_' = socket_ /\ current' = current
    BY <1>6 DEF sendMessage, flagVars
  <2>2. /\ server' \in Seq(Server) /\ Len(server') = l + 1
        /\ \A i \in 1..l : server'[i] = server[i]
    BY <1>0, <2>1
  <2>3. l \in Nat /\ h \in HandlerSet /\ h.kind = "send" /\ h.m = l + 1
    BY <1>0 DEF Handler, HandlerSet
  <2>4. QueueOK(ready, n, l)
    BY <1>0 DEF Operations
  <2> HIDE DEF h, l
  <2>5. /\ ready' \in Seq(HandlerSet)
        /\ \A i \in DOMAIN ready' :
              \/ i \in DOMAIN ready /\ ready'[i] = ready[i] /\ i < Len(ready) + 1
              \/ i = Len(ready) + 1 /\ ready'[i] = h
        /\ Len(ready) \in Nat
    BY <2>1, <2>3, <2>4 DEF QueueOK
  <2>6. n < l + 1
    BY <1>0, <2>3 DEF l
  <2>7. ASSUME NEW i \in DOMAIN ready'
        PROVE  /\ ready'[i].kind = "send" =>
                     n < ready'[i].m /\ ready'[i].m <= l + 1
               /\ ready'[i].kind = "connect" => ready'[i].m \in 1..n
    <3>1. CASE i \in DOMAIN ready /\ ready'[i] = ready[i]
      <4>1. ready[i] \in HandlerSet
        BY <2>4, <3>1 DEF QueueOK
      <4>2. ready[i].m \in Nat
        BY <4>1 DEF HandlerSet
      <4> QED
        BY <2>3, <2>4, <3>1, <4>2 DEF QueueOK
    <3>2. CASE ready'[i] = h
      BY <2>3, <2>6, <3>2
    <3> QED
      BY <2>5, <3>1, <3>2
  <2>8. ASSUME NEW i \in DOMAIN ready', NEW j \in DOMAIN ready', i < j,
               ready'[i].kind = "send", ready'[j].kind = "send"
        PROVE  ready'[i].m < ready'[j].m
    <3>1. i \in Nat /\ j \in Nat
      BY <2>5
    <3>2. i \in DOMAIN ready /\ ready'[i] = ready[i]
      BY <2>5, <2>8, <3>1
    <3>3. CASE j \in DOMAIN ready /\ ready'[j] = ready[j]
      BY <2>4, <2>8, <3>2, <3>3 DEF QueueOK
    <3>4. CASE ready'[j] = h
      <4>1. ready[i].m <= l /\ ready[i] \in HandlerSet
        BY <2>4, <2>8, <3>2 DEF QueueOK
      <4>2. ready[i].m \in Nat
        BY <4>1 DEF HandlerSet
      <4> QED
        BY <2>3, <3>2, <3>4, <4>1, <4>2
    <3> QED
      BY <2>5, <3>3, <3>4
  <2>9. QueueOK(ready', n, l + 1)
    BY <2>5, <2>7, <2>8 DEF QueueOK
  <2>10. LatestIs(n)'
    <3>1. n \in 0 .. l + 1 /\ (n # 0 => current' = server'[n])
      BY <1>0, <2>1, <2>2, <2>3 DEF LatestIs, l
    <3> QED
      BY <1>0, <2>1, <2>2, <2>9, <3>1 DEF LatestIs, Operations
  <2> QED
    BY <1>0, <2>1, <2>2, <2>10 DEF LatestInv, Operations
<1>7. CASE stop
  <2>1. server' = server /\ current' = current
    BY <1>7 DEF stop
  <2>2. CASE socket_' = socket_ /\ ready' = ready
    BY <1>0, <1>2, <2>1, <2>2 DEF Operations
  <2>3. CASE /\ socket_' = ClosedSocket
             /\ ready' = ready \o Fails(socket_.reads, socket_.writes)
    BY <1>0, <1>3, <1>4, <2>1, <2>3, ClosedOK
  <2> QED
    BY <1>7, <2>2, <2>3 DEF stop
<1>8. CASE RunSend
  <2> PICK m : m = Head(ready).m
    OBVIOUS
  <2>1. /\ ready # <<>> /\ Head(ready).kind = "send" /\ server' = server
    BY <1>8 DEF RunSend, Runs
  <2>2. m \in 1 .. Len(server) /\ n < m /\ QueueOK(Tail(ready), m, Len(server))
    BY <1>0, <2>1, QueueTail DEF Operations
  <2>3. m \in Nat /\ n <= m /\ m \in 0 .. Len(server) /\ m # 0
    BY <1>0, <2>2
  <2>4. CASE doWrite(m) /\ current = server[m] /\ current' = current
    <3>1. QueueOK(Tail(ready), n, Len(server))
      BY <1>0, <2>1, QueueTail DEF Operations
    <3>2. Operations(n)'
      BY <1>0, <2>1, <2>3, <2>4, <3>1, WriteOperations
    <3> QED
      BY <1>2, <2>1, <2>4, <3>2
  <2>5. CASE /\ current' = server[m]
             /\ Close([open |-> TRUE, up |-> FALSE, to |-> server[m],
                       writes |-> <<Handler("connect", m, TRUE)>>, reads |-> 0])
    <3> DEFINE next == [open |-> TRUE, up |-> FALSE, to |-> server[m],
                        writes |-> <<Handler("connect", m, TRUE)>>, reads |-> 0]
    <3>1. m \in 1..m
      BY <2>2
    <3>2. WritesOK(<<Handler("connect", m, TRUE)>>, m)
      BY <2>3, <3>1, WritesOne
    <3>3. /\ WritesOK(next.writes, m) /\ next.reads \in Nat
          /\ next.up \in BOOLEAN
      BY <3>2
    <3>4. Close(next)
      BY <2>5
    <3> HIDE DEF next
    <3>5. Operations(m)'
      BY <1>0, <2>1, <2>2, <2>3, <3>3, <3>4, CloseOperations
    <3> QED
      BY <1>1, <2>1, <2>3, <2>5, <3>5
  <2> QED
    BY <1>8, <2>4, <2>5 DEF RunSend
<1>9. ASSUME ready # <<>>, handleDisconnect, server' = server PROVE LatestInv'
  <2>1. QueueOK(Tail(ready), n, Len(server)) /\ n <= n
    BY <1>0, <1>9, QueueTail DEF Operations
  <2>2. Close(ClosedSocket) /\ current' = current
    BY <1>9 DEF handleDisconnect
  <2>3. Operations(n)'
    BY <1>0, <1>9, <2>1, <2>2, ClosedOK, CloseOperations
  <2> QED
    BY <1>2, <1>9, <2>2, <2>3
<1>10. CASE RunConnect
  <2> PICK m : m = Head(ready).m
    OBVIOUS
  <2>1. /\ ready # <<>> /\ server' = server /\ current' = current
        /\ doWrite(m) \/ (ready' = Tail(ready) /\ socket_' = socket_)
    BY <1>10 DEF RunConnect, Runs
  <2>2. QueueOK(Tail(ready), n, Len(server)) /\ Head(ready) \in HandlerSet
    BY <1>0, <2>1, QueueTail DEF Operations
  <2>3. m \in Nat
    BY <2>2 DEF HandlerSet
  <2>4. Operations(n)'
    <3>1. CASE doWrite(m)
      BY <1>0, <2>1, <2>2, <2>3, <3>1, WriteOperations
    <3>2. CASE ready' = Tail(ready) /\ socket_' = socket_
      BY <1>0, <2>1, <2>2, <3>2 DEF Operations
    <3> QED
      BY <2>1, <3>1, <3>2
  <2> QED
    BY <1>2, <2>1, <2>4
<1>11. CASE RunTransfer \/ RunTimer
  <2>1. ready # <<>> /\ server' = server
    BY <1>11 DEF RunTransfer, RunTimer, Runs
  <2>2. CASE doRead /\ current' = current
    <3>1. QueueOK(Tail(ready), n, Len(server))
      BY <1>0, <2>1, QueueTail DEF Operations
    <3>2. Operations(n)'
      BY <1>0, <2>1, <2>2, <3>1, ReadOperations
    <3> QED
      BY <1>2, <2>1, <2>2, <3>2
  <2> QED
    BY <1>9, <1>11, <2>1, <2>2 DEF RunTransfer, RunTimer
<1>12. CASE Establish
  <2>1. PICK ok \in BOOLEAN :
           /\ socket_' = [socket_ EXCEPT !.up = ok, !.writes = <<>>,
                                         !.reads = IF ok THEN @ ELSE 0]
           /\ ready' = ready \o
                 (IF ok THEN socket_.writes
                  ELSE Fails(0, socket_.writes) \o Fails(socket_.reads, <<>>))
    BY <1>12 DEF Establish
  <2>2. server' = server /\ current' = current
    BY <1>12 DEF Establish, flagVars
  <2>3. /\ socket_'.writes = <<>> /\ socket_'.up \in BOOLEAN
        /\ socket_'.reads \in {0, socket_.reads}
    BY <2>1 DEF SocketIsCurrent
  <2>4. WritesOK(<<>>, n) /\ 0 \in Nat
    BY DEF WritesOK
  <2>5. WritesOK(Fails(0, socket_.writes), n) /\ WritesOK(Fails(socket_.reads, <<>>), n)
    BY <1>0, <2>4, FailsOK DEF Operations
  <2>6. WritesOK(Fails(0, socket_.writes) \o Fails(socket_.reads, <<>>), n)
    BY <1>0, <2>5, WritesJoin
  <2>7. socket_'.reads \in Nat /\ WritesOK(socket_'.writes, n)
    BY <1>0, <2>3, <2>4 DEF Operations
  <2>8. CASE ok
    BY <1>0, <1>3, <2>1, <2>2, <2>3, <2>7, <2>8 DEF Operations
  <2>9. CASE ~ok
    BY <1>3, <2>1, <2>2, <2>3, <2>6, <2>7, <2>9
  <2> QED
    BY <2>8, <2>9
<1>13. CASE Arrive
  <2>1. server' = server /\ current' = current
    BY <1>13 DEF Arrive, flagVars
  <2>2. CASE /\ socket_.reads > 0
             /\ socket_' = [socket_ EXCEPT !.reads = @ - 1]
             /\ ready' = Append(ready, Handler("read", 0, TRUE))
    <3> DEFINE h == Handler("read", 0, TRUE)
    <3>1. WritesOK(<<h>>, n) /\ Append(ready, h) = ready \o <<h>>
      BY <1>0, WritesOne DEF Operations, QueueOK
    <3>2. /\ socket_'.writes = socket_.writes /\ socket_'.up = socket_.up
          /\ socket_'.reads = socket_.reads - 1
      BY <2>2 DEF SocketIsCurrent
    <3>3. ready' = Append(ready, h)
      BY <2>2
    <3> HIDE DEF h
    <3>4. socket_'.reads \in Nat /\ socket_'.up \in BOOLEAN
          /\ WritesOK(socket_'.writes, n)
      BY <1>0, <2>2, <3>2 DEF Operations
    <3> QED
      BY <1>3, <2>1, <3>1, <3>3, <3>4
  <2>3. CASE /\ socket_' = [socket_ EXCEPT !.reads = 0, !.up = FALSE]
             /\ ready' = ready \o Fails(socket_.reads, <<>>)
    <3>1. WritesOK(<<>>, n)
      BY DEF WritesOK
    <3>2. WritesOK(Fails(socket_.reads, <<>>), n)
      BY <1>0, <3>1, FailsOK DEF Operations
    <3>3. /\ socket_'.writes = socket_.writes /\ socket_'.up \in BOOLEAN
          /\ socket_'.reads \in Nat
      BY <2>3 DEF SocketIsCurrent
    <3>4. WritesOK(socket_'.writes, n)
      BY <1>0, <3>3 DEF Operations
    <3> QED
      BY <1>3, <2>1, <2>3, <3>2, <3>3, <3>4
  <2> QED
    BY <1>13, <2>2, <2>3 DEF Arrive
<1>14. CASE Expire
  <2> DEFINE h == Handler("timer", 0, TRUE)
  <2>1. /\ server' = server /\ current' = current /\ socket_' = socket_
        /\ ready' = Append(ready, h)
    BY <1>14 DEF Expire, flagVars
  <2>2. WritesOK(<<h>>, n) /\ Append(ready, h) = ready \o <<h>>
    BY <1>0, WritesOne DEF Operations, QueueOK
  <2> HIDE DEF h
  <2> QED
    BY <1>0, <1>3, <2>1, <2>2 DEF Operations
<1> QED
  BY <1>5, <1>6, <1>7, <1>8, <1>10, <1>11, <1>12, <1>13, <1>14 DEF Next

\* A misdirected message goes to the server of a later message: the last one,
\* and those of a client that has one server, arrive where they should.
THEOREM OvertakenOnlyCorrect == Spec => OvertakenOnly
<1>1. Init => LatestInv
  <2> SUFFICES ASSUME Init PROVE LatestInv
    OBVIOUS
  <2>1. server = <<>> /\ Len(server) = 0 /\ ready = <<>> /\ socket_ = ClosedSocket
    BY DEF Init
  <2>2. QueueOK(<<>>, 0, 0)
    BY DEF QueueOK
  <2>3. LatestIs(0)
    BY <2>1, <2>2, ClosedOK DEF LatestIs
  <2> QED
    BY <2>1, <2>3, ClosedOK DEF LatestInv
<1>2. ASSUME SocketIsCurrent, LatestInv, Next, NEW w \in written' \ written,
             w[2] # server[w[1]]
      PROVE  \E n \in DOMAIN server : w[1] < n /\ server[n] = w[2]
  <2> PICK n : LatestIs(n)
    BY <1>2 DEF LatestInv
  <2>1. ~RunSend
    <3> SUFFICES ASSUME RunSend PROVE w[2] = server[w[1]]
      BY <1>2
    <3>1. doWrite(Head(ready).m) /\ current = server[Head(ready).m]
      BY <1>2 DEF RunSend
    <3>2. w = <<Head(ready).m, socket_.to>> /\ socket_.open
      BY <1>2, <3>1 DEF doWrite
    <3> QED
      BY <1>2, <3>1, <3>2 DEF SocketIsCurrent
  <2>2. RunConnect /\ doWrite(Head(ready).m)
    BY <1>2, <2>1 DEF Next, sendMessage, stop, RunConnect, RunTransfer, RunTimer,
       handleDisconnect, Establish, Arrive, Expire
  <2>3. w = <<Head(ready).m, current>>
    BY <1>2, <2>2 DEF doWrite, SocketIsCurrent
  <2>4. Head(ready).m \in 1..n /\ n \in 0 .. Len(server) /\ Len(server) \in Nat
    <3>1. ready # <<>> /\ Head(ready).kind = "connect"
      BY <2>2 DEF RunConnect, Runs
    <3>2. n \in Nat /\ Len(server) \in Nat /\ n \in 0 .. Len(server)
      BY <1>2 DEF LatestIs, LatestInv
    <3> QED
      BY <3>1, <3>2, QueueTail DEF LatestIs
  <2>5. n # 0 /\ current = server[n] /\ n \in DOMAIN server
    BY <1>2, <2>4 DEF LatestIs, LatestInv
  <2>6. Head(ready).m # n
    BY <1>2, <2>3, <2>5
  <2>7. Head(ready).m < n
    BY <2>4, <2>6
  <2> QED
    BY <2>3, <2>5, <2>7
<1>3. SocketIsCurrent /\ LatestInv /\ [Next]_vars =>
         [\A w \in written' \ written :
             w[2] # server[w[1]] =>
                 \E n \in DOMAIN server : w[1] < n /\ server[n] = w[2]]_vars
  BY <1>2
<1> QED
  BY <1>1, <1>3, LatestStep, SocketIsCurrentCorrect, PTL DEF Spec, OvertakenOnly
=============================================================================
