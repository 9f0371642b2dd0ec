----------------------------- MODULE Connection -----------------------------
(***************************************************************************)
(* One Connection object of client2.0.cpp: the handlers it posts to its    *)
(* strand, the outgoing queue msg_queue_, and the cycle                    *)
(*     do_write -> (write completes) -> do_read -> (line read) -> do_write *)
(* that the flag writing_ says is running.                                 *)
(*                                                                         *)
(* The strand runs one handler at a time, in the order they became ready,  *)
(* so a handler is one atomic action and `strand' is a FIFO of handlers.   *)
(* Other threads only append to it (push_message, close); the I/O service  *)
(* appends the completion handler of the asynchronous operation `io'.      *)
(* dead_ and socket_.close() always change together, in one handler, so    *)
(* dead_ also says that the socket is closed.                              *)
(***************************************************************************)
EXTENDS Naturals, Sequences

CONSTANTS
    Message,        \* message payloads
    MaxMessages,    \* bound on the messages ever pushed
    MaxStrand       \* bound on the handlers waiting when another is posted

ASSUME BoundsAssumption == MaxMessages \in Nat /\ MaxStrand \in Nat

VARIABLES
    strand,         \* handlers ready to run, oldest first
    msg_queue_,     \* messages waiting; the front one is being exchanged
    writing_,       \* the write/read cycle is running
    dead_,          \* the connection was closed or lost
    io,             \* the asynchronous operation in progress on socket_
    accepted,       \* history: every message a handler put in msg_queue_
    wire,           \* history: every message written completely
    replies,        \* history: number of reply lines consumed
    notified        \* history: the arguments of the on_disconnect_ calls

vars == <<strand, msg_queue_, writing_, dead_, io, accepted, wire, replies,
          notified>>

Push(m)      == [kind |-> "push", msg |-> m]
CloseReq(nr) == [kind |-> "close", reconnect |-> nr]
Wrote(ok)    == [kind |-> "wrote", ok |-> ok]
Read(ok)     == [kind |-> "read", ok |-> ok]

Handler ==
    {Push(m) : m \in Message} \cup {CloseReq(nr) : nr \in BOOLEAN}
        \cup {Wrote(ok) : ok \in BOOLEAN} \cup {Read(ok) : ok \in BOOLEAN}

Init ==
    /\ strand = <<>>
    /\ msg_queue_ = <<>>
    /\ writing_ = FALSE
    /\ dead_ = FALSE
    /\ io = "none"
    /\ accepted = <<>>
    /\ wire = <<>>
    /\ replies = 0
    /\ notified = <<>>

-----------------------------------------------------------------------------
(* Calls from other threads: they only post to the strand.                 *)

PushMessage(m) ==
    /\ Len(strand) < MaxStrand
    /\ Len(accepted) + Len(strand) < MaxMessages
    /\ strand' = Append(strand, Push(m))
    /\ UNCHANGED <<msg_queue_, writing_, dead_, io, accepted, wire, replies,
                   notified>>

Close(need_reconnect) ==
    /\ Len(strand) < MaxStrand
    /\ strand' = Append(strand, CloseReq(need_reconnect))
    /\ UNCHANGED <<msg_queue_, writing_, dead_, io, accepted, wire, replies,
                   notified>>

-----------------------------------------------------------------------------
(* The operating system finishes the operation in progress.  On a closed   *)
(* socket it is aborted; on an open one it succeeds or fails.              *)

Outcome == IF dead_ THEN {FALSE} ELSE BOOLEAN

WriteCompletes ==
    /\ io = "write"
    /\ \E ok \in Outcome :
          /\ strand' = Append(strand, Wrote(ok))
          /\ wire' = IF ok THEN Append(wire, Head(msg_queue_)) ELSE wire
    /\ io' = "none"
    /\ UNCHANGED <<msg_queue_, writing_, dead_, accepted, replies, notified>>

ReadCompletes ==
    /\ io = "read"
    /\ \E ok \in Outcome : strand' = Append(strand, Read(ok))
    /\ io' = "none"
    /\ UNCHANGED <<msg_queue_, writing_, dead_, accepted, wire, replies,
                   notified>>

-----------------------------------------------------------------------------
(* The handlers, run by the strand.                                        *)

RunNext(kind) ==
    /\ strand # <<>>
    /\ Head(strand).kind = kind
    /\ strand' = Tail(strand)

\* Mutant: the flag stays set when the queue is found empty.
DoWrite_KeepsFlag(q, w) ==
    /\ writing_' = w
    /\ io' = IF q = <<>> THEN io ELSE "write"

\* do_write on the queue q, called with writing_ holding w (both callers have
\* just tested dead_): stops the cycle on an empty queue.
DoWrite(q, w) ==
    /\ writing_' = (w /\ q # <<>>)
    /\ io' = IF q = <<>> THEN io ELSE "write"

\* Mutant: the callback is forgotten.
Disconnect_Silent(need_reconnect) ==
    /\ dead_' = TRUE
    /\ UNCHANGED notified

\* The end of the cycle and the connection, with the callback to the manager.
Disconnect(need_reconnect) ==
    /\ dead_' = TRUE
    /\ notified' = Append(notified, need_reconnect)

\* Mutant: the new message overtakes the waiting ones.
PushAppend_Front(q, m) == <<m>> \o q

PushAppend(q, m) == Append(q, m)

\* Mutant: a push that finds the queue empty starts a write, cycle or not.
RunPush_EmptyOnly ==
    /\ RunNext("push")
    /\ ~dead_
    /\ msg_queue_' = PushAppend(msg_queue_, Head(strand).msg)
    /\ accepted' = Append(accepted, Head(strand).msg)
    /\ IF msg_queue_ = <<>>
       THEN DoWrite(msg_queue_', TRUE)
       ELSE UNCHANGED <<writing_, io>>
    /\ UNCHANGED <<dead_, wire, replies, notified>>

RunPush ==
    /\ RunNext("push")
    /\ \/ /\ dead_
          /\ UNCHANGED <<msg_queue_, writing_, io, accepted>>
       \/ /\ ~dead_
          /\ msg_queue_' = PushAppend(msg_queue_, Head(strand).msg)
          /\ accepted' = Append(accepted, Head(strand).msg)
          /\ IF msg_queue_ = <<>> /\ ~writing_
             THEN DoWrite(msg_queue_', TRUE)
             ELSE UNCHANGED <<writing_, io>>
    /\ UNCHANGED <<dead_, wire, replies, notified>>

\* Mutant: close() does not look whether the connection is already dead.
RunClose_Again ==
    /\ RunNext("close")
    /\ Disconnect(Head(strand).reconnect)
    /\ UNCHANGED <<msg_queue_, writing_, io, accepted, wire, replies>>

RunClose ==
    /\ RunNext("close")
    /\ \/ dead_ /\ UNCHANGED <<dead_, notified>>
       \/ ~dead_ /\ Disconnect(Head(strand).reconnect)
    /\ UNCHANGED <<msg_queue_, writing_, io, accepted, wire, replies>>

\* Mutant: the next write does not wait for the reply.
RunWrote_Pipelined ==
    /\ RunNext("wrote")
    /\ ~dead_
    /\ Head(strand).ok
    /\ msg_queue_' = Tail(msg_queue_)
    /\ DoWrite(msg_queue_', writing_)
    /\ UNCHANGED <<dead_, notified, accepted, wire, replies>>

\* Mutant: a message written stays in the queue.
RunWrote_NoPop ==
    /\ RunNext("wrote")
    /\ ~dead_
    /\ Head(strand).ok
    /\ io' = "read"
    /\ UNCHANGED <<msg_queue_, writing_, dead_, notified, accepted, wire,
                   replies>>

RunWrote ==
    /\ RunNext("wrote")
    /\ \/ /\ dead_
          /\ UNCHANGED <<msg_queue_, writing_, dead_, io, notified>>
       \/ /\ ~dead_
          /\ Head(strand).ok
          /\ msg_queue_' = Tail(msg_queue_)
          /\ io' = "read"
          /\ UNCHANGED <<writing_, dead_, notified>>
       \/ /\ ~dead_
          /\ ~Head(strand).ok
          /\ writing_' = FALSE
          /\ Disconnect(TRUE)
          /\ UNCHANGED <<msg_queue_, io>>
    /\ UNCHANGED <<accepted, wire, replies>>

\* Mutant: a line read after close() is consumed as if nothing had happened.
RunRead_AfterDeath ==
    /\ RunNext("read")
    /\ Head(strand).ok
    /\ replies' = replies + 1
    /\ DoWrite(msg_queue_, writing_)
    /\ UNCHANGED <<dead_, notified, msg_queue_, accepted, wire>>

\* Mutant: the cycle stops after the reply.
RunRead_NoResume ==
    /\ RunNext("read")
    /\ ~dead_
    /\ Head(strand).ok
    /\ replies' = replies + 1
    /\ UNCHANGED <<writing_, io, dead_, notified, msg_queue_, accepted, wire>>

RunRead ==
    /\ RunNext("read")
    /\ \/ /\ dead_
          /\ UNCHANGED <<writing_, dead_, io, replies, notified>>
       \/ /\ ~dead_
          /\ Head(strand).ok
          /\ replies' = replies + 1
          /\ DoWrite(msg_queue_, writing_)
          /\ UNCHANGED <<dead_, notified>>
       \/ /\ ~dead_
          /\ ~Head(strand).ok
          /\ writing_' = FALSE
          /\ Disconnect(TRUE)
          /\ UNCHANGED <<io, replies>>
    /\ UNCHANGED <<msg_queue_, accepted, wire>>

RunHandler == RunPush \/ RunClose \/ RunWrote \/ RunRead

Next ==
    \/ \E m \in Message : PushMessage(m)
    \/ \E nr \in BOOLEAN : Close(nr)
    \/ WriteCompletes
    \/ ReadCompletes
    \/ RunHandler

Spec == Init /\ [][Next]_vars

\* The io threads keep running the handlers that are ready.  Nothing is
\* assumed of the network: no operation has a timeout.
Fairness == WF_vars(RunHandler)

FairSpec == Spec /\ Fairness

-----------------------------------------------------------------------------
(* Properties.                                                             *)

\* Every variable holds a value of its kind; the manager is called back at
\* most once, since on_connection_closed erases by key.
TypeOK ==
    /\ strand \in Seq(Handler)
    /\ msg_queue_ \in Seq(Message)
    /\ writing_ \in BOOLEAN
    /\ dead_ \in BOOLEAN
    /\ io \in {"none", "write", "read"}
    /\ accepted \in Seq(Message)
    /\ wire \in Seq(Message)
    /\ replies \in Nat
    /\ notified \in {<<>>} \cup {<<nr>> : nr \in BOOLEAN}

Completion(h) == h.kind \in {"wrote", "read"}

Outstanding == io # "none" \/ \E i \in DOMAIN strand : Completion(strand[i])

\* At most one operation is ever between its start and the end of its
\* completion handler: asio forbids two writes or two reads on one stream,
\* and nothing but the flag writing_ prevents them here.
SingleFlight ==
    /\ io # "none" => \A i \in DOMAIN strand : ~Completion(strand[i])
    /\ \A i, j \in DOMAIN strand :
          Completion(strand[i]) /\ Completion(strand[j]) => i = j

\* No message is left behind: while the connection lives, writing_ is true
\* exactly when the cycle really runs, and a non-empty queue is being worked
\* on.  A push that finds the cycle ending must not miss it.
NoStall ==
    ~dead_ => /\ writing_ <=> Outstanding
              /\ msg_queue_ # <<>> => writing_

\* The next message is written only after a reply line was consumed for each
\* earlier one: requests are never pipelined.
HalfDuplex == Len(wire) <= replies + 1

\* The manager hears of the end of every connection, whoever ended it.
EndIsReported == dead_ <=> notified # <<>>

\* While a write is in progress the buffer it was given, the front of
\* msg_queue_, is neither popped nor moved by a push.
FrontStable ==
    [][io = "write" /\ io' = "write" =>
         msg_queue_ # <<>> /\ Head(msg_queue_') = Head(msg_queue_)]_vars

\* After close() or an error, handlers still queued change nothing: no new
\* operation, no message, no second callback.
QuietAfterDeath ==
    [][dead_ => /\ dead_'
                /\ UNCHANGED <<msg_queue_, wire, replies, notified>>
                /\ io' \in {io, "none"}]_vars

\* The connection implements the ordered, exactly-once sender.
Sender == INSTANCE OrderedSender
            WITH delivered <- wire, open <- ~dead_

SenderSpec == Sender!Spec

\* Every message accepted is written in the end, unless the connection dies,
\* provided that no single operation hangs for ever: a peer that takes a
\* message and never answers stops the queue, which has no read timeout.
PeerServes == []<>(io = "none")

Flushed ==
    PeerServes => \A n \in 1..MaxMessages :
                      Len(accepted) >= n ~> (Len(wire) >= n \/ dead_)
=============================================================================
