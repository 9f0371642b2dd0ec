--------------------------- MODULE ConnectionPool ---------------------------
(***************************************************************************)
(* The server of clientserver.cc: main queues messages; the message thread *)
(* takes them one by one, starts the write on the connection of their key  *)
(* (created and connecting when it is the first), arms the connection's    *)
(* timer, and posts a handler that waits in future::get for the promise    *)
(* the write and the timeout set.  One io thread runs every handler, in    *)
(* the order they became ready, and no other thread sets a promise: a get  *)
(* that comes before its promise is set stops them all.                    *)
(*                                                                         *)
(* stop() sets stop_flag_ and notifies without the mutex, joins the        *)
(* message thread; main then drops the work guard and joins the io thread. *)
(* The statement of process_message that is cut off (it->second.) is left  *)
(* out: it stands after the get, on the branch of a failed write.          *)
(***************************************************************************)
EXTENDS Naturals, Sequences

CONSTANTS
    Key,            \* "ip:port"
    MaxMessages     \* bound on the messages main adds

VARIABLES
    key,            \* the key of each message added
    message_queue_,
    stop_flag_,
    worker,         \* where message_thread_ is
    held,           \* the message it processes, 0 before the first
    main,           \* where main is
    socket_,        \* the socket of each connection
    writes,         \* the writes queued behind its connect
    timer_,         \* the message whose timeout its timer waits for, or 0
    promise,        \* the promises: unset, true or false
    ready,          \* handlers ready to run
    io,             \* where the io thread is
    getting         \* the message whose future it gets, 0 before the first

queueVars == <<key, message_queue_, stop_flag_>>
threadVars == <<worker, held, main>>
connVars == <<socket_, writes, timer_>>
ioVars == <<promise, ready, io, getting>>
vars == <<queueVars, threadVars, connVars, ioVars>>

Message == 1..MaxMessages

Handler(kind, m, ok) == [kind |-> kind, m |-> m, ok |-> ok]

Init ==
    /\ key = <<>> /\ message_queue_ = <<>> /\ stop_flag_ = FALSE
    /\ worker = "loop" /\ held = 0 /\ main = "adding"
    /\ socket_ = [k \in Key |-> "none"]
    /\ writes = [k \in Key |-> <<>>]
    /\ timer_ = [k \in Key |-> 0]
    /\ promise = [m \in Message |-> "unset"]
    /\ ready = <<>> /\ io = "running" /\ getting = 0

-----------------------------------------------------------------------------
(* main.  The message thread alone holds queue_mutex_ across two steps,    *)
(* from the test of the wait's predicate to the moment it sleeps.          *)

Wake == worker' = IF worker = "waiting" THEN "woken" ELSE worker

add_message(k) ==
    /\ main = "adding" /\ worker # "falling"
    /\ Len(key) < MaxMessages
    /\ key' = Append(key, k)
    /\ message_queue_' = Append(message_queue_, Len(key) + 1)
    /\ Wake
    /\ UNCHANGED <<stop_flag_, held, main, connVars, ioVars>>

\* stop(): the flag, the notification, and the join, in turn.
StopSets ==
    /\ main = "adding" /\ main' = "notifying"
    /\ stop_flag_' = TRUE
    /\ UNCHANGED <<key, message_queue_, worker, held, connVars, ioVars>>

StopNotifies ==
    /\ main = "notifying" /\ main' = "joining"
    /\ Wake
    /\ UNCHANGED <<queueVars, held, connVars, ioVars>>

\* The message thread is joined, and main drops the work guard.
ResetGuard ==
    /\ main = "joining" /\ worker = "exited"
    /\ main' = "reset"
    /\ UNCHANGED <<queueVars, worker, held, connVars, ioVars>>

Return ==
    /\ main = "reset" /\ io = "ended"
    /\ main' = "returned"
    /\ UNCHANGED <<queueVars, worker, held, connVars, ioVars>>

-----------------------------------------------------------------------------
(* message_processing_thread.                                              *)

WorkerLoop ==
    /\ worker = "loop"
    /\ worker' = IF stop_flag_ THEN "exited" ELSE "entering"
    /\ UNCHANGED <<queueVars, held, main, connVars, ioVars>>

\* With the mutex: the predicate, and what follows when it holds.
WorkerTest ==
    /\ worker \in {"entering", "woken"}
    /\ \/ /\ stop_flag_ /\ worker' = "exited"
          /\ UNCHANGED <<message_queue_, held>>
       \/ /\ ~stop_flag_ /\ message_queue_ # <<>>
          /\ worker' = "taken"
          /\ held' = Head(message_queue_)
          /\ message_queue_' = Tail(message_queue_)
       \/ /\ ~stop_flag_ /\ message_queue_ = <<>>
          /\ worker' = "falling"
          /\ UNCHANGED <<message_queue_, held>>
    /\ UNCHANGED <<key, stop_flag_, main, connVars, ioVars>>

WorkerSleeps ==
    /\ worker = "falling" /\ worker' = "waiting"
    /\ UNCHANGED <<queueVars, held, main, connVars, ioVars>>

\* wait() may wake for no reason, and test its predicate again.
WorkerWakes ==
    /\ worker = "waiting" /\ worker' = "woken"
    /\ UNCHANGED <<queueVars, held, main, connVars, ioVars>>

\* process_message: the connection is found or created, and the write started:
\* behind the connect, sent at once, or refused at once.
StartWrite ==
    /\ worker = "taken" /\ worker' = "written"
    /\ LET k == key[held]
       IN  /\ socket_' = [socket_ EXCEPT ![k] =
                            IF @ = "none" THEN "connecting" ELSE @]
           /\ IF socket_[k] \in {"none", "connecting"}
              THEN /\ writes' = [writes EXCEPT ![k] = Append(@, held)]
                   /\ UNCHANGED ready
              ELSE /\ ready' = Append(ready, Handler("write", held,
                                                     socket_[k] = "connected"))
                   /\ UNCHANGED writes
    /\ UNCHANGED <<queueVars, held, main, timer_, promise, io, getting>>

\* expires_after aborts the wait of the message before, whose handler ignores it.
ArmTimer ==
    /\ worker = "written" /\ worker' = "armed"
    /\ timer_' = [timer_ EXCEPT ![key[held]] = held]
    /\ UNCHANGED <<queueVars, held, main, socket_, writes, ioVars>>

PostGet ==
    /\ worker = "armed" /\ worker' = "loop"
    /\ ready' = Append(ready, Handler("get", held, TRUE))
    /\ UNCHANGED <<queueVars, held, main, connVars, promise, io, getting>>

-----------------------------------------------------------------------------
(* The io thread.  Its handlers, and the events its reactor sees, which it *)
(* looks for only between handlers.                                        *)

Running(kind) == io = "running" /\ ready # <<>> /\ Head(ready).kind = kind

\* set_value, which throws when the promise is set: nothing catches that.
Set(m, value) ==
    IF promise[m] = "unset"
    THEN promise' = [promise EXCEPT ![m] = value] /\ UNCHANGED io
    ELSE io' = "aborted" /\ UNCHANGED promise

\* The handler of async_write; after an error it closes the socket, on which
\* nothing is queued any more: the connect has ended.
RunWrite ==
    /\ Running("write")
    /\ LET m == Head(ready).m
           k == key[m]
       IN  /\ Set(m, IF Head(ready).ok THEN "true" ELSE "false")
           /\ socket_' = [socket_ EXCEPT ![k] =
                            IF Head(ready).ok THEN @ ELSE "closed"]
           /\ timer_' = [timer_ EXCEPT ![k] = 0]
    /\ ready' = Tail(ready)
    /\ UNCHANGED <<queueVars, threadVars, writes, getting>>

\* The handler of the timer.
RunTimeout ==
    /\ Running("timeout")
    /\ Set(Head(ready).m, "false")
    /\ ready' = Tail(ready)
    /\ UNCHANGED <<queueVars, threadVars, connVars, getting>>

\* The posted handler: future::get, from its call to its return.
RunGet ==
    /\ Running("get")
    /\ io' = "getting" /\ getting' = Head(ready).m
    /\ ready' = Tail(ready)
    /\ UNCHANGED <<queueVars, threadVars, connVars, promise>>

GetReturns ==
    /\ io = "getting" /\ promise[getting] # "unset"
    /\ io' = "running"
    /\ UNCHANGED <<queueVars, threadVars, connVars, promise, ready, getting>>

\* The connect ends, well or not, and with it the writes queued behind it.
Establish(k) ==
    /\ io = "running" /\ socket_[k] = "connecting"
    /\ \E ok \in BOOLEAN :
          /\ socket_' = [socket_ EXCEPT ![k] =
                            IF ok THEN "connected" ELSE "failed"]
          /\ ready' = ready \o [i \in DOMAIN writes[k] |->
                                    Handler("write", writes[k][i], ok)]
    /\ writes' = [writes EXCEPT ![k] = <<>>]
    /\ UNCHANGED <<queueVars, threadVars, timer_, promise, io, getting>>

\* The peer goes: writes on this connection fail from now on.
Lose(k) ==
    /\ socket_[k] = "connected"
    /\ socket_' = [socket_ EXCEPT ![k] = "lost"]
    /\ UNCHANGED <<queueVars, threadVars, writes, timer_, ioVars>>

Expire(k) ==
    /\ io = "running" /\ timer_[k] # 0
    /\ ready' = Append(ready, Handler("timeout", timer_[k], TRUE))
    /\ timer_' = [timer_ EXCEPT ![k] = 0]
    /\ UNCHANGED <<queueVars, threadVars, socket_, writes, promise, io, getting>>

\* run() returns once the guard is dropped and no work is left.
EndIo ==
    /\ io = "running" /\ main = "reset" /\ ready = <<>>
    /\ \A k \in Key : socket_[k] # "connecting" /\ timer_[k] = 0
    /\ io' = "ended"
    /\ UNCHANGED <<queueVars, threadVars, connVars, promise, ready, getting>>

Handlers == RunWrite \/ RunTimeout \/ RunGet \/ GetReturns
Reactor == \E k \in Key : Establish(k) \/ Expire(k)
Worker == \/ WorkerLoop \/ WorkerTest \/ WorkerSleeps
          \/ StartWrite \/ ArmTimer \/ PostGet
Stop == StopNotifies \/ ResetGuard \/ Return

\* An abort ends the process, and every thread with it.
Next ==
    /\ io # "aborted"
    /\ \/ StopSets \/ Stop \/ Worker \/ WorkerWakes
       \/ Handlers \/ Reactor \/ EndIo
       \/ \E k \in Key : add_message(k) \/ Lose(k)

Spec == Init /\ [][Next]_vars

\* Threads that can go on do, a wake-up for no reason may never come, and the
\* reactor reports a connect or an expiry only once its thread polls, which it
\* does again and again between handlers.
Fairness ==
    /\ WF_vars(Next /\ Stop)
    /\ WF_vars(Next /\ Worker)
    /\ WF_vars(Next /\ Handlers)
    /\ WF_vars(Next /\ Reactor)
    /\ WF_vars(Next /\ EndIo)

FairSpec == Spec /\ Fairness

-----------------------------------------------------------------------------
\* Once main has dropped the work guard the io thread finishes the handlers it
\* has and run() returns ("reset work_guard, allow io_context to stop when it
\* has done all its tasks"); a process that aborts is left out.
ContextStops == main = "reset" ~> io \in {"ended", "aborted"}
=============================================================================
