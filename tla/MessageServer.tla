--------------------------- MODULE MessageServer ---------------------------
(***************************************************************************)
(* The forwarding server of v2.0Client.cc: any thread hands messages to    *)
(* onMessage, which queues them; the message thread (processMessages)      *)
(* takes them one by one and posts them to the io_context, where two       *)
(* threads, the client's and the server's, run the handlers that connect a *)
(* socket of its own for each message, write it and close.  A signal makes *)
(* one of these two threads run stop().                                    *)
(*                                                                         *)
(* queue_mutex_ is held by the message thread alone across two steps: from *)
(* the test of its wait condition to the moment it sleeps.  stop() sets    *)
(* is_running_ outside the mutex, and wakes it by queueing EXIT under it.  *)
(***************************************************************************)
EXTENDS Naturals, Sequences

CONSTANTS
    Data,           \* what a received message can hold; "EXIT" is a string as
                    \* good as any other
    MaxMessages     \* bound on the messages received

ASSUME DataAssumption == "EXIT" \in Data
ASSUME MaxMessagesAssumption == MaxMessages \in Nat

VARIABLES
    message_queue_, \* messages waiting for the message thread
    is_running_,    \* the flag of MessageServer
    worker,         \* where the message thread is
    held,           \* the message it has taken, in a sequence of at most one
    stopping,       \* the io thread that runs stop(), or "nobody"
    stopped,        \* io_context_.stop() has been called
    exit_sent,      \* stop() has queued EXIT
    thread,         \* where the two io threads are
    jobs,           \* each message posted and how far its exchange is
    received        \* history: the data of every message received

queueVars == <<message_queue_, received>>
workerVars == <<worker, held, jobs>>
stopVars == <<is_running_, stopping, stopped, exit_sent>>
vars == <<queueVars, workerVars, stopVars, thread>>

Thread == {"client", "server"}

\* Mutant: the data is passed on as it came.
processData_Identity(data) == [prefix |-> "", data |-> data]

processData(data) == [prefix |-> "Processed: ", data |-> data]

EXIT == [prefix |-> "", data |-> "EXIT"]

Init ==
    /\ message_queue_ = <<>>
    /\ is_running_ = TRUE
    /\ worker = "loop"
    /\ held = <<>>
    /\ stopping = "nobody"
    /\ stopped = FALSE
    /\ exit_sent = FALSE
    /\ thread = [t \in Thread |-> "starting"]
    /\ jobs = <<>>
    /\ received = <<>>

-----------------------------------------------------------------------------
(* queue_mutex_ and queue_condition_.                                      *)

MutexFree == worker # "falling"

\* Who waits for the condition wakes up.
Notify == worker' = IF worker = "waiting" THEN "woken" ELSE worker

\* Mutant: enqueueMessage does not notify.
OnMessage_Silent(data) ==
    /\ Len(received) < MaxMessages
    /\ MutexFree
    /\ received' = Append(received, data)
    /\ message_queue_' = Append(message_queue_, processData(data))
    /\ UNCHANGED <<workerVars, stopVars, thread>>

\* onMessage, with processData and enqueueMessage.
OnMessage(data) ==
    /\ Len(received) < MaxMessages
    /\ MutexFree
    /\ received' = Append(received, data)
    /\ message_queue_' = Append(message_queue_, processData(data))
    /\ Notify
    /\ UNCHANGED <<held, jobs, stopVars, thread>>

-----------------------------------------------------------------------------
(* The message thread.                                                     *)

\* The test of the while loop.
WorkerLoop ==
    /\ worker = "loop"
    /\ worker' = IF is_running_ THEN "entering" ELSE "exited"
    /\ UNCHANGED <<queueVars, held, jobs, stopVars, thread>>

\* Mutant: a message taken after the flag has been cleared is thrown away.
WorkerTest_Discards ==
    /\ worker \in {"entering", "woken"}
    /\ \/ /\ message_queue_ # <<>>
          /\ held' = IF is_running_ THEN <<Head(message_queue_)>> ELSE <<>>
          /\ message_queue_' = Tail(message_queue_)
          /\ worker' = IF is_running_ THEN "holding" ELSE "loop"
       \/ /\ message_queue_ = <<>>
          /\ worker' = IF is_running_ THEN "falling" ELSE "exited"
          /\ UNCHANGED <<message_queue_, held>>
    /\ UNCHANGED <<received, jobs, stopVars, thread>>

\* With the mutex: the wait condition, and the message taken or the loop left
\* when it holds; when it does not, the thread is about to sleep.
WorkerTest ==
    /\ worker \in {"entering", "woken"}
    /\ \/ /\ message_queue_ # <<>>
          /\ held' = <<Head(message_queue_)>>
          /\ message_queue_' = Tail(message_queue_)
          /\ worker' = "holding"
       \/ /\ message_queue_ = <<>>
          /\ worker' = IF is_running_ THEN "falling" ELSE "exited"
          /\ UNCHANGED <<message_queue_, held>>
    /\ UNCHANGED <<received, jobs, stopVars, thread>>

\* wait() releases the mutex and sleeps, in one step.
WorkerSleeps ==
    /\ worker = "falling"
    /\ worker' = "waiting"
    /\ UNCHANGED <<queueVars, held, jobs, stopVars, thread>>

\* wait() may return for no reason.
WorkerWakes ==
    /\ worker = "waiting"
    /\ worker' = "woken"
    /\ UNCHANGED <<queueVars, held, jobs, stopVars, thread>>

\* EXIT ends the thread; ClientThread::sendMessage posts any other message.
WorkerSends ==
    /\ worker = "holding"
    /\ held' = <<>>
    /\ IF held[1] = EXIT
       THEN /\ worker' = "exited"
            /\ UNCHANGED jobs
       ELSE /\ worker' = "loop"
            /\ jobs' = Append(jobs, [msg |-> held[1], state |-> "posted"])
    /\ UNCHANGED <<queueVars, stopVars, thread>>

Worker == WorkerLoop \/ WorkerTest \/ WorkerSleeps \/ WorkerSends

-----------------------------------------------------------------------------
(* The io threads and the handlers.                                        *)

\* The flag of a thread's class: that of ClientThread is cleared by its stop(),
\* together with the context.
Flag(t) == IF t = "server" THEN is_running_ ELSE ~stopped

\* A thread enters run(), unless its flag has been cleared already, and leaves
\* it when the context is stopped and the handler it runs is over.
ThreadRuns(t) ==
    /\ \/ /\ thread[t] = "starting"
          /\ thread' = [thread EXCEPT ![t] = IF Flag(t) THEN "running"
                                                         ELSE "left"]
       \/ /\ thread[t] = "running"
          /\ stopped /\ stopping # t
          /\ thread' = [thread EXCEPT ![t] = "left"]
    /\ UNCHANGED <<queueVars, workerVars, stopVars>>

\* Mutant: run() joins the client's thread only.
ServerReturns_JoinsOne ==
    /\ thread["server"] = "left"
    /\ thread["client"] = "left"
    /\ thread' = [thread EXCEPT !["server"] = "returned"]
    /\ UNCHANGED <<queueVars, workerVars, stopVars>>

\* run() joins both threads and returns.
ServerReturns ==
    /\ thread["server"] = "left"
    /\ thread["client"] = "left"
    /\ worker = "exited"
    /\ thread' = [thread EXCEPT !["server"] = "returned"]
    /\ UNCHANGED <<queueVars, workerVars, stopVars>>

\* A thread is there to run handlers.
Served == ~stopped /\ \E t \in Thread : thread[t] = "running" /\ stopping # t

\* The posted handler, the handler of async_connect, that of async_write: each
\* works on a socket of its own.
Handler(i) ==
    /\ Served
    /\ \E s \in CASE jobs[i].state = "posted"     -> {"connecting"}
                  [] jobs[i].state = "connecting" -> {"writing", "failed"}
                  [] jobs[i].state = "writing"    -> {"sent", "failed"}
                  [] OTHER                        -> {} :
          jobs' = [jobs EXCEPT ![i].state = s]
    /\ UNCHANGED <<queueVars, worker, held, stopVars, thread>>

-----------------------------------------------------------------------------
(* stop(), run by the io thread that takes the signal.                     *)

\* The exchange of is_running_; a second call returns here.
StopBegins(t) ==
    /\ thread[t] = "running" /\ ~stopped
    /\ is_running_
    /\ is_running_' = FALSE
    /\ stopping' = t
    /\ UNCHANGED <<queueVars, workerVars, stopped, exit_sent, thread>>

\* ClientThread::stop, work_guard_.reset, the sleep, io_context_.stop again.
StopContext ==
    /\ stopping # "nobody" /\ ~stopped
    /\ stopped' = TRUE
    /\ UNCHANGED <<queueVars, workerVars, is_running_, stopping, exit_sent, thread>>

\* Mutant: EXIT is not queued, the condition is only notified.
StopWakes_NoExit ==
    /\ stopped /\ ~exit_sent
    /\ exit_sent' = TRUE
    /\ stopping' = "nobody"
    /\ Notify
    /\ UNCHANGED <<queueVars, held, jobs, is_running_, stopped, thread>>

\* Mutant: EXIT is queued before the context is stopped.
StopWakes_First ==
    /\ stopping # "nobody" /\ ~exit_sent
    /\ MutexFree
    /\ message_queue_' = Append(message_queue_, EXIT)
    /\ exit_sent' = TRUE
    /\ Notify
    /\ UNCHANGED <<received, held, jobs, is_running_, stopping, stopped, thread>>

\* EXIT is queued under the mutex, and the condition notified.
StopWakes ==
    /\ stopped /\ ~exit_sent
    /\ MutexFree
    /\ message_queue_' = Append(message_queue_, EXIT)
    /\ exit_sent' = TRUE
    /\ stopping' = "nobody"
    /\ Notify
    /\ UNCHANGED <<received, held, jobs, is_running_, stopped, thread>>

Stop == StopContext \/ StopWakes

Next ==
    \/ \E data \in Data : OnMessage(data)
    \/ Worker \/ WorkerWakes
    \/ \E t \in Thread : ThreadRuns(t) \/ StopBegins(t)
    \/ ServerReturns
    \/ \E i \in DOMAIN jobs : Handler(i)
    \/ Stop

Spec == Init /\ [][Next]_vars

\* Threads run, stop() proceeds, and each exchange ends in success or in an
\* error of the system.  Messages and signals may or may not come.
Fairness ==
    /\ WF_vars(Worker) /\ WF_vars(Stop) /\ WF_vars(ServerReturns)
    /\ \A t \in Thread : WF_vars(ThreadRuns(t))
    /\ \A i \in 1..MaxMessages : WF_vars(i \in DOMAIN jobs /\ Handler(i))

FairSpec == Spec /\ Fairness

-----------------------------------------------------------------------------
(* Properties.                                                             *)

Message == {processData(d) : d \in Data} \cup {EXIT}
JobState == {"posted", "connecting", "writing", "sent", "failed"}

\* The types, and what the places of the threads mean.
TypeOK ==
    /\ message_queue_ \in Seq(Message)
    /\ is_running_ \in BOOLEAN /\ stopped \in BOOLEAN /\ exit_sent \in BOOLEAN
    /\ worker \in {"loop", "entering", "falling", "waiting", "woken", "holding",
                   "exited"}
    /\ held \in Seq(Message) /\ Len(held) = IF worker = "holding" THEN 1 ELSE 0
    /\ stopping \in Thread \cup {"nobody"}
    /\ thread \in [Thread -> {"starting", "running", "left", "returned"}]
    /\ jobs \in Seq([msg : Message, state : JobState])
    /\ received \in Seq(Data) /\ Len(received) <= MaxMessages
    /\ is_running_ => ~stopped /\ stopping = "nobody"
    /\ exit_sent => stopped

\* What has been passed on so far, and after it what is on the way to it.
OnTheWay == [i \in DOMAIN jobs |-> jobs[i].msg] \o held \o message_queue_

\* What the messages received ask for.
Expected == [i \in DOMAIN received |-> processData(received[i])]

\* A sequence without its i-th element.
Without(s, i) == [j \in 1 .. Len(s) - 1 |-> IF j < i THEN s[j] ELSE s[j + 1]]

\* Every message received is, in the order of reception, posted once, held by
\* the message thread, or waiting; whatever stops, none is dropped on the way,
\* and the one EXIT that stop() queues among them is never posted.
NothingLost ==
    \/ OnTheWay = Expected
    \/ \E i \in Len(jobs) + 1 .. Len(OnTheWay) :
          OnTheWay[i] = EXIT /\ Without(OnTheWay, i) = Expected

\* Only stop() ends the message thread: a message that reads EXIT does not.
WorkerOutlives == worker = "exited" => ~is_running_

\* When run() has returned, and the server may be destroyed, no thread of it
\* is left: nothing but the receiving thread touches it any more.
ReturnIsFinal ==
    [][thread["server"] = "returned" => UNCHANGED <<workerVars, thread, stopVars>>]_vars

\* Once stop() has begun, run() returns: the message thread is never left
\* asleep, however the signal meets its test of the condition.
StopCompletes == ~is_running_ ~> thread["server"] = "returned"

\* As long as the server is not stopped, every message received is sent, or
\* its failure is known: no notification is missed.
AllForwarded ==
    []is_running_ =>
        \A i \in 1..MaxMessages :
            Len(received) >= i ~> i \in DOMAIN jobs /\ jobs[i].state \in {"sent", "failed"}
=============================================================================
