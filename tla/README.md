# Formal models of the zf network programs

This directory holds TLA+ models of the concurrent programs of the repository,
the TLC configurations that check them on small instances, and proofs, checked
by TLAPS, of their most important properties for instances of every size.

The repository is a collection of independent C++ programs, most of them
variations on one theme: messages handed in by some thread are sent over TCP
connections by boost.asio handlers. Its most developed program is
`src/client2.0.cpp` (`src/client1.0.cpp` is its predecessor), and it is the
core of the models. Comments in the source are quoted in translation.

To run: `tlc -config <run>.cfg <module>` for a run, `tlapm <module>Proofs.tla`
for proofs. `PROJECT.json` lists the runs, a mutant per property, the source
lines of every definition, the hazards, the findings and the theorems.

## 1. Inventory

### 1.1 client2.0.cpp / client1.0.cpp: the asynchronous line client

| part | state | operations | who calls it |
|---|---|---|---|
| `Connection` | `strand_`, `msg_queue_`, `writing_`, `dead_`, `socket_`, `event_msgs_` (+ `event_mtx_`) | `start`, `push_message`, `close`, `do_write`, `do_read`, `handle_disconnect`; `enqueue_event`, `fetch_and_clear_events` | any thread posts `push_message`/`close` to the strand; asio runs the completion handlers; the manager uses the event queue |
| `ClientManager` | `connections_`, `conn_infos_` under `mtx_`; one timer per retry | `add_connection`, `close_connection`, `reload_connections`, `send_message`, `start_send_loop`, `on_connection_closed`, `do_connect`, `retry_connect_later`; `on_redis_event`, `dispatch_events` | main, the io threads, the publishing and the dispatching thread |
| `main` | the io threads and, in 2.0, a publishing and a dispatching thread | adds servers; in 1.0 a hot reload some time later | |

A connection calls the manager back when it dies (`on_disconnect_`); the
manager posts to the strand of a connection while it holds `mtx_`. What is hard:

- handlers of one connection interleave with calls of other threads and with
  the completions of its socket; the write/read cycle runs on one flag;
- `on_connection_closed` works in two lock sections on a copy of the parameters;
- all bookkeeping is by key, while connections of one key may overlap;
- attempts in progress and retry timers are in no table, so closing and
  reloading cannot reach them;
- a missing `conn_infos_` entry is created empty, and its address then throws on
  an io thread, which ends the process;
- publication and dispatch walk over connections that come and go.

What makes it correct: messages written once and in order, one operation at a
time, no message stranded by an idle cycle, the end reported exactly once; every
live connection registered and no other; a close is final and a loss is retried;
publication and dispatch behave as if instantaneous.

### 1.2 The queueMessage programs

| program | state | what is hard | correct when |
|---|---|---|---|
| `v2.0Client.cc` `MessageServer` + `ClientThread` | queue, flag and condition variable; one socket per message; signal handler | `stop()` runs on an io thread and clears the flag outside the mutex; `EXIT` must overtake nothing and wake the sleeper | no message dropped while running; the shutdown completes; nothing runs after `run()` |
| `v1.0Client.cc` | the same server; one shared socket and `write_messages_` | two io threads without a strand; recovery after a write error | every message written once, in order, again after a reconnection |
| `clientserver.cc` | queue, flag and condition variable; a connection per key, with its timer; a promise per write | the only io thread blocks in `future::get`; the promise is set twice; `stop()` may miss the sleeper | a write is answered once; stop returns |
| `longCon` | one socket, current server, inactivity timer | switching servers under the handlers of the previous one; messages during connecting | a message reaches the server it names |
| `v3.0Client.cc` | UDP socket, ONE TCP socket for all exchanges | a datagram arriving during an exchange closes the socket under it, and its handlers go on with the other's connection | every exchange ends; one that is alone gets its own reply; no connection is left behind |
| `v2.0Server.cc` | acceptor, flag, sessions | stop from another thread than the handlers | connections are accepted while it runs; sessions end with their clients |
| `v1.0udpClient.cc` | an atomic flag | nothing else is shared | - |

The last three are a chain: the simulator's datagrams go to the client on UDP port
12345, and the client forwards each to the server on TCP port 8080, which
answers and closes.

### 1.3 Other parts

- `chunk.cpp`: reads an HTTP response, of known length or chunked; the bytes may
  arrive in any pieces, also ahead of the read that asks for them.
- `xx`, `yy`: mailboxes by message type, the first with a queue per type, the
  second with two buffers per type that are swapped when read; each has a mutex
  per type, and none for the map of types.
- `stream/0819asysct.cc`: a message handler with an idle timeout.
- `fuck` (road network check), `2` (GNSS header), `stream/1.cc`, `2.cc`, `5.cc`,
  `6.cc`, `comomand.cc` (flash and disk usage): sequential algorithms.
- `stream/server.cpp`, `client.cpp`, `shortConnection/`,
  `basicNetworkConnection/`, `fiveSeconds/`, `generateXml.cpp`, `11`, `ss`:
  one-shot exchanges, exercises, formatting and scripts, without a state worth a
  model. `stream/` also holds copies of the other directories.

The `hazards` of `PROJECT.json` list, line by line, what in all of this is hard
to test.

## 2. Modules

| module | models | role |
|---|---|---|
| `OrderedSender` | what a connection promises | abstract specification |
| `Connection` | class `Connection`, without its events | detailed; implements `OrderedSender` |
| `ConnectionProofs` | | theorems about `Connection` |
| `ClientManager` | class `ClientManager`, without events | component |
| `HotReload` | `main` of client1.0.cpp on `ClientManager` | composition |
| `ClientManagerProofs` | | theorems about the two |
| `EventBoard` | what publishing and dispatching promise | abstract specification |
| `EventBus` | the event side of both classes, with its threads | detailed; implements `EventBoard` |
| `EventBusProofs` | | theorems about `EventBus` |
| `MessageServer` | `v2.0Client.cc` | component |
| `MessageServerProofs` | | theorems about `MessageServer` |
| `Tcp` | the connections between client and server | environment of the next two |
| `SessionServer` | `v2.0Server.cc` | component |
| `Forwarder` | `v3.0Client.cc` | component |
| `Forwarding` | the two with `v1.0udpClient.cc` | composition |
| `ForwardingProofs` | | theorems about `Forwarding` |
| `ConnectionPool` | `clientserver.cc` | component |
| `ConnectionPoolProofs` | | theorems about `ConnectionPool` |
| `LongConnection` | `longCon` | component |
| `LongConnectionProofs` | | theorems about `LongConnection` |
| `ResponseReader` | `chunk.cpp` | component |
| `ResponseReaderProofs` | | theorems about `ResponseReader` |
| `MC...` | | instances for TLC |

Definitions named `X_Something` are mutants: `X` with a bug somebody could have
written. They are in no next-state relation; each shows that a property would
notice that bug.

### Connection

The strand runs one handler at a time, so a handler is one action; `strand` is
the FIFO of handlers ready to run. `push_message` and `close` append to it, and
so does asio when the operation in `io` completes. `accepted`, `wire`, `replies`
and `notified` are history: messages queued, messages written, lines read,
callbacks made. `dead_` and the closing of the socket are one variable, because
the code changes them in one handler; on a closed socket an operation completes
with an error. A line that has been read before the close completes normally
afterwards, which is why the completion handlers test `dead_`.

A message is *delivered*, for `OrderedSender`, when its write completes; it
leaves `msg_queue_` in the handler that runs later. This delay is what the
refinement has to bridge.

### ClientManager and HotReload

A *lineage* is what one `do_connect` starts: attempt, connection, callback,
retry timer, next attempt. `phase` says where each lineage is, and the two
lock sections of `on_connection_closed` are two actions with the local copy in
`snap` between them. Public calls are made by one caller's thread, as a script
of calls; `reload_connections` unfolds into the lock sections it consists of,
and io threads run between them. `add_connection` is two sections too. `aborted`
is the exception of `from_string` on a missing entry, after which nothing
happens. A connection is reduced to what the manager sees of it: pending
requests and whether its cycle runs; without a running cycle it notices no
error. A connection that is unregistered, idle and without requests has lost its
last `shared_ptr` and disappears without a callback (`Destroyed`). What the
manager relies on is what `Connection` shows: an end is reported once
(`EndIsReported`, `TypeOK`), and a dead connection does nothing (`QuietAfterDeath`).

`HotReload` gives `main` of client1.0.cpp: add, run, reload with other servers.

### EventBus

`mtx_` says which of the two threads is in its call; each connection reached in
the walk is an action, and the fetched events are printed one by one. The io
threads register and erase connections while `mtx_` is free. In `EventBoard`
publishing and dispatching are single steps; `EventBus` implements it with each
call taking effect at the moment it takes `mtx_`: the keys not reached yet are
shown as if they had been.

### MessageServer

The message thread is followed from its loop test through the critical section
into the sleep; holding `queue_mutex_` matters only between the test of the
condition and the sleep (`falling`), the one place where it spans two steps.
`wait` may return spuriously. The two io threads, the signal and the steps of
`stop()` are separate actions, and so are the handlers of each exchange. A
message is its prefix and its data, as `processData` makes it, so that `EXIT`
received and `EXIT` queued by `stop()` are told apart exactly as in the code.

### ResponseReader

A byte is a string; the head, whose lines are only searched, is one byte, and a
size line has one hexadecimal digit. A response says where its size lines start
(`starts`), so that `WellFormed` can say without recursion what the peer sends:
each chunk's digit, ends of line and data, position by position.
`incoming` is what the network has not delivered yet. `Receive` moves any number
of bytes into the buffer: for `async_read_until` any number, as asio reads ahead,
for `async_read` with `transfer_exactly` at most what it still needs. Each
handler is one action.

### Tcp, SessionServer, Forwarder and Forwarding

A connection is one record: whether the client has it open, where the server is
with it, and what is under way in each direction. Closing with unread data
resets it, and the reset may overtake the reply; the network may `Break` one.

`Forwarder` keeps the socket as asio does: `socket_` is open or not, stands for a
connection or not, and has two queues of operations, the connect with the writes
behind it, and the reads. Closing it completes them all with an error (`Aborted`);
a handler whose operation had completed before keeps its result, which is how one
exchange comes to act for another. `async_connect` over the resolved endpoints
closes the socket before each attempt and takes the next endpoint after an error,
an abort included, so an exchange whose socket was taken away takes it back.
`doWrite` passes a buffer in a string that dies on return: what is not sent at
once is `Garbage`. One thread runs the handlers in the order of `ready`; reactor
events (`Receive`, `Establish`, `Arrive`) may come between any two of them, which
allows every order asio's polling does, and more. The client's `stop()` and the
end of `main` come from another thread; each is taken as one step, although its
accesses to the sockets race with the handlers'. `crossed` records which exchanges
overlapped; nothing reads it but properties.

`SessionServer` has one accept and a session per connection; four threads run
handlers, each session's one after the other. A session reads once, any part of
what has come, answers, and closes. The handler of the accept is two steps, the
test of `is_running_` (`RunAccept`, with the session it starts) and the next
`async_accept` (`NextAccept`), and so is `stop()`: the flag is cleared
(`StopServer`), then the acceptor is closed (`CloseAcceptor`). Any of these may
fall between two others; on an acceptor already closed the next accept is aborted
at once. That the two threads' calls on `acceptor_` itself are not
synchronised is left out: each call takes effect as a whole.

### ConnectionPool and LongConnection

`ConnectionPool` follows the three threads of `clientserver.cc`: main through
`stop()` to the two joins; the message thread through the test of the wait's
condition, the sleep and the four parts of `process_message`; the io thread
through its handlers, with the call of `future::get` and its return as separate
steps. The reactor is polled only while the thread is not in `get`. The `wait` of
the message thread may return spuriously (`WorkerWakes`), and is never assumed to.

`LongConnection` has the socket as in `Forwarder`, and all handlers of
`ClientThread`, which run on whatever the socket has become since. `stop()` may be
called again, as the destructor does, and the peer may go away whether or not a
read is outstanding. `written` records which message was written on a socket to
which server.

## 3. Runs

| run | states | shows |
|---|---|---|
| `connection` | 69,477 | the cycle under pushes, closes, errors and a silent peer; refinement of `OrderedSender`; `Flushed` |
| `clientmanager` | 2,155 | callers that add each key once: registered, closed for good, retried, never aborted |
| `anycaller` | 81,447 | callers that reuse keys: the registry never holds a dead or a foreign connection |
| `hotreload` | 45,590 | the reload of client1.0.cpp: the new servers are undisturbed, a connection it closes has no successor and ends, aborts come only from old lineages |
| `hotreload_comesback` | violation | an attempt in progress survives the reload |
| `eventbus` | 35,486 | events once and in order, none missed; refinement of `EventBoard`; dispatch proceeds |
| `forwarding` | 106,044 | exchanges that overlap, break off or are stopped: each ends, one that is alone gets its own reply, sessions end with their clients, and the accept loop ends with `stop()` |
| `connectionpool` | violation | the posted handler stops the one thread that could give it its result |
| `longconnection` | violation | a connect overtaken by a message for another server writes to that server |
| `messageserver` | 191,504 | shutdown against the message thread at every place; nothing lost |
| `responsereader` | 778 | bodies exact however the bytes arrive; no read but that of a chunk waits for what will not come; completion when no chunk bytes come early |
| `responsereader_chunked` | violation | a chunk that arrives with its size line is waited for again |

### Bounds

- `connection`: two payloads, so that order and repetition are visible; four
  pushes, so that two can wait behind one in exchange and one more come after the
  queue ran empty; three handlers waiting when another is posted, so that a push
  and a close can stand on both sides of a completion.
- `clientmanager`, `anycaller`, `hotreload`: as many lineages as the scripts
  start (two or three), on two or three keys. Retries start no lineage, so they
  are not bounded. Two requests may wait in a strand (one for the violation), so
  a close can follow a push and a second close a first.
- `eventbus`: two keys, two types, three publications alternating as in `main`,
  two dispatches, three registrations: a key can be registered again with
  another type between any two steps.
- `messageserver`: three messages, one signal. One message meets the test and
  the sleep, a second waits behind it, a third is in exchange.
- `forwarding`: two datagrams, so that an exchange can be taken over at every
  stage, start over, and be taken over again by the second endpoint; both
  programs may stop and any connection break at any moment.
- `connectionpool`, `longconnection`: the smallest instances with the
  disagreement: one key and two messages, two servers and two messages.
- `responsereader`: bodies empty and of known length, no chunk, one and two
  chunks, with data that look like ends of line and sizes; every way to cut them.

Deadlock checking is off: all these systems may come to rest, with scripts ended,
queues empty or connections closed. That they do not rest too early is what the
liveness properties say.

### Fairness

Only what the code schedules is fair: handlers that are ready are run by the io
threads, running threads proceed, expired timers fire, a free mutex is taken.
Nothing is assumed of callers, signals, or of the outcome of an operation.
`Connection` assumes nothing of the peer either: `Flushed` carries the premise
that no single operation hangs for ever, since the code has no read timeout. In
`MessageServer` every operation ends, in success or in an error, as TCP's own
timers see to. In `Forwarding` the io thread runs its handlers and the reactor
reports what has happened, on both sides; nothing is assumed of the simulator, of
`main`, or of the network, which may break every connection, but that a server's
`stop()` once begun goes on to its second statement. A connect ends, in success or
refusal, since both programs are on one machine. In `ConnectionPool` threads that
can go on do, and `stop()` is never assumed to be called. In `EventBus` weak
fairness of the two callers rests on their finitely many calls and on the short
lock sections of the io threads. In `ResponseReader` bytes that were sent arrive,
or the connection breaks.

## 4. What the checks found

1. **A reload does not close what is still connecting** (`hotreload_comesback`).
   The comment says "close all old connections, rebuild with the new
   parameters" (`src/client1.0.cpp:212`); attempts in progress and retry timers
   are in no table and go on. The attempt connects an old server after the
   reload; a retry timer finds its parameters cleared and aborts the process.
   `OnlyOrphansAbort` shows that nothing else aborts it, and
   `NotReplaced` that a connection the reload does see and close is gone for good,
   even when an error comes before the request and has a retry decided.
2. **Chunked responses stall** (`responsereader_chunked`). The comment says "read
   the chunk content and the ending CRLF" (`src/chunk.cpp:128`), but
   `transfer_exactly(chunk_size + 2)` does not subtract what the search for the
   size line has read ahead. `CompletesWhenPaced` gives the condition under which
   responses do complete, `BodyExact` shows that none is ever handed over wrong,
   and `NoneWaitsInVain` that no other read is ever short of bytes.

3. **A handler waits for its own thread** (`connectionpool`). The comment on
   `work_guard.reset()` says "allow the io_context to stop after it has done all
   its tasks" (`src/networkProgramming/queueMessage/clientserver.cc:199`). The
   handler posted at line 139 waits in `future::get` for a promise that only
   handlers of the same, only io thread set; when it runs before the write's
   handler, which a connection still connecting is enough for, nothing more runs
   and `main` never returns from the join. `BlockedForGood` proves that nothing
   ends the wait; `WakeupLostForGood` proves of a second way not to return, a
   notification of `stop()` that comes before the sleep, that only a spurious
   return of `wait` ends it. A third bad end,
   the exception of a promise set twice, is proved to need the write and the
   timeout of one message both (`AbortIsRaceCorrect`).
4. **A message goes to the server of the next** (`longconnection`). The comments
   say that for another server the client connects again, and that it sends when
   connected to the right one
   (`src/networkProgramming/queueMessage/longCon:26`, `:34`). A connect
   that has completed when its socket is closed still has its success; its
   handler marks the client connected and writes on the socket that by then
   connects to the other server. `DirectSendRight` proves that this handler is the
   only way: what `sendMessage` writes itself goes to the right server.
   `OvertakenOnlyCorrect` bounds the damage: the server a message is misdirected
   to is that of a later message, so a client of one server is not concerned.

Known limits of the code that no statement of it contradicts, and that the
models show or the hazards list: `close_connection` is not final once the
disconnect callback has copied the parameters, in the gap between its lock sections
as during the back-off (so `CloseIsFinal` starts from a connection established, or
lost and still registered); when a key in use
is added again, the end of the old connection unregisters the new one (so
`AllTracked` is for callers that do not, and `RegistrySound` is for all);
v1.0/v2.0 pass buffers to asynchronous writes that do not outlive the call.

## 5. Proofs

`tlapm` checks some 10,500 obligations in eight modules. The only assumptions are
those on the constants, named in the modules (`BoundsAssumption`,
`ConstantsAssumption`, `PublicationsAssumption`, ...), and two on the calls of the
program, each a premise of the theorems that need it: `Disciplined` (each key is
added once and nothing is reloaded) and `RunsMain` (the calls are those of `main`
in client1.0.cpp, for any servers). `MCClientManager` and `MCHotReload` assume
them of their scripts, so TLC checks that the instances satisfy them.
`AbortIsRaceCorrect` has the premise that the bound `MaxMessages` is a number.

**ConnectionProofs.** `CycleCorrect` proves `TypeOK`, `EndIsReported`,
`SingleFlight` and `NoStall`. They are inductive only together, and with
`FrontPresent` (`CycleInv`): a write or its unprocessed completion always has its
message at the front of the queue, else `Head` and `Tail` would be applied to
nothing. `DeliveryInv`, inductive relative to `CycleInv`, counts: on a live
connection, written plus queued messages are the accepted ones, plus one while a
successful write waits for its handler; a write is ahead of the replies by one
exactly while a reply is awaited. From it follow `HalfDuplexCorrect` and
`SenderCorrect`, the refinement of `OrderedSender`: a completed write maps to
`Deliver`, an accepting push to `Accept`, a death to `Shut`, everything else
stutters. `FrontStableCorrect` and `QuietAfterDeathCorrect` are action properties.

**ClientManagerProofs.** `TypeCorrect` and `RegistryCorrect` hold for all
callers. `DisciplineCorrect` (`AllTracked` and `NoAbort`) needs
`DisciplineInv`: the calls left concern keys no lineage has (`CallsInv`), and no
two lineages share a key (`OneLineagePerKey`), so that nothing one lineage does
by key touches another. `CloseIsFinalCorrect` then shows that `Off`, whose three
cases follow a connection through its callback, is stable: a copy taken while
reconnection is off carries the switch across the gap between the lock sections.

The program of `HotReload`, for any old and any new servers: `NewTrackedCorrect`,
`OnlyOrphansAbortCorrect` and `NotReplacedCorrect`. An old connection's callback
erases by key from tables the new connections are in, so the invariant
(`HotInv`) separates the keys: each new server is added once and met by no lineage
(`MainInv`, about the calls left), each new key has one lineage
(`OneNewLineage`), and as long as any other call is left no new lineage exists,
so that the clearing of `conn_infos_` cannot hit one. `IoFrame` says that a
lineage touches its own key's entries only, `IoOwn` that it keeps itself
tracked; together they make the io steps one argument. A step that aborts is
then a retry of a lineage that is not tracked, hence an old one.

For `NotReplaced` a request to close is followed from its posting. By then main
has neither `run` nor `reload` before it (`ReloadInv`), so nobody adds the key
again (`CloseDooms`), and its parameters have the switch off. From there `Doomed`
is stable: the parameters are off or gone, a copy in `snap` is off if they are
there, and a retry that was decided before finds them gone; it then ends the
program instead of connecting, which is the second case of `NoneFollows`. The
caller (`DoomedCaller`), the lineages of other keys and of the same key
(`DoomedOthers`), and the lineage itself (`DoomedOwn`) each leave it so.

**EventBusProofs.** `TypeCorrect`, and `BoardCorrect`: `EventBus` implements
`EventBoard`. `BusInv` adds to the types that an unregistered key has no queue
and that a publication in progress has been counted. Taking `mtx_` is
the abstract step, the walks stutter, as does printing. `InOrderCorrect` and
`NothingMissedCorrect` need `ToldInv`: the event being published is younger than
every event told, and what a connection is owed is counted separately for the
keys the walk has reached and for those it has not.

**MessageServerProofs.** `TypeCorrect`, `NothingLostCorrect`,
`WorkerOutlivesCorrect`, `ReturnIsFinalCorrect`, for any messages. `Inv` adds to
the types where each thread may be when (`ThreadsOK`) and `LossOK`: what is on
the way (posted, held, queued) is what was received, in order, but for one
`EXIT`, which is there only if `stop()` has queued it. That the message thread
outlives the flag follows from it: what ends the thread is an `EXIT`, and a
message with the prefix of `processData` is none.

**ForwardingProofs.** `TypeCorrect` and `AnswerIsMineCorrect`, for any number of
datagrams. `Inv` joins the types of all three programs with `OneOpen`: which
connection a close hangs up depends on what `socket_` holds, so `socket_.conn` has
to be the only open one for the close to leave none; and what handlers do to
`socket_` depends on `ready`, whose completions have to belong to exchanges that
exist. `AcceptorOK` says that nothing waits on an acceptor that is closed and that
only `stop()` closes it, which each order of the statements of `stop()` and of the
accept's handler has to keep. `AnswerIsMine` needs two more. `OperationsOK`: no
operation stands twice in `ready`, in the queues of `socket_` or in `inbox`, and
each is of the kind its exchange is at the stage of, so an exchange has at most
one and one that has ended has none. `AloneOK`: while an exchange no other
overlapped is active it is the only one, nothing is on its connection but what it
has sent or the reply to that, and a successful read waiting in `ready` holds its
reply. The operations are treated as sets of names (`Keys`), so that aborting,
completing and queueing them become set equations, proved once in the lemmas on
sequences.

**ResponseReaderProofs.** `BodyExactCorrect` and `NoneWaitsInVainCorrect`, for any
set of well-formed responses (`ResponseAssumption`), any number of chunks of up to
15 bytes (size lines of one digit), and any way the bytes arrive. `BodyExact`
alone is not inductive: whether the next bytes are a size line or data depends on
how many were taken out. `ReaderInv` therefore says that what was taken, the
buffer and what is still to come are the response, byte by byte (`StreamInv`), and
for each read in progress where in the response the buffer starts and what of the
content the body has. Positions come from `starts`, so no step needs the recursion
that splitting a response would. A chunk read that asks for too much has still the
chunk at the front of its buffer, which is why the code can stall but not hand
over a wrong body.

**ConnectionPoolProofs, LongConnectionProofs.** These components have a
disagreement for a run, and theorems on its extent. `Blocked` (the io thread is in
`get` and the promise is not set) and `Asleep` (the message thread sleeps and
`stop()` has notified) are stable, the first under every step, the second under
every step but the spurious return of `wait`, which the theorem excludes; while
they hold `main` does not return. `AbortIsRaceCorrect` needs `PoolInv`: messages
are taken in order (`QueueInv`), so writes and timers are of messages already
begun (`BegunInv`) and each is outstanding once (`OnceInv`); then a promise set
before its write is handled was set by its timeout, which is spent (`RaceInv`).
What a step does to one message is summed up in `MessageStep`, from which two of
these parts follow for every action at once. `SocketIsCurrent` (an open socket
goes to `current`) is inductive, and gives `DirectSendRight`. `LatestInv` adds
that `current` is the server of the last message handled, that those waiting are
later ones in order, and that connects are of messages no later; from it
`OvertakenOnlyCorrect` follows. The three are not properties of a run: the runs of
these components have the one property that fails.

**Only model-checked.** All liveness (`Flushed`, `CloseTakesEffect`, `Reconnects`,
`OldClosed`, `Dispatched`, `StopCompletes`, `AllForwarded`, `ExchangeEnds`,
`ServedAlone`, `SessionEnds`, `AcceptLoopEnds`, `CompletesWhenPaced`), which the
prover does not handle. Every invariant and action property of a passing run is
proved.

## 6. Not modelled

`PROJECT.json` gives the reason for each part. In short:

- the `ClientThread` of v1.0Client.cc: its `MessageServer` is that of v2.0Client.cc
  and is modelled there; its own part shares one socket and one deque between
  two io threads without a strand, so most of its behaviour is undefined, and
  nothing in it says what should hold;
- `xx`, `yy` and `0819asysct.cc`, each a few lines of state with one known
  defect, which the hazards name;
- the algorithms (`fuck`, `2`, flash and disk usage), sequential and covered by
  tests of inputs better than by a checker;
- content of messages and their formatting; the content of write buffers after the
  call that passed them has returned, except in `Forwarder`, where it decides
  what the server reads; data loss other than by a broken connection or a full
  or closed UDP socket; destruction of the manager while io threads run;
- the statement `it->second.` in line 151 of clientserver.cc, which does not compile:
  it stands after the wait, on the branch of a failed write.

## 7. Plan

1. `ClientThread` of v1.0Client: the shared socket and its queue, used by two
   threads without a strand, and what is left in the queue after an error.
2. An abstract mailbox with `xx` and `yy` as implementations; the idle timeout of
   `0819asysct.cc`.
3. Size lines of several digits in `ResponseReader`: their value is a recursion
   over the digits, which the runs can evaluate and the proofs cannot.
4. The algorithms as operators against reference definitions, in one run.
