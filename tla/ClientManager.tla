--------------------------- MODULE ClientManager ---------------------------
(***************************************************************************)
(* The ClientManager of client2.0.cpp (client1.0.cpp has the same one      *)
(* without event types): it opens a connection for each key, registers it  *)
(* when connected, and reconnects it when it is lost.                      *)
(*                                                                         *)
(* A lineage is what one do_connect starts: a connection attempt, the      *)
(* connection, the callback that ends it, the retry timer, and the next    *)
(* attempt of that timer, with one Connection object at a time.  Lineages  *)
(* run on the io threads; the public operations run on a caller's thread,  *)
(* whose remaining calls are `script'.  A step is one section under mtx_   *)
(* or one handler of a connection's strand.                                *)
(*                                                                         *)
(* Of a Connection only what the manager sees is kept here: the requests   *)
(* posted to its strand, and whether its write/read cycle runs, without    *)
(* which it notices no error.  Module Connection has the rest.             *)
(***************************************************************************)
EXTENDS Naturals, Sequences, FiniteSets

CONSTANTS
    Key,            \* "ip:port" of the servers
    EventType,      \* event types
    DefaultType,    \* EVENT_A, the type in a default-constructed ConnInfo
    Lineage,        \* identities for the lineages the program starts
    None,           \* no connection, no ConnInfo
    Scripts,        \* the sequences of calls a caller may make
    MaxStrand       \* bound on the requests waiting in a strand

Info == [auto : BOOLEAN, type : EventType]

\* Calls of the caller's thread.  "connect" and "clear" are the later lock
\* sections of add_connection and reload_connections; "run" starts the io
\* threads, when the caller is main.
AddCall     == [op : {"add"}, key : Key, info : Info]
ConnectCall == [op : {"connect"}, key : Key, type : EventType]
CloseCall   == [op : {"close"}, key : Key]
ReloadCall  == [op : {"reload"}, params : Seq(AddCall)]
Call == AddCall \cup ConnectCall \cup CloseCall \cup ReloadCall
            \cup [op : {"clear", "run"}]

ASSUME ConstantsAssumption ==
    /\ IsFiniteSet(Key)
    /\ DefaultType \in EventType
    /\ None \notin Info \cup Lineage \cup Key \cup EventType
    /\ Scripts \subseteq Seq(Call)
    /\ MaxStrand \in Nat

VARIABLES
    script,         \* the calls still to be made, the current one first
    conn_infos_,    \* key -> parameters
    connections_,   \* key -> the lineage whose connection is registered
    phase,          \* where each lineage is
    lkey,           \* its key and event type: arguments of do_connect
    ltype,
    need,           \* need_reconnect, while its callback runs
    snap,           \* the callback's local copy `info'
    strand,         \* requests waiting in its connection's strand
    busy,           \* its connection's write/read cycle is running
    aborted         \* an exception nobody catches has ended the process

lineageVars == <<lkey, ltype, need, snap>>
vars == <<script, conn_infos_, connections_, phase, lineageVars, strand, busy,
          aborted>>

\* "open" until dead_ is set, "lost" until on_connection_closed has erased the
\* connection, "erased" until it has decided whether to reconnect.
Phase == {"idle", "connecting", "open", "lost", "erased", "backoff", "done"}

DefaultInfo == [auto |-> TRUE, type |-> DefaultType]

Init ==
    /\ script \in Scripts
    /\ conn_infos_ = [k \in Key |-> None]
    /\ connections_ = [k \in Key |-> None]
    /\ phase = [l \in Lineage |-> "idle"]
    /\ lkey = [l \in Lineage |-> None]
    /\ ltype = [l \in Lineage |-> None]
    /\ need = [l \in Lineage |-> FALSE]
    /\ snap = [l \in Lineage |-> None]
    /\ strand = [l \in Lineage |-> <<>>]
    /\ busy = [l \in Lineage |-> FALSE]
    /\ aborted = FALSE

-----------------------------------------------------------------------------
(* Helpers.                                                                *)

Calling(op) == script # <<>> /\ Head(script).op = op

\* The io threads are running.
Running == \A i \in DOMAIN script : script[i].op # "run"

\* An unregistered connection with no request and no operation pending has no
\* owner left: the object is destroyed, and its end is reported to nobody.
Destroyed(l) ==
    /\ phase[l] = "open"
    /\ connections_'[lkey[l]] # l
    /\ strand[l] = <<>>
    /\ ~busy'[l]

\* The phases after a step that moves l to p, and drops references.
Advance(l, p) ==
    phase' = [m \in Lineage |-> IF m = l THEN p
                                ELSE IF Destroyed(m) THEN "done"
                                ELSE phase[m]]

\* Mutant: a missing entry is connected to as it is.
DoConnect_NoThrow(l, key, type) ==
    /\ conn_infos_' = [conn_infos_ EXCEPT ![key] =
                          IF @ = None THEN DefaultInfo ELSE @]
    /\ phase' = [phase EXCEPT ![l] = "connecting"]
    /\ lkey' = [lkey EXCEPT ![l] = key]
    /\ ltype' = [ltype EXCEPT ![l] = type]
    /\ UNCHANGED aborted

\* do_connect by lineage l.  conn_infos_[key] creates a missing entry with an
\* empty address, which from_string then throws on.
DoConnect(l, key, type) ==
    /\ conn_infos_' = [conn_infos_ EXCEPT ![key] =
                          IF @ = None THEN DefaultInfo ELSE @]
    /\ aborted' = (conn_infos_[key] = None)
    /\ phase' = [phase EXCEPT ![l] =
                    IF conn_infos_[key] = None THEN "done" ELSE "connecting"]
    /\ lkey' = [lkey EXCEPT ![l] = key]
    /\ ltype' = [ltype EXCEPT ![l] = type]

\* A request is posted to the connections of the lineages in ls, dead or not;
\* its handler tests dead_ first and returns on a dead connection.  Only those
\* of live ones are kept, here and in Die: the others would have no effect.
Post(ls, request) ==
    /\ \A l \in ls : Len(strand[l]) < MaxStrand
    /\ strand' = [l \in Lineage |-> IF l \in ls /\ phase[l] = "open"
                                    THEN Append(strand[l], request)
                                    ELSE strand[l]]

Registered(ks) == {connections_[k] : k \in ks} \ {None}

-----------------------------------------------------------------------------
(* Operations of the caller's thread.                                      *)

StartThreads ==
    /\ Calling("run")
    /\ script' = Tail(script)
    /\ UNCHANGED <<conn_infos_, connections_, phase, lineageVars, strand, busy,
                   aborted>>

AddConnection ==
    /\ Calling("add")
    /\ LET c == Head(script) IN
          /\ conn_infos_' = [conn_infos_ EXCEPT ![c.key] = c.info]
          /\ script' = <<[op |-> "connect", key |-> c.key,
                          type |-> c.info.type]>> \o Tail(script)
    /\ UNCHANGED <<connections_, phase, lineageVars, strand, busy, aborted>>

Connect(l) ==
    /\ Calling("connect")
    /\ phase[l] = "idle"
    /\ DoConnect(l, Head(script).key, Head(script).type)
    /\ script' = Tail(script)
    /\ UNCHANGED <<connections_, need, snap, strand, busy>>

\* Mutant: the lost connection may still be reconnected.
CloseConnection_KeepsAuto ==
    /\ Calling("close")
    /\ Post(Registered({Head(script).key}), "close")
    /\ script' = Tail(script)
    /\ UNCHANGED <<conn_infos_, connections_, phase, lineageVars, busy,
                   aborted>>

CloseConnection ==
    /\ Calling("close")
    /\ LET k == Head(script).key IN
          /\ conn_infos_' = IF conn_infos_[k] = None THEN conn_infos_
                            ELSE [conn_infos_ EXCEPT ![k].auto = FALSE]
          /\ Post(Registered({k}), "close")
    /\ script' = Tail(script)
    /\ UNCHANGED <<connections_, phase, lineageVars, busy, aborted>>

\* reload_connections takes the keys under the lock, then closes each, clears
\* conn_infos_, and adds the new parameters, in separate lock sections.
ReloadConnections ==
    /\ Calling("reload")
    /\ LET keys == {k \in Key : connections_[k] # None}
           n == Cardinality(keys)
       IN \E order \in [1..n -> keys] :
             /\ \A i, j \in 1..n : order[i] = order[j] => i = j
             /\ script' = [i \in 1..n |-> [op |-> "close", key |-> order[i]]]
                             \o <<[op |-> "clear"]>>
                             \o Head(script).params \o Tail(script)
    /\ UNCHANGED <<conn_infos_, connections_, phase, lineageVars, strand, busy,
                   aborted>>

ClearInfos ==
    /\ Calling("clear")
    /\ conn_infos_' = [k \in Key |-> None]
    /\ script' = Tail(script)
    /\ UNCHANGED <<connections_, phase, lineageVars, strand, busy, aborted>>

Caller ==
    \/ StartThreads
    \/ AddConnection
    \/ \E l \in Lineage : Connect(l)
    \/ CloseConnection
    \/ ReloadConnections
    \/ ClearInfos

\* send_message for one key, the timer of start_send_loop for all of them.
SendMessages ==
    /\ \E ks \in {{k} : k \in Key} \cup {Key} :
          Registered(ks) # {} /\ Post(Registered(ks), "push")
    /\ UNCHANGED <<script, conn_infos_, connections_, phase, lineageVars, busy,
                   aborted>>

-----------------------------------------------------------------------------
(* Steps of a lineage on the io threads.                                   *)

\* The handler of async_connect succeeds: it replaces whatever connection is
\* registered for the key.
Connected(l) ==
    /\ phase[l] = "connecting"
    /\ connections_' = [connections_ EXCEPT ![lkey[l]] = l]
    /\ UNCHANGED <<script, conn_infos_, lineageVars, strand, busy, aborted>>
    /\ Advance(l, "open")

\* ... or fails, and retries whatever auto_reconnect says.
ConnectFailed(l) ==
    /\ phase[l] = "connecting"
    /\ phase' = [phase EXCEPT ![l] = "backoff"]
    /\ UNCHANGED <<script, conn_infos_, connections_, lineageVars, strand,
                   busy, aborted>>

\* A push starts the cycle, or finds it running.
RunPush(l) ==
    /\ phase[l] = "open"
    /\ strand[l] # <<>> /\ Head(strand[l]) = "push"
    /\ strand' = [strand EXCEPT ![l] = Tail(@)]
    /\ busy' = [busy EXCEPT ![l] = TRUE]
    /\ UNCHANGED <<script, conn_infos_, connections_, phase, lineageVars,
                   aborted>>

CycleEnds(l) ==
    /\ phase[l] = "open"
    /\ busy[l]
    /\ busy' = [busy EXCEPT ![l] = FALSE]
    /\ UNCHANGED <<script, conn_infos_, connections_, lineageVars, strand,
                   aborted>>
    /\ Advance(l, IF strand[l] = <<>> /\ connections_[lkey[l]] # l
                  THEN "done" ELSE "open")

\* The connection dies: dead_ is set, the socket closed, its callback is about
\* to be entered; handlers still queued find dead_ set and return.
Die(l, need_reconnect) ==
    /\ phase' = [phase EXCEPT ![l] = "lost"]
    /\ need' = [need EXCEPT ![l] = need_reconnect]
    /\ strand' = [strand EXCEPT ![l] = <<>>]
    /\ busy' = [busy EXCEPT ![l] = FALSE]
    /\ UNCHANGED <<script, conn_infos_, connections_, lkey, ltype, snap,
                   aborted>>

\* Mutant: the socket is left open, and the operation on it outstanding.
RunClose_LeavesSocket(l) ==
    /\ phase[l] = "open"
    /\ strand[l] # <<>> /\ Head(strand[l]) = "close"
    /\ phase' = [phase EXCEPT ![l] = "lost"]
    /\ need' = [need EXCEPT ![l] = FALSE]
    /\ strand' = [strand EXCEPT ![l] = <<>>]
    /\ UNCHANGED <<script, conn_infos_, connections_, lkey, ltype, snap, busy,
                   aborted>>

RunClose(l) ==
    /\ phase[l] = "open"
    /\ strand[l] # <<>> /\ Head(strand[l]) = "close"
    /\ Die(l, FALSE)

RunError(l) ==
    /\ phase[l] = "open"
    /\ busy[l]
    /\ Die(l, TRUE)

\* Mutant: the parameters are taken from a fresh ConnInfo, as if none were
\* found.
EraseClosed_Default(l) ==
    /\ phase[l] = "lost"
    /\ connections_' = [connections_ EXCEPT ![lkey[l]] = None]
    /\ snap' = [snap EXCEPT ![l] = DefaultInfo]
    /\ UNCHANGED <<script, conn_infos_, lkey, ltype, need, strand, busy,
                   aborted>>
    /\ Advance(l, "erased")

\* Mutant: the dead connection stays registered.
EraseClosed_Keeps(l) ==
    /\ phase[l] = "lost"
    /\ snap' = [snap EXCEPT ![l] = IF conn_infos_[lkey[l]] = None
                                   THEN DefaultInfo
                                   ELSE conn_infos_[lkey[l]]]
    /\ phase' = [phase EXCEPT ![l] = "erased"]
    /\ UNCHANGED <<script, connections_, conn_infos_, lkey, ltype, need,
                   strand, busy, aborted>>

\* First lock section of on_connection_closed: it erases by key, whichever
\* connection is registered there, and copies the parameters.
EraseClosed(l) ==
    /\ phase[l] = "lost"
    /\ connections_' = [connections_ EXCEPT ![lkey[l]] = None]
    /\ snap' = [snap EXCEPT ![l] = IF conn_infos_[lkey[l]] = None
                                   THEN DefaultInfo
                                   ELSE conn_infos_[lkey[l]]]
    /\ UNCHANGED <<script, conn_infos_, lkey, ltype, need, strand, busy,
                   aborted>>
    /\ Advance(l, "erased")

\* Mutant: the switch is read the wrong way round.
WillRetry_Inverted(l) == need[l] /\ ~snap[l].auto

WillRetry(l) == need[l] /\ snap[l].auto

\* Mutant: the parameters are dropped even if the key is to be retried.
FinishClosed_DropsInfo(l) ==
    /\ phase[l] = "erased"
    /\ conn_infos_' = [conn_infos_ EXCEPT ![lkey[l]] = None]
    /\ phase' = [phase EXCEPT ![l] = IF WillRetry(l) THEN "backoff"
                                                     ELSE "done"]
    /\ ltype' = [ltype EXCEPT ![l] = IF WillRetry(l) THEN snap[l].type ELSE @]
    /\ need' = [need EXCEPT ![l] = FALSE]
    /\ snap' = [snap EXCEPT ![l] = None]
    /\ UNCHANGED <<script, connections_, lkey, strand, busy, aborted>>

\* The rest of it: start the retry timer with the copied parameters, or drop
\* those of the key.
FinishClosed(l) ==
    /\ phase[l] = "erased"
    /\ \/ /\ WillRetry(l)
          /\ phase' = [phase EXCEPT ![l] = "backoff"]
          /\ ltype' = [ltype EXCEPT ![l] = snap[l].type]
          /\ UNCHANGED conn_infos_
       \/ /\ ~WillRetry(l)
          /\ phase' = [phase EXCEPT ![l] = "done"]
          /\ conn_infos_' = [conn_infos_ EXCEPT ![lkey[l]] = None]
          /\ UNCHANGED ltype
    /\ need' = [need EXCEPT ![l] = FALSE]
    /\ snap' = [snap EXCEPT ![l] = None]
    /\ UNCHANGED <<script, connections_, lkey, strand, busy, aborted>>

RetryTimer(l) ==
    /\ phase[l] = "backoff"
    /\ DoConnect(l, lkey[l], ltype[l])
    /\ UNCHANGED <<script, connections_, need, snap, strand, busy>>

Handlers(l) ==
    RunPush(l) \/ RunClose(l) \/ EraseClosed(l) \/ FinishClosed(l)
        \/ RetryTimer(l)

Io(l) ==
    \/ Connected(l)
    \/ ConnectFailed(l)
    \/ CycleEnds(l)
    \/ RunError(l)
    \/ Handlers(l)

Next ==
    /\ ~aborted
    /\ \/ Caller
       \/ Running /\ SendMessages
       \/ Running /\ \E l \in Lineage : Io(l)

Spec == Init /\ [][Next]_vars

\* The io threads run handlers that are ready and timers that have expired.
\* Nothing is assumed of the network or of the caller.
Fairness ==
    \A l \in Lineage : WF_vars(~aborted /\ Running /\ Handlers(l))

FairSpec == Spec /\ Fairness

-----------------------------------------------------------------------------
(* Properties.                                                             *)

Alive(l) == phase[l] \in {"connecting", "open", "lost", "erased", "backoff"}

\* Every variable holds a value of its kind; a lineage has a key and a type as
\* soon as it is started, and a copy of the parameters exactly between the two
\* lock sections of its callback.
TypeOK ==
    /\ script \in Seq(Call)
    /\ conn_infos_ \in [Key -> Info \cup {None}]
    /\ connections_ \in [Key -> Lineage \cup {None}]
    /\ phase \in [Lineage -> Phase]
    /\ lkey \in [Lineage -> Key \cup {None}]
    /\ ltype \in [Lineage -> EventType \cup {None}]
    /\ need \in [Lineage -> BOOLEAN]
    /\ snap \in [Lineage -> Info \cup {None}]
    /\ strand \in [Lineage -> Seq({"push", "close"})]
    /\ busy \in [Lineage -> BOOLEAN]
    /\ aborted \in BOOLEAN
    /\ \A l \in Lineage :
          /\ phase[l] # "idle" <=> lkey[l] # None
          /\ ltype[l] # None <=> lkey[l] # None
          /\ phase[l] = "erased" <=> snap[l] # None
          /\ (strand[l] # <<>> \/ busy[l]) => phase[l] = "open"

\* Whatever is in connections_ under a key is a connection of that key that
\* was established, and whose callback has not erased the key yet: a message
\* is never pushed into the connection of another server.
RegistrySound ==
    \A k \in Key : connections_[k] # None =>
        /\ lkey[connections_[k]] = k
        /\ phase[connections_[k]] \in {"open", "lost"}

\* The manager never loses hold of a connection: while one is established it
\* is registered, where send_message and close_connection find it, and while
\* its lineage lives the parameters to reconnect it are there.
Tracked(l) ==
    /\ phase[l] = "open" => connections_[lkey[l]] = l
    /\ Alive(l) => conn_infos_[lkey[l]] # None

\* A caller that adds each key once, closes as it likes, and never reloads.
Disciplined ==
    \A s \in Scripts :
        /\ \A i \in DOMAIN s : s[i].op \in {"add", "close", "run"}
        /\ \A i, j \in DOMAIN s :
              s[i].op = "add" /\ s[j].op = "add" /\ s[i].key = s[j].key => i = j

\* For disciplined callers.
AllTracked == \A l \in Lineage : Tracked(l)

\* No attempt to connect finds its parameters gone, which would end the
\* process: nothing catches what from_string throws on an io thread.
NoAbort == ~aborted

RetryOff(l) ==
    /\ lkey[l] # None
    /\ conn_infos_[lkey[l]] # None
    /\ ~conn_infos_[lkey[l]].auto

\* close_connection is final when the parameters of the connection have not been
\* copied yet: once reconnection is off for a connection established, or lost
\* and still registered, the lineage never tries again, even if an error comes
\* before the close request and asks for a retry.  (After the copy, the copy
\* decides: a close_connection between the two lock sections stops no retry.)
CloseIsFinal ==
    \A l \in Lineage :
        [](phase[l] \in {"open", "lost"} /\ RetryOff(l)
             => [](phase[l] \notin {"backoff", "connecting"}))

\* A close request is carried out: the connection ends, and so does its
\* lineage.
CloseTakesEffect ==
    \A l \in Lineage :
        (\E i \in DOMAIN strand[l] : strand[l][i] = "close")
            ~> phase[l] = "done"

\* A connection lost to an error is tried again, unless reconnection is off.
Reconnects ==
    \A l \in Lineage :
        phase[l] = "lost" /\ need[l]
            ~> (phase[l] = "connecting" \/ RetryOff(l))
=============================================================================
