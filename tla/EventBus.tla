------------------------------ MODULE EventBus ------------------------------
(***************************************************************************)
(* The event side of client2.0.cpp: one thread publishes (on_redis_event), *)
(* another one dispatches (dispatch_events), and the io threads register   *)
(* and erase connections meanwhile.  mtx_ is held for the whole of each    *)
(* call; the calls walk over connections_ one connection at a time, each   *)
(* access to a queue being a critical section of its event_mtx_.           *)
(* An event is its number in the order of publication.  The connections_   *)
(* are reduced to the event type of the registered connection; a           *)
(* connection that is not registered cannot be reached by this part.       *)
(***************************************************************************)
EXTENDS Naturals, Sequences

CONSTANTS
    Key,            \* keys of connections_
    Type,           \* EventType
    None,           \* no connection
    Publications,   \* the types the publishing thread publishes, in order
    Rounds,         \* how many times the dispatching thread dispatches
    MaxConnects     \* bound on the connections ever registered

ASSUME PublicationsAssumption == Publications \in Seq(Type)
ASSUME RoundsAssumption == Rounds \in Nat /\ MaxConnects \in Nat
ASSUME NoneAssumption == None \notin Type

VARIABLES
    mtx_,           \* who holds ClientManager::mtx_: a thread, or "free"
    connections_,   \* event_type_ of the connection registered, or None
    event_msgs_,    \* its queue of events
    position,       \* number of publications begun
    toPublish,      \* keys on_redis_event has not reached yet
    round,          \* number of dispatches begun
    toFetch,        \* keys dispatch_events has not reached yet
    conn,           \* the key dispatch_events is printing the events of
    events,         \* the fetched events of conn that are not printed yet
    printed,        \* history: the events printed for each key
    since,          \* history: position when the connection was registered
    connects        \* history: number of connections ever registered

pubVars  == <<position, toPublish>>
dispVars == <<round, toFetch, conn, events, printed>>
connVars == <<connections_, since, connects>>
vars == <<mtx_, event_msgs_, pubVars, dispVars, connVars>>

Registered == {k \in Key : connections_[k] # None}

Init ==
    /\ mtx_ = "free"
    /\ connections_ = [k \in Key |-> None]
    /\ event_msgs_ = [k \in Key |-> <<>>]
    /\ position = 0
    /\ toPublish = {}
    /\ round = 0
    /\ toFetch = {}
    /\ conn = None
    /\ events = <<>>
    /\ printed = [k \in Key |-> <<>>]
    /\ since = [k \in Key |-> 0]
    /\ connects = 0

-----------------------------------------------------------------------------
(* The io threads: a connection is established, or its end is reported.    *)

\* The handler of do_connect.
Connected(k, t) ==
    /\ mtx_ = "free"
    /\ connects < MaxConnects
    /\ connects' = connects + 1
    /\ connections_' = [connections_ EXCEPT ![k] = t]
    /\ event_msgs_' = [event_msgs_ EXCEPT ![k] = <<>>]
    /\ since' = [since EXCEPT ![k] = position]
    /\ UNCHANGED <<mtx_, pubVars, dispVars>>

\* The first lock section of on_connection_closed: the queue goes with the
\* connection.
Closed(k) ==
    /\ mtx_ = "free"
    /\ k \in Registered
    /\ connections_' = [connections_ EXCEPT ![k] = None]
    /\ event_msgs_' = [event_msgs_ EXCEPT ![k] = <<>>]
    /\ UNCHANGED <<mtx_, since, connects, pubVars, dispVars>>

-----------------------------------------------------------------------------
(* on_redis_event, called by the publishing thread.                        *)

\* Mutant: the call does not wait for mtx_.
PublishBegin_NoLock ==
    /\ toPublish = {}
    /\ position < Len(Publications)
    /\ position' = position + 1
    /\ toPublish' = Registered
    /\ mtx_' = "publisher"
    /\ UNCHANGED <<event_msgs_, dispVars, connVars>>

PublishBegin ==
    /\ mtx_ = "free"
    /\ position < Len(Publications)
    /\ mtx_' = "publisher"
    /\ position' = position + 1
    /\ toPublish' = Registered
    /\ UNCHANGED <<event_msgs_, dispVars, connVars>>

\* Mutant: enqueue_event for every connection, subscribed or not.
Enqueue_AnyType(k) ==
    /\ mtx_ = "publisher"
    /\ k \in toPublish
    /\ toPublish' = toPublish \ {k}
    /\ event_msgs_' = [event_msgs_ EXCEPT ![k] = Append(@, position)]
    /\ UNCHANGED <<mtx_, position, dispVars, connVars>>

Enqueue(k) ==
    /\ mtx_ = "publisher"
    /\ k \in toPublish
    /\ toPublish' = toPublish \ {k}
    /\ event_msgs_' = IF connections_[k] = Publications[position]
                      THEN [event_msgs_ EXCEPT ![k] = Append(@, position)]
                      ELSE event_msgs_
    /\ UNCHANGED <<mtx_, position, dispVars, connVars>>

\* Mutant: the call leaves mtx_ locked.
PublishEnd_KeepsLock ==
    /\ mtx_ = "publisher"
    /\ toPublish = {}
    /\ position < Len(Publications)
    /\ position' = position + 1
    /\ toPublish' = Registered
    /\ UNCHANGED <<mtx_, event_msgs_, dispVars, connVars>>

PublishEnd ==
    /\ mtx_ = "publisher"
    /\ toPublish = {}
    /\ mtx_' = "free"
    /\ UNCHANGED <<event_msgs_, pubVars, dispVars, connVars>>

Publisher == PublishBegin \/ (\E k \in Key : Enqueue(k)) \/ PublishEnd

-----------------------------------------------------------------------------
(* dispatch_events, called by the dispatching thread.                      *)

DispatchBegin ==
    /\ mtx_ = "free"
    /\ round < Rounds
    /\ mtx_' = "dispatcher"
    /\ round' = round + 1
    /\ toFetch' = Registered
    /\ UNCHANGED <<event_msgs_, conn, events, printed, pubVars, connVars>>

\* Mutant: the queue is cleared before it is copied.
Fetch_ClearsFirst(k) ==
    /\ mtx_ = "dispatcher"
    /\ events = <<>>
    /\ k \in toFetch
    /\ toFetch' = toFetch \ {k}
    /\ conn' = k
    /\ events' = <<>>
    /\ event_msgs_' = [event_msgs_ EXCEPT ![k] = <<>>]
    /\ UNCHANGED <<mtx_, round, printed, pubVars, connVars>>

\* Mutant: the queue is copied and not cleared.
Fetch_NoClear(k) ==
    /\ mtx_ = "dispatcher"
    /\ events = <<>>
    /\ k \in toFetch
    /\ toFetch' = toFetch \ {k}
    /\ conn' = k
    /\ events' = event_msgs_[k]
    /\ UNCHANGED <<mtx_, event_msgs_, round, printed, pubVars, connVars>>

\* fetch_and_clear_events of the next connection.
Fetch(k) ==
    /\ mtx_ = "dispatcher"
    /\ events = <<>>
    /\ k \in toFetch
    /\ toFetch' = toFetch \ {k}
    /\ conn' = k
    /\ events' = event_msgs_[k]
    /\ event_msgs_' = [event_msgs_ EXCEPT ![k] = <<>>]
    /\ UNCHANGED <<mtx_, round, printed, pubVars, connVars>>

PrintEvent ==
    /\ mtx_ = "dispatcher"
    /\ events # <<>>
    /\ printed' = [printed EXCEPT ![conn] = Append(@, Head(events))]
    /\ events' = Tail(events)
    /\ UNCHANGED <<mtx_, event_msgs_, round, toFetch, conn, pubVars, connVars>>

DispatchEnd ==
    /\ mtx_ = "dispatcher"
    /\ events = <<>>
    /\ toFetch = {}
    /\ mtx_' = "free"
    /\ UNCHANGED <<event_msgs_, pubVars, dispVars, connVars>>

Dispatcher ==
    DispatchBegin \/ (\E k \in Key : Fetch(k)) \/ PrintEvent \/ DispatchEnd

Io == \E k \in Key : Closed(k) \/ \E t \in Type : Connected(k, t)

Next == Io \/ Publisher \/ Dispatcher

Spec == Init /\ [][Next]_vars

\* Threads run, and a thread that finds mtx_ free takes it: both callers make
\* finitely many calls, and the io threads hold mtx_ for one step only.
Fairness == WF_vars(Publisher) /\ WF_vars(Dispatcher)

FairSpec == Spec /\ Fairness

-----------------------------------------------------------------------------
(* Properties.                                                             *)

Event == 1..Len(Publications)

\* The types, and who may be in the middle of what: each thread's iteration
\* is under way only while it holds mtx_.
TypeOK ==
    /\ mtx_ \in {"free", "publisher", "dispatcher"}
    /\ connections_ \in [Key -> Type \cup {None}]
    /\ event_msgs_ \in [Key -> Seq(Event)]
    /\ position \in 0..Len(Publications)
    /\ round \in 0..Rounds
    /\ conn \in Key \cup {None}
    /\ events \in Seq(Event)
    /\ printed \in [Key -> Seq(Event)]
    /\ since \in [Key -> 0..Len(Publications)]
    /\ connects \in 0..MaxConnects
    /\ toPublish \subseteq Registered /\ toFetch \subseteq Registered
    /\ mtx_ # "publisher" => toPublish = {}
    /\ mtx_ # "dispatcher" => toFetch = {} /\ events = <<>>
    /\ events # <<>> => conn \in Registered \ toFetch

\* What a key has printed, and is about to print, in order.
History(k) ==
    printed[k] \o (IF k = conn THEN events ELSE <<>>) \o event_msgs_[k]

\* No event is printed twice for a key, or after a younger one, whatever
\* connections come and go under it: fetch_and_clear_events empties the queue
\* in the critical section that copies it.
InOrder ==
    \A k \in Key : \A i, j \in 1..Len(History(k)) :
        i < j => History(k)[i] < History(k)[j]

\* A registered connection has, printed or waiting, every event of its type
\* published since it was registered, and none of another type: nothing falls
\* between a publication, a dispatch and the connections that come and go.
NothingMissed ==
    \A k \in Registered \ toPublish :
        {e \in Event : since[k] < e /\ \E i \in 1..Len(History(k)) :
                                          History(k)[i] = e}
            = {e \in Event : since[k] < e /\ e <= position
                             /\ Publications[e] = connections_[k]}

\* The abstract board: a call takes effect when it takes mtx_.
boardPending ==
    [k \in Key |->
        IF k \in toFetch THEN <<>>
        ELSE IF k \in toPublish /\ connections_[k] = Publications[position]
             THEN Append(event_msgs_[k], position)
             ELSE event_msgs_[k]]
boardPrinted ==
    [k \in Key |->
        IF k \in toFetch THEN printed[k] \o event_msgs_[k]
        ELSE IF k = conn THEN printed[k] \o events
        ELSE printed[k]]

Board == INSTANCE EventBoard WITH
            type <- connections_,
            pending <- boardPending,
            printed <- boardPrinted,
            published <- SubSeq(Publications, 1, position)

\* on_redis_event and dispatch_events look instantaneous: the walks over
\* connections_ implement the board, though they reach the connections one at
\* a time.
BoardSpec == Board!Spec

\* An event that waits at a connection when a dispatch is still to come leaves
\* its queue: it is printed, or the connection ends.
Dispatched ==
    \A k \in Key, e \in Event :
        (round < Rounds /\ \E i \in 1..Len(event_msgs_[k]) : event_msgs_[k][i] = e)
            ~> ~(\E i \in 1..Len(event_msgs_[k]) : event_msgs_[k][i] = e)
=============================================================================
