--------------------------- MODULE EventBusProofs ---------------------------
(***************************************************************************)
(* Proofs about module EventBus: publishing and dispatching, which walk    *)
(* over the connections one at a time, implement the board on which they   *)
(* are instantaneous, for any keys, types and publications.                *)
(***************************************************************************)
EXTENDS EventBus, SequenceTheorems, TLAPS

\* A connection that is gone leaves no queue behind, and the event being
\* published has been counted.
BusInv ==
    /\ TypeOK
    /\ mtx_ = "publisher" => position # 0
    /\ \A k \in Key : connections_[k] = None => event_msgs_[k] = <<>>

LEMMA BusInit == Init => BusInv
<1> SUFFICES ASSUME Init PROVE BusInv
  OBVIOUS
<1>1. Len(Publications) \in Nat /\ 0 \in 0..Len(Publications)
  BY PublicationsAssumption
<1>2. 0 \in 0..Rounds /\ 0 \in 0..MaxConnects
  BY RoundsAssumption
<1>3. TypeOK
  BY <1>1, <1>2 DEF Init, TypeOK, Registered
<1>4. QED
  BY <1>3 DEF Init, BusInv

LEMMA IoStep == BusInv /\ Io => BusInv'
<1> SUFFICES ASSUME BusInv, Io PROVE BusInv'
  OBVIOUS
<1>0. TypeOK /\ mtx_ = "free"
  BY DEF BusInv, Io, Connected, Closed
<1>1. /\ toPublish = {} /\ toFetch = {} /\ events = <<>>
      /\ UNCHANGED <<mtx_, pubVars, dispVars>>
  BY <1>0 DEF TypeOK, Io, Connected, Closed
<1>2. /\ connections_' \in [Key -> Type \cup {None}]
      /\ event_msgs_' \in [Key -> Seq(Event)]
      /\ since' \in [Key -> 0..Len(Publications)]
      /\ connects' \in 0..MaxConnects
  <2>1. ASSUME NEW k \in Key, NEW t \in Type, Connected(k, t) PROVE <1>2!1 /\ <1>2!2 /\ <1>2!3 /\ <1>2!4
    BY <1>0, <2>1, RoundsAssumption DEF TypeOK, Connected
  <2>2. ASSUME NEW k \in Key, Closed(k) PROVE <1>2!1 /\ <1>2!2 /\ <1>2!3 /\ <1>2!4
    BY <1>0, <2>2 DEF TypeOK, Closed
  <2>3. QED
    BY <2>1, <2>2 DEF Io
<1>3. TypeOK'
  BY <1>0, <1>1, <1>2 DEF TypeOK, pubVars, dispVars, Event
<1>4. ASSUME NEW j \in Key, connections_'[j] = None
      PROVE  event_msgs_'[j] = <<>>
  BY <1>0, <1>4, NoneAssumption DEF BusInv, TypeOK, Io, Connected, Closed
<1>5. QED
  BY <1>0, <1>1, <1>3, <1>4 DEF BusInv

LEMMA PublisherStep == BusInv /\ Publisher => BusInv'
<1> SUFFICES ASSUME BusInv, Publisher PROVE BusInv'
  OBVIOUS
<1>0. /\ TypeOK
      /\ UNCHANGED <<dispVars, connVars>>
      /\ Registered' = Registered
  BY DEF BusInv, Publisher, PublishBegin, Enqueue, PublishEnd, connVars, Registered
<1>1. CASE PublishBegin
  <2>1. position' \in 0..Len(Publications)
    BY <1>0, <1>1, PublicationsAssumption DEF PublishBegin, TypeOK
  <2>2. /\ mtx_' = "publisher" /\ toPublish' = Registered
        /\ toFetch = {} /\ events = <<>> /\ event_msgs_' = event_msgs_
    BY <1>0, <1>1 DEF PublishBegin, TypeOK
  <2>3. TypeOK'
    BY <1>0, <2>1, <2>2 DEF TypeOK, dispVars, connVars, Event
  <2>4. position' # 0
    BY <1>0, <1>1 DEF PublishBegin, TypeOK
  <2>5. QED
    BY <1>0, <2>2, <2>3, <2>4 DEF BusInv, connVars
<1>2. ASSUME NEW k \in Key, Enqueue(k) PROVE BusInv'
  <2>1. /\ mtx_ = "publisher" /\ mtx_' = mtx_ /\ position' = position
        /\ toPublish' = toPublish \ {k} /\ k \in Registered
        /\ toFetch = {} /\ events = <<>>
    BY <1>0, <1>2 DEF Enqueue, TypeOK
  <2>2. position \in Event
    BY <1>0, <2>1, PublicationsAssumption DEF BusInv, TypeOK, Event
  <2>3. event_msgs_' \in [Key -> Seq(Event)]
    BY <1>0, <1>2, <2>2 DEF Enqueue, TypeOK
  <2>4. TypeOK'
    <3>1. toPublish' \subseteq Registered' /\ toFetch' \subseteq Registered'
      BY <1>0, <2>1 DEF TypeOK, dispVars
    <3>2. QED
      BY <1>0, <2>1, <2>3, <3>1 DEF TypeOK, dispVars, connVars, Event
  <2>5. ASSUME NEW j \in Key, connections_'[j] = None
        PROVE  event_msgs_'[j] = <<>>
    <3>1. j # k /\ event_msgs_[j] = <<>>
      BY <1>0, <2>1, <2>5 DEF connVars, Registered, BusInv
    <3>2. QED
      BY <1>0, <1>2, <3>1 DEF Enqueue, TypeOK
  <2>6. QED
    BY <2>1, <2>4, <2>5 DEF BusInv
<1>3. CASE PublishEnd
  BY <1>0, <1>3 DEF PublishEnd, TypeOK, BusInv, pubVars, dispVars, connVars, Event
<1>4. QED
  BY <1>1, <1>2, <1>3 DEF Publisher

LEMMA DispatcherStep == BusInv /\ Dispatcher => BusInv'
<1> SUFFICES ASSUME BusInv, Dispatcher PROVE BusInv'
  OBVIOUS
<1>0. /\ TypeOK
      /\ UNCHANGED <<pubVars, connVars>>
      /\ Registered' = Registered
      /\ mtx_' # "publisher" /\ toPublish' = {}
  <2>1. mtx_ # "publisher" /\ mtx_' # "publisher"
    BY DEF Dispatcher, DispatchBegin, Fetch, PrintEvent, DispatchEnd
  <2>2. TypeOK /\ toPublish = {}
    BY <2>1 DEF BusInv, TypeOK
  <2>3. UNCHANGED <<pubVars, connVars>>
    BY DEF Dispatcher, DispatchBegin, Fetch, PrintEvent, DispatchEnd
  <2>4. QED
    BY <2>1, <2>2, <2>3 DEF pubVars, connVars, Registered
<1>1. SUFFICES /\ mtx_' \in {"free", "dispatcher"}
               /\ event_msgs_' \in [Key -> Seq(Event)]
               /\ round' \in 0..Rounds
               /\ conn' \in Key \cup {None}
               /\ events' \in Seq(Event)
               /\ printed' \in [Key -> Seq(Event)]
               /\ toFetch' \subseteq Registered
               /\ mtx_' # "dispatcher" => toFetch' = {} /\ events' = <<>>
               /\ events' # <<>> => conn' \in Registered \ toFetch'
               /\ \A j \in Key : event_msgs_[j] = <<>> => event_msgs_'[j] = <<>>
  BY <1>0 DEF BusInv, TypeOK, pubVars, connVars, Event
<1>2. CASE DispatchBegin
  <2>1. round' \in 0..Rounds
    BY <1>0, <1>2, RoundsAssumption DEF DispatchBegin, TypeOK
  <2>2. QED
    BY <1>0, <1>2, <2>1 DEF DispatchBegin, TypeOK
<1>3. ASSUME NEW k \in Key, Fetch(k) PROVE <1>1!1
  <2>1. k \in Registered
    BY <1>0, <1>3 DEF Fetch, TypeOK
  <2>2. /\ events' \in Seq(Event)
        /\ event_msgs_' \in [Key -> Seq(Event)]
        /\ \A j \in Key : event_msgs_[j] = <<>> => event_msgs_'[j] = <<>>
    BY <1>0, <1>3 DEF Fetch, TypeOK
  <2>3. QED
    BY <1>0, <1>3, <2>1, <2>2 DEF Fetch, TypeOK
<1>4. CASE PrintEvent
  <2>1. conn \in Key /\ Head(events) \in Event /\ Tail(events) \in Seq(Event)
    BY <1>0, <1>4 DEF PrintEvent, TypeOK, Registered
  <2>2. printed' \in [Key -> Seq(Event)]
    BY <1>0, <1>4, <2>1 DEF PrintEvent, TypeOK
  <2>3. QED
    BY <1>0, <1>4, <2>1, <2>2 DEF PrintEvent, TypeOK
<1>5. CASE DispatchEnd
  BY <1>0, <1>5 DEF DispatchEnd, TypeOK, dispVars
<1>6. QED
  BY <1>2, <1>3, <1>4, <1>5 DEF Dispatcher

LEMMA BusStep == BusInv /\ [Next]_vars => BusInv'
<1>1. BusInv /\ UNCHANGED vars => BusInv'
  BY DEF BusInv, TypeOK, Registered, vars, pubVars, dispVars, connVars
<1>2. QED
  BY <1>1, IoStep, PublisherStep, DispatcherStep DEF Next

\* The types, and that an iteration is under way only under its own lock.
THEOREM TypeCorrect == Spec => []TypeOK
<1>1. BusInv => TypeOK
  BY DEF BusInv
<1>2. QED
  BY <1>1, BusInit, BusStep, PTL DEF Spec

-----------------------------------------------------------------------------
(* The board.                                                              *)

\* Printing moves the head of the fetched events to the printed ones.
LEMMA MoveHead ==
    ASSUME NEW S, NEW s \in Seq(S), NEW e \in Seq(S), e # <<>>
    PROVE  Append(s, Head(e)) \o Tail(e) = s \o e
<1> DEFINE l == Append(s, Head(e)) \o Tail(e)
           r == s \o e
<1>1. /\ Head(e) \in S /\ Tail(e) \in Seq(S) /\ Len(e) \in Nat \ {0}
      /\ Len(Tail(e)) = Len(e) - 1 /\ Len(s) \in Nat
      /\ \A i \in 1..(Len(e) - 1) : Tail(e)[i] = e[i + 1]
      /\ Head(e) = e[1]
  OBVIOUS
<1>2. /\ Append(s, Head(e)) \in Seq(S)
      /\ Len(Append(s, Head(e))) = Len(s) + 1
      /\ \A i \in 1..Len(s) : Append(s, Head(e))[i] = s[i]
      /\ Append(s, Head(e))[Len(s) + 1] = Head(e)
  BY <1>1
<1>3. /\ l \in Seq(S) /\ r \in Seq(S)
      /\ Len(l) = Len(s) + Len(e) /\ Len(r) = Len(s) + Len(e)
  BY <1>1, <1>2
<1>4. ASSUME NEW i \in 1..Len(l) PROVE l[i] = r[i]
  <2>1. i \in Nat /\ i \in 1..(Len(s) + Len(e))
    BY <1>1, <1>3
  <2>2. CASE i <= Len(s)
    BY <1>1, <1>2, <2>1, <2>2
  <2>3. CASE i = Len(s) + 1
    BY <1>1, <1>2, <2>1, <2>3
  <2>4. CASE i > Len(s) + 1
    <3>1. /\ i - (Len(s) + 1) \in 1..(Len(e) - 1)
          /\ (i - (Len(s) + 1)) + 1 = i - Len(s)
      BY <1>1, <2>1, <2>4
    <3>2. l[i] = Tail(e)[i - (Len(s) + 1)]
      BY <1>1, <1>2, <2>1, <2>4
    <3>3. r[i] = e[i - Len(s)]
      BY <1>1, <2>1, <2>4
    <3>4. QED
      BY <1>1, <3>1, <3>2, <3>3
  <2>5. QED
    BY <1>1, <2>1, <2>2, <2>3, <2>4
<1>5. QED
  BY <1>3, <1>4, SeqEqual

LEMMA BoardInit == Init => Board!Init
<1> SUFFICES ASSUME Init PROVE Board!Init
  OBVIOUS
<1>1. SubSeq(Publications, 1, position) = <<>>
  BY SubSeqEmpty DEF Init
<1>2. boardPending = [k \in Key |-> <<>>]
  BY DEF Init, boardPending
<1>3. boardPrinted = [k \in Key |-> <<>>]
  BY DEF Init, boardPrinted, Event
<1>4. QED
  BY <1>1, <1>2, <1>3 DEF Init, Board!Init

\* With mtx_ free the board is what the variables hold.
LEMMA BoardWhenFree ==
    ASSUME TypeOK, mtx_ = "free"
    PROVE  boardPending = event_msgs_ /\ boardPrinted = printed
<1>1. toPublish = {} /\ toFetch = {} /\ events = <<>>
  BY DEF TypeOK
<1>2. boardPending = event_msgs_
  BY <1>1 DEF boardPending, TypeOK
<1>3. \A k \in Key : printed[k] \o events = printed[k]
  BY <1>1, ConcatEmptySeq DEF TypeOK
<1>4. boardPrinted = printed
  BY <1>1, <1>3 DEF boardPrinted, TypeOK
<1>5. QED
  BY <1>2, <1>4

\* A connection registered or ended is one on the board.
LEMMA IoBoard == BusInv /\ Io => Board!Next
<1> SUFFICES ASSUME BusInv, Io PROVE Board!Next
  OBVIOUS
<1>0. /\ TypeOK /\ TypeOK' /\ mtx_ = "free" /\ mtx_' = "free"
      /\ UNCHANGED <<position, printed>>
  BY IoStep DEF BusInv, Io, Connected, Closed, pubVars, dispVars
<1>1. /\ boardPending = event_msgs_ /\ boardPrinted = printed
      /\ boardPending' = event_msgs_' /\ boardPrinted' = printed'
  <2>1. /\ toPublish = {} /\ toFetch = {}
        /\ UNCHANGED <<toPublish, toFetch, conn, events>>
    BY <1>0 DEF TypeOK, Io, Connected, Closed, pubVars, dispVars
  <2>2. boardPending' = event_msgs_'
    BY <1>0, <2>1 DEF boardPending, TypeOK
  <2>3. boardPrinted' = boardPrinted
    BY <1>0, <2>1 DEF boardPrinted
  <2>4. QED
    BY <1>0, <2>2, <2>3, BoardWhenFree
<1>2. SubSeq(Publications, 1, position)' = SubSeq(Publications, 1, position)
  BY <1>0
<1>3. ASSUME NEW k \in Key, NEW t \in Type, Connected(k, t)
      PROVE  Board!Register(k, t)
  BY <1>0, <1>1, <1>2, <1>3 DEF Connected, Board!Register
<1>4. ASSUME NEW k \in Key, Closed(k) PROVE Board!Remove(k)
  BY <1>0, <1>1, <1>2, <1>4 DEF Closed, Board!Remove
<1>5. QED
  BY <1>3, <1>4 DEF Io, Board!Next

\* A publication takes effect on the board when it takes mtx_.
LEMMA PublishBoard == BusInv /\ PublishBegin => Board!Next
<1> SUFFICES ASSUME BusInv, PublishBegin PROVE Board!Next
  OBVIOUS
<1> DEFINE p == position + 1
           t == Publications[p]
<1>0. /\ TypeOK /\ mtx_ = "free"
      /\ UNCHANGED <<event_msgs_, connections_, toFetch, conn, events, printed>>
      /\ position' = p /\ toPublish' = Registered
  BY DEF BusInv, PublishBegin, dispVars, connVars
<1>1. /\ position \in Nat /\ p \in 1..Len(Publications) /\ t \in Type
      /\ Len(Publications) \in Nat
  BY <1>0, PublicationsAssumption DEF PublishBegin, TypeOK
<1>2. boardPending = event_msgs_ /\ boardPrinted = printed /\ toFetch = {}
  BY <1>0, BoardWhenFree DEF TypeOK
<1>3. boardPrinted' = boardPrinted
  BY <1>0, <1>2 DEF boardPrinted
<1>4. boardPending' = [k \in Key |-> IF connections_[k] = t
                                     THEN Append(event_msgs_[k], p)
                                     ELSE event_msgs_[k]]
  <2>1. \A k \in Key : connections_[k] = t => k \in Registered
    BY <1>1, NoneAssumption DEF Registered
  <2>2. QED
    BY <1>0, <1>2, <2>1 DEF boardPending
<1>5. /\ SubSeq(Publications, 1, p)
            = Append(SubSeq(Publications, 1, position), t)
      /\ Len(SubSeq(Publications, 1, position)) = position
  BY <1>1, PublicationsAssumption
<1>6. Board!Publish(t)
  BY <1>0, <1>2, <1>3, <1>4, <1>5 DEF Board!Publish
<1>7. QED
  BY <1>1, <1>6 DEF Board!Next

\* So does a dispatch.
LEMMA DispatchBoard == BusInv /\ DispatchBegin => Board!Next
<1> SUFFICES ASSUME BusInv, DispatchBegin PROVE Board!Next
  OBVIOUS
<1>0. /\ TypeOK /\ mtx_ = "free"
      /\ UNCHANGED <<event_msgs_, connections_, toPublish, conn, events,
                     printed, position>>
      /\ toFetch' = Registered
  BY DEF BusInv, DispatchBegin, pubVars, connVars
<1>1. /\ boardPending = event_msgs_ /\ boardPrinted = printed
      /\ toPublish = {} /\ events = <<>>
  BY <1>0, BoardWhenFree DEF TypeOK
<1>2. \A k \in Key : k \notin Registered => event_msgs_[k] = <<>>
  BY DEF Registered, BusInv
<1>3. boardPending' = [k \in Key |-> <<>>]
  BY <1>0, <1>1, <1>2 DEF boardPending
<1>4. boardPrinted' = [k \in Key |-> printed[k] \o event_msgs_[k]]
  <2>1. ASSUME NEW k \in Key, k \notin Registered
        PROVE  /\ event_msgs_[k] = events
               /\ printed[k] = printed[k] \o event_msgs_[k]
    BY <1>0, <1>1, <1>2, <2>1, ConcatEmptySeq DEF TypeOK
  <2>2. QED
    BY <1>0, <2>1 DEF boardPrinted
<1>5. Board!Dispatch
  BY <1>0, <1>1, <1>3, <1>4 DEF Board!Dispatch
<1>6. QED
  BY <1>5 DEF Board!Next

\* The steps in between leave the board as it is.
LEMMA WalkBoard ==
    ASSUME BusInv,
           \/ (\E k \in Key : Enqueue(k)) \/ PublishEnd
           \/ (\E k \in Key : Fetch(k)) \/ PrintEvent \/ DispatchEnd
    PROVE  UNCHANGED <<connections_, boardPending, boardPrinted, position>>
<1>0. TypeOK /\ UNCHANGED <<connections_, position>>
  BY DEF BusInv, Enqueue, PublishEnd, Fetch, PrintEvent, DispatchEnd, connVars,
         pubVars
<1>1. ASSUME NEW k \in Key, Enqueue(k)
      PROVE  UNCHANGED <<boardPending, boardPrinted>>
  <2>1. /\ toFetch = {} /\ UNCHANGED <<toFetch, conn, events, printed>>
        /\ k \in toPublish /\ toPublish' = toPublish \ {k}
    BY <1>0, <1>1 DEF TypeOK, Enqueue, dispVars
  <2>2. UNCHANGED boardPrinted
    BY <2>1 DEF boardPrinted
  <2>3. ASSUME NEW j \in Key PROVE boardPending'[j] = boardPending[j]
    BY <1>0, <1>1, <2>1 DEF boardPending, Enqueue, TypeOK
  <2>4. QED
    BY <2>2, <2>3 DEF boardPending
<1>2. CASE PublishEnd \/ DispatchEnd
  BY <1>0, <1>2 DEF PublishEnd, DispatchEnd, boardPending, boardPrinted,
     pubVars, dispVars
<1>3. ASSUME NEW k \in Key, Fetch(k)
      PROVE  UNCHANGED <<boardPending, boardPrinted>>
  <2>1. /\ toPublish = {} /\ UNCHANGED <<toPublish, printed>>
        /\ k \in toFetch /\ toFetch' = toFetch \ {k}
        /\ events = <<>> /\ conn' = k /\ events' = event_msgs_[k]
        /\ event_msgs_' = [event_msgs_ EXCEPT ![k] = <<>>]
    BY <1>0, <1>3 DEF TypeOK, Fetch, pubVars
  <2>2. ASSUME NEW j \in Key PROVE boardPending'[j] = boardPending[j]
    BY <1>0, <2>1 DEF boardPending, TypeOK
  <2>3. ASSUME NEW j \in Key PROVE boardPrinted'[j] = boardPrinted[j]
    <3>1. printed[j] \o events = printed[j]
      BY <1>0, <2>1, ConcatEmptySeq DEF TypeOK
    <3>2. CASE j = k
      BY <1>0, <2>1, <3>2 DEF boardPrinted, TypeOK
    <3>3. CASE j # k
      BY <1>0, <2>1, <3>1, <3>3 DEF boardPrinted, TypeOK
    <3>4. QED
      BY <3>2, <3>3
  <2>4. QED
    BY <2>2, <2>3 DEF boardPending, boardPrinted
<1>4. CASE PrintEvent
  <2>1. /\ toPublish = {} /\ UNCHANGED <<toPublish, event_msgs_, toFetch, conn>>
        /\ events # <<>> /\ events' = Tail(events)
        /\ printed' = [printed EXCEPT ![conn] = Append(@, Head(events))]
    BY <1>0, <1>4 DEF TypeOK, PrintEvent, pubVars
  <2>2. UNCHANGED boardPending
    BY <1>0, <2>1 DEF boardPending
  <2>3. ASSUME NEW j \in Key PROVE boardPrinted'[j] = boardPrinted[j]
    <3>1. CASE j = conn
      <4>1. /\ printed[j] \in Seq(Event) /\ events \in Seq(Event)
            /\ printed'[j] = Append(printed[j], Head(events))
        BY <1>0, <2>1, <3>1 DEF TypeOK
      <4>2. printed'[j] \o Tail(events) = printed[j] \o events
        BY <2>1, <4>1, MoveHead
      <4>3. QED
        BY <1>0, <2>1, <3>1, <4>2 DEF boardPrinted, TypeOK
    <3>2. CASE j # conn
      BY <1>0, <2>1, <3>2 DEF boardPrinted, TypeOK
    <3>3. QED
      BY <3>1, <3>2
  <2>4. QED
    BY <1>0, <2>2, <2>3 DEF boardPrinted
<1>5. QED
  BY <1>0, <1>1, <1>2, <1>3, <1>4

LEMMA BoardStep == BusInv /\ [Next]_vars => [Board!Next]_(Board!vars)
<1> SUFFICES ASSUME BusInv, [Next]_vars
             PROVE  Board!Next \/ UNCHANGED Board!vars
  OBVIOUS
<1>1. ASSUME UNCHANGED <<connections_, boardPending, boardPrinted, position>>
      PROVE  UNCHANGED Board!vars
  BY <1>1 DEF Board!vars
<1>2. CASE UNCHANGED vars
  <2>1. UNCHANGED <<connections_, boardPending, boardPrinted, position>>
    BY <1>2 DEF vars, pubVars, dispVars, connVars, boardPending, boardPrinted
  <2>2. QED
    BY <1>1, <2>1
<1>3. CASE Next
  BY <1>1, <1>3, IoBoard, PublishBoard, DispatchBoard, WalkBoard
     DEF Next, Publisher, Dispatcher
<1>4. QED
  BY <1>2, <1>3

\* Publishing and dispatching look instantaneous.
THEOREM BoardCorrect == Spec => BoardSpec
<1>1. Init /\ [][Next]_vars => []BusInv
  BY BusInit, BusStep, PTL
<1>2. QED
  BY <1>1, BoardInit, BoardStep, PTL DEF Spec, BoardSpec, Board!Spec

-----------------------------------------------------------------------------
(* What a key prints.                                                      *)

Increasing(h) == \A i, j \in 1..Len(h) : i < j => h[i] < h[j]

Inside(h, e) == \E i \in 1..Len(h) : h[i] = e

\* The event being published is younger than all that has been told.
OrderInv ==
    \A k \in Key :
        /\ Increasing(History(k))
        /\ \A e \in Event : Inside(History(k), e) =>
                e <= position /\ (k \in toPublish => e < position)

\* NothingMissed, also for the keys the publication has not reached.
MissInv ==
    \A k \in Registered : \A e \in Event : since[k] < e =>
        (Inside(History(k), e) <=>
            /\ e <= position /\ Publications[e] = connections_[k]
            /\ k \in toPublish => e # position)

LEMMA EventNat == Event \subseteq Nat /\ Len(Publications) \in Nat
  BY PublicationsAssumption DEF Event

LEMMA IncreasingAppend ==
    ASSUME NEW h \in Seq(Event), NEW e \in Event, Increasing(h),
           \A x \in Event : Inside(h, x) => x < e
    PROVE  /\ Increasing(Append(h, e))
           /\ \A x \in Event : Inside(Append(h, e), x) <=> Inside(h, x) \/ x = e
<1> DEFINE a == Append(h, e)
<1>1. /\ Len(h) \in Nat /\ Len(a) = Len(h) + 1
      /\ \A i \in 1..Len(h) : a[i] = h[i] /\ h[i] \in Event
      /\ a[Len(h) + 1] = e
  OBVIOUS
<1>2. \A i \in 1..Len(h) : h[i] < e
  BY <1>1 DEF Inside
<1>3. \A i \in 1 .. Len(h) + 1 : i \in 1..Len(h) \/ i = Len(h) + 1
  BY <1>1
<1> HIDE DEF a
<1>4. Increasing(a)
  <2> SUFFICES ASSUME NEW i \in 1..Len(a), NEW j \in 1..Len(a), i < j
               PROVE  a[i] < a[j]
    BY DEF Increasing
  <2>1. i \in 1..Len(h)
    BY <1>1
  <2>2. CASE j \in 1..Len(h)
    BY <1>1, <2>1, <2>2 DEF Increasing
  <2>3. CASE j = Len(h) + 1
    BY <1>1, <1>2, <2>1, <2>3
  <2> QED
    BY <1>1, <1>3, <2>2, <2>3
<1>5. ASSUME NEW x \in Event
      PROVE  Inside(a, x) <=> Inside(h, x) \/ x = e
  <2>1. ASSUME NEW i \in 1..Len(a), a[i] = x PROVE Inside(h, x) \/ x = e
    BY <1>1, <1>3, <2>1 DEF Inside
  <2>2. ASSUME NEW i \in 1..Len(h), h[i] = x PROVE Inside(a, x)
    <3>1. i \in 1..Len(a)
      BY <1>1
    <3> QED
      BY <1>1, <2>2, <3>1 DEF Inside
  <2>3. x = e => Inside(a, x)
    <3>1. Len(h) + 1 \in 1..Len(a)
      BY <1>1
    <3> QED
      BY <1>1, <3>1 DEF Inside
  <2> QED
    BY <2>1, <2>2, <2>3 DEF Inside
<1> QED
  BY <1>4, <1>5 DEF a

LEMMA IncreasingPrefix ==
    ASSUME NEW p \in Seq(Event), NEW q \in Seq(Event), Increasing(p \o q)
    PROVE  /\ Increasing(p)
           /\ \A x \in Event : Inside(p, x) => Inside(p \o q, x)
<1> DEFINE h == p \o q
<1>1. /\ Len(p) \in Nat /\ Len(q) \in Nat /\ Len(h) = Len(p) + Len(q)
      /\ \A i \in 1..Len(p) : h[i] = p[i]
  BY ConcatProperties
<1>2. \A i \in 1..Len(p) : i \in 1..Len(h)
  BY <1>1
<1> HIDE DEF h
<1>3. Increasing(h) => Increasing(p)
  BY <1>1, <1>2, Zenon DEF Increasing
<1>4. \A x \in Event : Inside(p, x) => Inside(h, x)
  BY <1>1, <1>2, Zenon DEF Inside
<1> QED
  BY <1>3, <1>4 DEF h

\* With nothing fetched, a key has printed some and the rest waits.
LEMMA HistoryIdle ==
    ASSUME TypeOK, events = <<>>, NEW k \in Key
    PROVE  History(k) = printed[k] \o event_msgs_[k]
<1>1. printed[k] \in Seq(Event)
  BY DEF TypeOK
<1>2. printed[k] \o <<>> = printed[k]
  BY <1>1, ConcatEmptySeq
<1> QED
  BY <1>2, Zenon DEF History

LEMMA HistoryType == TypeOK => \A k \in Key : History(k) \in Seq(Event)
<1> SUFFICES ASSUME TypeOK, NEW k \in Key PROVE History(k) \in Seq(Event)
  OBVIOUS
<1>1. /\ printed[k] \in Seq(Event) /\ event_msgs_[k] \in Seq(Event)
      /\ events \in Seq(Event) /\ <<>> \in Seq(Event)
  BY DEF TypeOK
<1>2. \A p \in Seq(Event), q \in Seq(Event) : p \o q \in Seq(Event)
  OBVIOUS
<1>3. (IF k = conn THEN events ELSE <<>>) \in Seq(Event)
  BY <1>1
<1> QED
  BY <1>1, <1>2, <1>3, Zenon DEF History

ToldInv == OrderInv /\ MissInv

LEMMA ToldInit == Init => ToldInv
<1> SUFFICES ASSUME Init PROVE ToldInv
  OBVIOUS
<1>1. ASSUME NEW k \in Key PROVE History(k) = <<>>
  <2>1. printed[k] = <<>> /\ event_msgs_[k] = <<>> /\ events = <<>>
    BY DEF Init
  <2>2. (<<>> \o <<>>) \o <<>> = <<>>
    OBVIOUS
  <2> QED
    BY <2>1, <2>2, Zenon DEF History
<1>2. Registered = {}
  BY DEF Init, Registered
<1>3. Increasing(<<>>) /\ \A e \in Event : ~Inside(<<>>, e)
  BY DEF Increasing, Inside
<1> QED
  BY <1>1, <1>2, <1>3, Zenon DEF ToldInv, OrderInv, MissInv

\* Steps that move what a key has told, and nothing else.
LEMMA ToldSame ==
    ASSUME ToldInv, UNCHANGED <<connections_, position, toPublish, since>>,
           \A k \in Key : History(k)' = History(k)
    PROVE  ToldInv'
<1>1. Registered' = Registered
  BY DEF Registered
<1>2. OrderInv'
  BY Zenon DEF ToldInv, OrderInv
<1>3. \A k \in Registered : k \in Key
  BY DEF Registered
<1>4. MissInv'
  BY <1>1, <1>3, Zenon DEF ToldInv, MissInv
<1> QED
  BY <1>2, <1>4 DEF ToldInv

LEMMA HistoryMoves ==
    ASSUME BusInv,
           \/ UNCHANGED vars \/ PublishBegin \/ PublishEnd
           \/ DispatchBegin \/ (\E k \in Key : Fetch(k)) \/ PrintEvent \/ DispatchEnd,
           NEW j \in Key
    PROVE  History(j)' = History(j)
<1>0. TypeOK
  BY DEF BusInv
<1>t. /\ printed[j] \in Seq(Event) /\ event_msgs_[j] \in Seq(Event)
      /\ events \in Seq(Event)
  BY <1>0 DEF TypeOK
<1>1. ASSUME UNCHANGED <<printed, conn, events, event_msgs_>>
      PROVE  History(j)' = History(j)
  BY <1>1, Zenon DEF History
<1>2. CASE \/ UNCHANGED vars \/ PublishBegin \/ PublishEnd
           \/ DispatchBegin \/ DispatchEnd
  BY <1>1, <1>2 DEF vars, PublishBegin, PublishEnd, DispatchBegin, DispatchEnd,
     dispVars
<1>3. ASSUME NEW k \in Key, Fetch(k) PROVE History(j)' = History(j)
  <2>1. /\ events = <<>> /\ conn' = k /\ events' = event_msgs_[k]
        /\ event_msgs_' = [event_msgs_ EXCEPT ![k] = <<>>]
        /\ printed' = printed
    BY <1>3, Zenon DEF Fetch
  <2>2. History(j) = printed[j] \o event_msgs_[j]
    BY <1>0, <2>1, HistoryIdle
  <2>3. CASE j = k
    <3>1. History(j)' = (printed[j] \o event_msgs_[j]) \o <<>>
      <4>1. event_msgs_'[j] = <<>>
        BY <1>0, <2>1, <2>3 DEF TypeOK
      <4> QED
        BY <2>1, <2>3, <4>1, Zenon DEF History
    <3>2. \A s \in Seq(Event) : s \o <<>> = s
      BY ConcatEmptySeq
    <3>3. printed[j] \o event_msgs_[j] \in Seq(Event)
      BY <1>t
    <3> QED
      BY <2>2, <3>1, <3>2, <3>3, Zenon
  <2>4. CASE j # k
    <3>1. event_msgs_'[j] = event_msgs_[j]
      BY <1>0, <2>1, <2>4 DEF TypeOK
    <3>2. History(j)' = (printed[j] \o <<>>) \o event_msgs_[j]
      BY <2>1, <2>4, <3>1, Zenon DEF History
    <3>3. printed[j] \o <<>> = printed[j]
      BY <1>t, ConcatEmptySeq
    <3> QED
      BY <2>2, <3>2, <3>3, Zenon
  <2> QED
    BY <2>3, <2>4
<1>4. CASE PrintEvent
  <2>1. /\ events # <<>> /\ events' = Tail(events)
        /\ printed' = [printed EXCEPT ![conn] = Append(@, Head(events))]
        /\ UNCHANGED <<event_msgs_, conn>>
    BY <1>4, Zenon DEF PrintEvent
  <2>2. CASE j = conn
    <3>1. printed'[j] = Append(printed[j], Head(events))
      BY <1>0, <2>1, <2>2 DEF TypeOK
    <3>2. Append(printed[j], Head(events)) \o Tail(events) = printed[j] \o events
      BY <1>t, <2>1, MoveHead
    <3> QED
      BY <2>1, <2>2, <3>1, <3>2, Zenon DEF History
  <2>3. CASE j # conn
    <3>1. printed'[j] = printed[j]
      BY <1>0, <2>1, <2>3 DEF TypeOK
    <3> QED
      BY <2>1, <2>3, <3>1, Zenon DEF History
  <2> QED
    BY <2>2, <2>3
<1> QED
  BY <1>2, <1>3, <1>4

\* A publication begins: its event is younger than all that has been told.
LEMMA ToldPublish == BusInv /\ ToldInv /\ PublishBegin => ToldInv'
<1> SUFFICES ASSUME BusInv, ToldInv, PublishBegin PROVE ToldInv'
  OBVIOUS
<1>1. /\ position' = position + 1 /\ toPublish' = Registered
      /\ UNCHANGED <<connections_, since>> /\ toPublish = {}
      /\ position \in Nat /\ Registered' = Registered
  BY PublicationsAssumption DEF BusInv, TypeOK, PublishBegin, connVars, Registered
<1>2. \A k \in Key : History(k)' = History(k)
  BY HistoryMoves
<1>3. \A e \in Event : (e <= position => e <= position + 1 /\ e < position + 1)
         /\ (e <= position <=> e <= position + 1 /\ e # position + 1)
  BY <1>1, EventNat
<1>4. OrderInv'
  <2>1. ASSUME NEW k \in Key
        PROVE  /\ Increasing(History(k)) 
               /\ \A e \in Event : Inside(History(k), e) =>
                     e <= position + 1 /\ e < position + 1
    BY <1>3, Zenon DEF ToldInv, OrderInv
  <2> QED
    BY <1>1, <1>2, <2>1, Zenon DEF OrderInv
<1>5. MissInv'
  <2>1. ASSUME NEW k \in Registered, NEW e \in Event, since[k] < e
        PROVE  Inside(History(k), e) <=>
                  /\ e <= position + 1 /\ Publications[e] = connections_[k]
                  /\ e # position + 1
    <3>1. Inside(History(k), e) <=>
            e <= position /\ Publications[e] = connections_[k]
      BY <1>1, <2>1, Zenon DEF ToldInv, MissInv
    <3> QED
      BY <1>3, <3>1, Zenon
  <2>2. \A k \in Registered : k \in Key
    BY DEF Registered
  <2> QED
    BY <1>1, <1>2, <2>1, <2>2, Zenon DEF MissInv
<1> QED
  BY <1>4, <1>5 DEF ToldInv

\* The event reaches a key.
LEMMA ToldEnqueue ==
    ASSUME BusInv, ToldInv, NEW k \in Key, Enqueue(k)
    PROVE  ToldInv'
<1>0. /\ TypeOK /\ events = <<>> /\ position \in Event
      /\ k \in toPublish /\ k \in Registered
      /\ toPublish' = toPublish \ {k}
      /\ UNCHANGED <<printed, conn, events, connections_, since, position>>
      /\ Registered' = Registered
  <2>1. /\ TypeOK /\ mtx_ = "publisher" /\ k \in toPublish
        /\ toPublish' = toPublish \ {k}
        /\ UNCHANGED <<printed, conn, events, connections_, since, position>>
    BY DEF BusInv, Enqueue, dispVars, connVars
  <2>2. position \in 0..Len(Publications) /\ position # 0
    BY <2>1 DEF BusInv, TypeOK
  <2>3. position \in Event
    BY <2>2, PublicationsAssumption DEF Event
  <2>4. events = <<>> /\ k \in Registered
    BY <2>1 DEF TypeOK
  <2>5. Registered' = Registered
    BY <2>1 DEF Registered
  <2> QED
    BY <2>1, <2>3, <2>4, <2>5
<1>1. ASSUME NEW j \in Key, event_msgs_'[j] = event_msgs_[j]
      PROVE  History(j)' = History(j)
  BY <1>0, <1>1, Zenon DEF History
<1>2. \A j \in Key : j # k => History(j)' = History(j)
  <2>1. \A j \in Key : j # k => event_msgs_'[j] = event_msgs_[j]
    BY <1>0 DEF Enqueue, TypeOK
  <2> QED
    BY <1>1, <2>1
<1>3. /\ Increasing(History(k))
      /\ \A e \in Event : Inside(History(k), e) => e <= position /\ e < position
  BY <1>0, Zenon DEF ToldInv, OrderInv
<1>4. \A e \in Event : e < position => e # position
  BY EventNat
<1>h. History(k) \in Seq(Event)
  BY <1>0, HistoryType
<1>5. /\ Increasing(History(k)')
      /\ \A e \in Event : Inside(History(k)', e) => e <= position
      /\ \A e \in Event : Inside(History(k)', e) <=>
            \/ Inside(History(k), e)
            \/ e = position /\ connections_[k] = Publications[position]
  <2>1. CASE connections_[k] = Publications[position]
    <3>1. event_msgs_'[k] = Append(event_msgs_[k], position)
      BY <1>0, <2>1 DEF Enqueue, TypeOK
    <3>2. History(k)' = Append(History(k), position)
      <4>1. \A p \in Seq(Event), c \in Seq(Event), q \in Seq(Event), e \in Event :
               (p \o c) \o Append(q, e) = Append((p \o c) \o q, e)
        OBVIOUS
      <4>2. /\ printed[k] \in Seq(Event) /\ event_msgs_[k] \in Seq(Event)
            /\ <<>> \in Seq(Event)
        BY <1>0 DEF TypeOK
      <4>3. History(k)' = (printed[k] \o <<>>) \o Append(event_msgs_[k], position)
        BY <1>0, <3>1, Zenon DEF History
      <4>4. History(k) = (printed[k] \o <<>>) \o event_msgs_[k]
        BY <1>0, Zenon DEF History
      <4>5. (printed[k] \o <<>>) \o Append(event_msgs_[k], position)
              = Append((printed[k] \o <<>>) \o event_msgs_[k], position)
        BY <1>0, <4>1, <4>2
      <4> QED
        BY <4>3, <4>4, <4>5, Zenon
    <3>3. /\ Increasing(Append(History(k), position))
          /\ \A e \in Event : Inside(Append(History(k), position), e)
                 <=> Inside(History(k), e) \/ e = position
      BY <1>0, <1>3, <1>h, IncreasingAppend
    <3>4. position <= position
      BY <1>0, EventNat
    <3> QED
      BY <1>3, <2>1, <3>2, <3>3, <3>4, Zenon
  <2>2. CASE connections_[k] # Publications[position]
    <3>1. History(k)' = History(k)
      BY <1>1, <2>2 DEF Enqueue
    <3> QED
      BY <1>3, <2>2, <3>1, Zenon
  <2> QED
    BY <2>1, <2>2
<1>6. OrderInv'
  <2>1. ASSUME NEW j \in Key
        PROVE  /\ Increasing(History(j)')
               /\ \A e \in Event : Inside(History(j)', e) =>
                     e <= position /\ (j \in toPublish \ {k} => e < position)
    <3>1. CASE j = k
      BY <1>5, <3>1, Zenon
    <3>2. CASE j # k
      BY <1>2, <3>2, Zenon DEF ToldInv, OrderInv
    <3> QED
      BY <3>1, <3>2
  <2> QED
    BY <1>0, <2>1, Zenon DEF OrderInv
<1>7. MissInv'
  <2>1. ASSUME NEW j \in Registered, NEW e \in Event, since[j] < e
        PROVE  Inside(History(j)', e) <=>
                  /\ e <= position /\ Publications[e] = connections_[j]
                  /\ j \in toPublish \ {k} => e # position
    <3>0. Inside(History(j), e) <=>
            /\ e <= position /\ Publications[e] = connections_[j]
            /\ j \in toPublish => e # position
      BY <2>1, Zenon DEF ToldInv, MissInv
    <3>1. CASE j = k
      <4>1. e = position => e <= position
        BY <1>0, EventNat
      <4> QED
        BY <1>0, <1>5, <3>0, <3>1, <4>1, Zenon
    <3>2. CASE j # k
      <4>1. j \in Key
        BY DEF Registered
      <4> QED
        BY <1>2, <3>0, <3>2, <4>1, Zenon
    <3> QED
      BY <3>1, <3>2
  <2> QED
    BY <1>0, <2>1, Zenon DEF MissInv
<1> QED
  BY <1>6, <1>7 DEF ToldInv

\* A connection registered or ended takes its queue with it.
LEMMA ToldIo == BusInv /\ ToldInv /\ Io => ToldInv'
<1> SUFFICES ASSUME BusInv, ToldInv, Io PROVE ToldInv'
  OBVIOUS
<1>0. /\ TypeOK /\ events = <<>> /\ toPublish = {}
      /\ UNCHANGED <<printed, conn, events, position, toPublish>>
  BY DEF BusInv, TypeOK, Io, Connected, Closed, pubVars, dispVars
<1>1. PICK k \in Key :
        /\ event_msgs_' = [event_msgs_ EXCEPT ![k] = <<>>]
        /\ \/ /\ since' = [since EXCEPT ![k] = position]
              /\ \E t \in Type : connections_' = [connections_ EXCEPT ![k] = t]
           \/ /\ since' = since
              /\ connections_' = [connections_ EXCEPT ![k] = None]
  BY Zenon DEF Io, Connected, Closed
<1>2. \A j \in Key : j # k =>
        /\ History(j)' = History(j) /\ since'[j] = since[j]
        /\ connections_'[j] = connections_[j]
  <2>1. \A j \in Key : j # k =>
          /\ event_msgs_'[j] = event_msgs_[j] /\ since'[j] = since[j]
          /\ connections_'[j] = connections_[j]
    BY <1>0, <1>1 DEF TypeOK
  <2> QED
    BY <1>0, <2>1, Zenon DEF History
<1>3. /\ Increasing(History(k)')
      /\ \A e \in Event : Inside(History(k)', e) => Inside(History(k), e)
  <2>1. printed[k] \in Seq(Event) /\ event_msgs_[k] \in Seq(Event)
    BY <1>0 DEF TypeOK
  <2>2. History(k) = printed[k] \o event_msgs_[k]
    BY <1>0, HistoryIdle
  <2>3. event_msgs_'[k] = <<>>
    BY <1>0, <1>1 DEF TypeOK
  <2>4. History(k)' = (printed[k] \o <<>>) \o <<>>
    BY <1>0, <2>3, Zenon DEF History
  <2>5. (printed[k] \o <<>>) \o <<>> = printed[k]
    BY <2>1, ConcatEmptySeq
  <2>6. Increasing(printed[k] \o event_msgs_[k])
    BY <2>2, Zenon DEF ToldInv, OrderInv
  <2>7. /\ Increasing(printed[k])
        /\ \A e \in Event : Inside(printed[k], e)
              => Inside(printed[k] \o event_msgs_[k], e)
    BY <2>1, <2>6, IncreasingPrefix
  <2> QED
    BY <2>2, <2>4, <2>5, <2>7, Zenon
<1>4. OrderInv'
  <2>1. ASSUME NEW j \in Key
        PROVE  /\ Increasing(History(j)')
               /\ \A e \in Event : Inside(History(j)', e) => e <= position
    <3>1. CASE j = k
      BY <1>3, <3>1, Zenon DEF ToldInv, OrderInv
    <3>2. CASE j # k
      BY <1>2, <3>2, Zenon DEF ToldInv, OrderInv
    <3> QED
      BY <3>1, <3>2
  <2>2. \A j \in Key : j \notin toPublish'
    BY <1>0
  <2> QED
    BY <1>0, <2>1, <2>2, Zenon DEF OrderInv
<1>5. MissInv'
  <2>1. ASSUME NEW j \in Registered', NEW e \in Event, since'[j] < e
        PROVE  Inside(History(j)', e) <=>
                  /\ e <= position /\ Publications[e] = connections_'[j]
    <3>0. j \in Key
      BY DEF Registered
    <3>1. CASE j # k
      <4>1. j \in Registered
        BY <1>2, <3>0, <3>1 DEF Registered
      <4>2. Inside(History(j), e) <=>
              e <= position /\ Publications[e] = connections_[j]
        BY <1>0, <1>2, <2>1, <3>0, <3>1, <4>1, Zenon DEF ToldInv, MissInv
      <4> QED
        BY <1>2, <3>0, <3>1, <4>2, Zenon
    <3>2. CASE j = k
      <4>1. connections_'[k] # None
        BY <3>2 DEF Registered
      <4>2. since'[k] = position
        BY <1>0, <1>1, <4>1 DEF TypeOK
      <4>3. ~(e <= position)
        BY <1>0, <2>1, <3>2, <4>2, EventNat DEF TypeOK
      <4>4. ~Inside(History(k)', e)
        BY <1>3, <4>3, Zenon DEF ToldInv, OrderInv
      <4> QED
        BY <3>2, <4>3, <4>4
    <3> QED
      BY <3>1, <3>2
  <2>2. \A j \in Key : j \notin toPublish'
    BY <1>0
  <2>3. \A j \in Registered' : j \in Key
    BY DEF Registered
  <2> QED
    BY <1>0, <2>1, <2>2, <2>3, Zenon DEF MissInv
<1> QED
  BY <1>4, <1>5 DEF ToldInv

LEMMA ToldStep == BusInv /\ ToldInv /\ [Next]_vars => ToldInv'
<1> SUFFICES ASSUME BusInv, ToldInv, [Next]_vars PROVE ToldInv'
  OBVIOUS
<1>1. CASE \/ UNCHANGED vars \/ PublishEnd \/ DispatchBegin
           \/ (\E k \in Key : Fetch(k)) \/ PrintEvent \/ DispatchEnd
  <2>1. UNCHANGED <<connections_, position, toPublish, since>>
    BY <1>1 DEF vars, PublishEnd, DispatchBegin, Fetch, PrintEvent, DispatchEnd,
       pubVars, connVars
  <2>2. \A j \in Key : History(j)' = History(j)
    BY <1>1, HistoryMoves
  <2> QED
    BY <2>1, <2>2, ToldSame
<1> QED
  BY <1>1, ToldPublish, ToldEnqueue, ToldIo DEF Next, Publisher, Dispatcher

LEMMA ToldCorrect == Spec => [](BusInv /\ ToldInv)
  BY BusInit, BusStep, ToldInit, ToldStep, PTL DEF Spec

\* For any keys and publications, no event is printed twice for a key or after
\* a younger one, whatever connections come and go (fetch_and_clear_events).
THEOREM InOrderCorrect == Spec => []InOrder
<1>1. ToldInv => InOrder
  BY Zenon DEF ToldInv, OrderInv, InOrder, Increasing
<1> QED
  BY <1>1, ToldCorrect, PTL

\* And none of a registered connection's type is missed, none of another type
\* is told, once the publication in progress has reached it.
THEOREM NothingMissedCorrect == Spec => []NothingMissed
<1>1. ToldInv => NothingMissed
  <2> SUFFICES ASSUME ToldInv, NEW k \in Registered \ toPublish
               PROVE  {e \in Event : since[k] < e /\ \E i \in 1..Len(History(k)) :
                                                    History(k)[i] = e}
                        = {e \in Event : since[k] < e /\ e <= position
                                         /\ Publications[e] = connections_[k]}
    BY Zenon DEF NothingMissed
  <2>1. \A e \in Event : since[k] < e =>
          (Inside(History(k), e) <=>
              e <= position /\ Publications[e] = connections_[k])
    BY Zenon DEF ToldInv, MissInv
  <2> QED
    BY <2>1, Zenon DEF Inside
<1> QED
  BY <1>1, ToldCorrect, PTL
=============================================================================
