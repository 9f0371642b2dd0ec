------------------------ MODULE ConnectionPoolProofs ------------------------
(***************************************************************************)
(* The two ways in which main of clientserver.cc does not return.  From    *)
(* the wait of the io thread for a promise not set no step of any thread   *)
(* leads out; what it comes to is checked by TLC (ContextStops).  From the *)
(* sleep of a message thread that has missed stop()'s notification no step *)
(* of the program does: wait() has to wake for no reason.  A third way for *)
(* the program to end badly, the exception of a promise set twice, is      *)
(* traced to the one race that can cause it.                               *)
(***************************************************************************)
EXTENDS ConnectionPool, TLAPS

\* The io thread waits for a promise that is not set.
Blocked == io = "getting" /\ promise[getting] = "unset"

\* The message thread sleeps, and stop() has notified already.
Asleep == worker = "waiting" /\ main = "joining"

\* main returns only from the join of an io thread that has ended.
ReturnsLast == main = "returned" => io = "ended"

LEMMA ReturnsLastCorrect == Spec => []ReturnsLast
<1>1. Init => ReturnsLast
  BY DEF Init, ReturnsLast
<1>2. ReturnsLast /\ [Next]_vars => ReturnsLast'
  <2> SUFFICES ASSUME ReturnsLast, [Next]_vars PROVE ReturnsLast'
    OBVIOUS
  <2>1. CASE UNCHANGED vars
    BY <2>1 DEF ReturnsLast, vars, threadVars, ioVars
  <2>2. CASE Stop \/ StopSets
    BY <2>2 DEF Stop, StopSets, StopNotifies, ResetGuard, Return, ReturnsLast,
                ioVars
  <2>3. CASE Worker \/ WorkerWakes
    BY <2>3 DEF Worker, WorkerLoop, WorkerTest, WorkerSleeps, WorkerWakes,
                StartWrite, ArmTimer, PostGet, ReturnsLast, ioVars
  <2>4. CASE Handlers \/ EndIo
    BY <2>4 DEF Handlers, RunWrite, RunTimeout, RunGet, GetReturns, EndIo, Set,
                Running, ReturnsLast, threadVars
  <2>5. CASE Reactor \/ \E k \in Key : add_message(k) \/ Lose(k)
    BY <2>5 DEF Reactor, Establish, Expire, add_message, Lose, ReturnsLast,
                threadVars, ioVars
  <2> QED
    BY <2>1, <2>2, <2>3, <2>4, <2>5 DEF Next
<1> QED
  BY <1>1, <1>2, PTL DEF Spec

\* Every handler and every event of the reactor needs an io thread that runs.
LEMMA BlockedStays == Blocked /\ [Next]_vars => Blocked'
<1> SUFFICES ASSUME Blocked, [Next]_vars PROVE Blocked'
  OBVIOUS
<1>1. CASE UNCHANGED vars
  BY <1>1 DEF Blocked, vars, ioVars
<1>2. CASE Stop \/ StopSets
  BY <1>2 DEF Stop, StopSets, StopNotifies, ResetGuard, Return, Blocked, ioVars
<1>3. CASE Worker \/ WorkerWakes
  BY <1>3 DEF Worker, WorkerLoop, WorkerTest, WorkerSleeps, WorkerWakes,
              StartWrite, ArmTimer, PostGet, Blocked, ioVars
<1>4. CASE Handlers \/ EndIo \/ Reactor
  BY <1>4 DEF Handlers, RunWrite, RunTimeout, RunGet, GetReturns, EndIo,
              Running, Reactor, Establish, Expire, Blocked
<1>5. CASE \E k \in Key : add_message(k) \/ Lose(k)
  BY <1>5 DEF add_message, Lose, Blocked, ioVars
<1> QED
  BY <1>1, <1>2, <1>3, <1>4, <1>5 DEF Next

\* future::get on a promise not set, on the one thread whose handlers set
\* promises: the thread never goes on and main never returns.
THEOREM BlockedForGood == Spec => [](Blocked => [](Blocked /\ main # "returned"))
<1>1. Blocked /\ ReturnsLast => main # "returned"
  BY DEF Blocked, ReturnsLast
<1>2. Blocked /\ [Next]_vars => Blocked'
  BY BlockedStays
<1> QED
  BY <1>1, <1>2, ReturnsLastCorrect, PTL DEF Spec

\* Once stop() has notified, main only waits and adds no message, and no other
\* thread ever notifies: a wake-up for no reason is what remains.
LEMMA AsleepStays == Asleep /\ [Next]_vars => Asleep' \/ WorkerWakes
<1> SUFFICES ASSUME Asleep, [Next]_vars PROVE Asleep' \/ WorkerWakes
  OBVIOUS
<1>1. CASE UNCHANGED vars
  BY <1>1 DEF Asleep, vars, threadVars
<1>2. CASE Stop \/ StopSets
  BY <1>2 DEF Stop, StopSets, StopNotifies, ResetGuard, Return, Asleep
<1>3. CASE Worker
  BY <1>3 DEF Worker, WorkerLoop, WorkerTest, WorkerSleeps, StartWrite,
              ArmTimer, PostGet, Asleep
<1>4. CASE Handlers \/ EndIo \/ Reactor
  BY <1>4 DEF Handlers, RunWrite, RunTimeout, RunGet, GetReturns, EndIo,
              Reactor, Establish, Expire, Asleep, threadVars
<1>5. CASE \E k \in Key : add_message(k) \/ Lose(k)
  BY <1>5 DEF add_message, Lose, Asleep, threadVars
<1> QED
  BY <1>1, <1>2, <1>3, <1>4, <1>5 DEF Next

\* The notification of stop() that finds nobody asleep yet is not repeated: the
\* message thread that falls asleep after it sleeps, and main waits in join, for
\* as long as the condition variable does not wake the thread for no reason.
THEOREM WakeupLostForGood ==
    Spec /\ [][~WorkerWakes]_vars => [](Asleep => [](Asleep /\ main # "returned"))
<1>1. Asleep => main # "returned"
  BY DEF Asleep
<1>2. Asleep /\ [Next]_vars /\ [~WorkerWakes]_vars => Asleep'
  <2>1. Asleep /\ UNCHANGED vars => Asleep'
    BY DEF Asleep, vars, threadVars
  <2> QED
    BY <2>1, AsleepStays
<1> QED
  BY <1>1, <1>2, PTL DEF Spec

-----------------------------------------------------------------------------
(* The exception.  A promise has two setters, the handler of the write and *)
(* that of the timeout of its message: each runs at most once, so only the *)
(* two together can throw.                                                 *)

HandlerSet == [kind : {"write", "timeout", "get"}, m : Nat, ok : BOOLEAN]

Holds(r, kind, m) == \E i \in DOMAIN r : r[i].kind = kind /\ r[i].m = m

Distinct(r) ==
    \A i, j \in DOMAIN r :
        r[i].kind # "get" /\ r[i].kind = r[j].kind /\ r[i].m = r[j].m => i = j

Contains(w, m) == \E i \in DOMAIN w : w[i] = m

Injective(w) == \A i, j \in DOMAIN w : w[i] = w[j] => i = j

\* The write of m has not been handled yet, nor its timeout.
Unwritten(m) ==
    Holds(ready, "write", m) \/ \E k \in Key : Contains(writes[k], m)

Ticking(m) == Holds(ready, "timeout", m) \/ \E k \in Key : timer_[k] = m

\* The message thread has started the write of m, and its timer.
Begun(m) == m < held \/ (m = held /\ worker # "taken")

Timed(m) == m < held \/ (m = held /\ worker \notin {"taken", "written"})

\* What throws is the second setter of a promise, when the first has run.
AbortIsRace ==
    [][io' = "aborted" =>
         LET h == Head(ready)
         IN  \/ h.kind = "write" /\ promise[h.m] = "false" /\ ~Ticking(h.m)
             \/ h.kind = "timeout" /\ ~Unwritten(h.m)]_vars

PoolType ==
    /\ key \in Seq(Key) /\ Len(key) <= MaxMessages
    /\ message_queue_ \in Seq(Nat)
    /\ held \in 0 .. Len(key)
    /\ worker \in {"taken", "written", "armed"} => held # 0
    /\ worker \in {"loop", "entering", "woken", "falling", "waiting", "taken",
                   "written", "armed", "exited"}
    /\ writes \in [Key -> Seq(Nat)]
    /\ timer_ \in [Key -> Nat]
    /\ promise \in [Message -> {"unset", "true", "false"}]
    /\ ready \in Seq(HandlerSet)
    /\ \A i \in DOMAIN ready : ready[i].m \in 1 .. Len(key)

\* The messages still queued are later ones.
QueueInv ==
    /\ \A i \in DOMAIN message_queue_ :
          held < message_queue_[i] /\ message_queue_[i] <= Len(key)
    /\ \A i, j \in DOMAIN message_queue_ :
          i < j => message_queue_[i] < message_queue_[j]

BegunInv ==
    \A m \in Message :
        /\ Unwritten(m) => Begun(m)
        /\ Ticking(m) => Timed(m)
        /\ promise[m] # "unset" => Begun(m)

\* Each write and each timeout is outstanding once.
OnceInv ==
    /\ Distinct(ready)
    /\ \A k \in Key :
          /\ Injective(writes[k])
          /\ \A i \in DOMAIN writes[k] :
                /\ writes[k][i] \in 1 .. Len(key) /\ key[writes[k][i]] = k
                /\ ~Holds(ready, "write", writes[k][i])
          /\ timer_[k] # 0 => /\ timer_[k] \in 1 .. Len(key)
                              /\ key[timer_[k]] = k
                              /\ ~Holds(ready, "timeout", timer_[k])

\* A promise set before its write is handled was set by the timeout.
RaceInv ==
    \A m \in Message :
        promise[m] # "unset" /\ Unwritten(m) =>
            promise[m] = "false" /\ Timed(m) /\ ~Ticking(m)

PoolInv == PoolType /\ QueueInv /\ BegunInv /\ OnceInv /\ RaceInv

LEMMA HoldsAppend ==
    ASSUME NEW r \in Seq(HandlerSet), NEW h \in HandlerSet
    PROVE  /\ \A kind, m : Holds(Append(r, h), kind, m) <=>
                              Holds(r, kind, m) \/ (h.kind = kind /\ h.m = m)
           /\ Distinct(r) /\ (h.kind = "get" \/ ~Holds(r, h.kind, h.m))
                 => Distinct(Append(r, h))
<1> DEFINE a == Append(r, h)
<1>1. /\ DOMAIN r = 1 .. Len(r) /\ DOMAIN a = 1 .. Len(r) + 1
      /\ Len(r) \in Nat
      /\ \A i \in 1 .. Len(r) : a[i] = r[i]
      /\ a[Len(r) + 1] = h
  OBVIOUS
<1> HIDE DEF a
<1> DEFINE n == Len(r)
<1> HIDE DEF n
<1>2. \A i : i \in DOMAIN a <=> i \in DOMAIN r \/ i = n + 1
  BY <1>1 DEF n
<1>3. (\A i \in DOMAIN r : a[i] = r[i]) /\ a[n + 1] = h
  BY <1>1 DEF n
<1>4. ASSUME NEW kind, NEW m
      PROVE  Holds(a, kind, m) <=> Holds(r, kind, m) \/ (h.kind = kind /\ h.m = m)
  BY <1>2, <1>3 DEF Holds
<1>5. ASSUME Distinct(r), h.kind = "get" \/ ~Holds(r, h.kind, h.m)
      PROVE  Distinct(a)
  BY <1>2, <1>3, <1>5 DEF Distinct, Holds
<1> QED
  BY <1>4, <1>5 DEF a

LEMMA HoldsTail ==
    ASSUME NEW r \in Seq(HandlerSet), r # <<>>
    PROVE  /\ \A kind, m : Holds(Tail(r), kind, m) => Holds(r, kind, m)
           /\ Holds(r, Head(r).kind, Head(r).m)
           /\ Distinct(r) => /\ Distinct(Tail(r))
                             /\ Head(r).kind # "get" =>
                                  ~Holds(Tail(r), Head(r).kind, Head(r).m)
<1> DEFINE t == Tail(r)
<1>1. /\ \A i \in DOMAIN t : i + 1 \in DOMAIN r /\ t[i] = r[i + 1] /\ i \in Nat
      /\ 1 \in DOMAIN r /\ Head(r) = r[1]
  OBVIOUS
<1>2. \A i \in DOMAIN t : i # 0
  OBVIOUS
<1> HIDE DEF t
<1>3. ASSUME NEW kind, NEW m, Holds(t, kind, m) PROVE Holds(r, kind, m)
  BY <1>1, <1>3 DEF Holds
<1>4. Holds(r, Head(r).kind, Head(r).m)
  BY <1>1 DEF Holds
<1>5. ASSUME Distinct(r) PROVE Distinct(t)
  BY <1>1, <1>5 DEF Distinct
<1>6. ASSUME Distinct(r), Head(r).kind # "get", Holds(t, Head(r).kind, Head(r).m)
      PROVE  FALSE
  <2>1. PICK i \in DOMAIN t : t[i].kind = Head(r).kind /\ t[i].m = Head(r).m
    BY <1>6 DEF Holds
  <2>2. i + 1 = 1
    BY <1>1, <1>6, <2>1 DEF Distinct
  <2> QED
    BY <1>1, <1>2, <2>2
<1> QED
  BY <1>3, <1>4, <1>5, <1>6 DEF t

\* The end of a connect: the handlers of the writes in w are ready.
LEMMA HoldsConcat ==
    ASSUME NEW r \in Seq(HandlerSet), NEW w \in Seq(Nat), NEW ok \in BOOLEAN,
           NEW a, a = [i \in DOMAIN w |-> Handler("write", w[i], ok)]
    PROVE  /\ r \o a \in Seq(HandlerSet)
           /\ \A kind, m : Holds(r \o a, kind, m) =>
                 Holds(r, kind, m) \/ (kind = "write" /\ Contains(w, m))
           /\ Distinct(r) /\ Injective(w)
                 /\ (\A i \in DOMAIN w : ~Holds(r, "write", w[i]))
                 => Distinct(r \o a)
<1>1. a \in Seq(HandlerSet) /\ Len(a) = Len(w) /\ DOMAIN a = DOMAIN w
  <2>1. \A i \in DOMAIN w : Handler("write", w[i], ok) \in HandlerSet
    BY DEF Handler, HandlerSet
  <2>2. DOMAIN w = 1 .. Len(w) /\ Len(w) \in Nat
    OBVIOUS
  <2> QED
    BY <2>1, <2>2
<1>2. \A i \in DOMAIN a : a[i].kind = "write" /\ a[i].m = w[i]
  BY DEF Handler
<1> DEFINE c == r \o a
           n == Len(r)
<1>3. \A i \in DOMAIN c :
         \/ i \in DOMAIN r /\ c[i] = r[i]
         \/ i - n \in DOMAIN a /\ c[i] = a[i - n]
  BY <1>1
<1>4. /\ c \in Seq(HandlerSet) /\ n \in Nat
      /\ \A i \in DOMAIN c : i \in Nat
  BY <1>1
<1> HIDE DEF c, n
<1>5. \A i \in DOMAIN c :
         \/ i \in DOMAIN r /\ c[i] = r[i]
         \/ i - n \in DOMAIN w /\ c[i].kind = "write" /\ c[i].m = w[i - n]
  BY <1>1, <1>2, <1>3
<1>6. ASSUME NEW kind, NEW m, Holds(c, kind, m)
      PROVE  Holds(r, kind, m) \/ (kind = "write" /\ Contains(w, m))
  BY <1>5, <1>6 DEF Holds, Contains
<1>7. ASSUME Distinct(r), Injective(w),
             \A i \in DOMAIN w : ~Holds(r, "write", w[i]),
             NEW i \in DOMAIN c, NEW j \in DOMAIN c,
             c[i].kind # "get", c[i].kind = c[j].kind, c[i].m = c[j].m
      PROVE  i = j
  <2>1. CASE i \in DOMAIN r /\ c[i] = r[i] /\ j \in DOMAIN r /\ c[j] = r[j]
    BY <1>7, <2>1 DEF Distinct
  <2>2. CASE /\ i - n \in DOMAIN w /\ c[i].kind = "write" /\ c[i].m = w[i - n]
             /\ j - n \in DOMAIN w /\ c[j].kind = "write" /\ c[j].m = w[j - n]
    <3>1. i - n = j - n
      BY <1>7, <2>2 DEF Injective
    <3> QED
      BY <1>4, <3>1
  <2>3. CASE /\ i \in DOMAIN r /\ c[i] = r[i]
             /\ j - n \in DOMAIN w /\ c[j].kind = "write" /\ c[j].m = w[j - n]
    BY <1>7, <2>3 DEF Holds
  <2>4. CASE /\ j \in DOMAIN r /\ c[j] = r[j]
             /\ i - n \in DOMAIN w /\ c[i].kind = "write" /\ c[i].m = w[i - n]
    BY <1>7, <2>4 DEF Holds
  <2> QED
    BY <1>5, <2>1, <2>2, <2>3, <2>4
<1>8. ASSUME Distinct(r), Injective(w),
             \A i \in DOMAIN w : ~Holds(r, "write", w[i])
      PROVE  Distinct(c)
  BY <1>7, <1>8 DEF Distinct
<1> QED
  BY <1>4, <1>6, <1>8 DEF c

\* What a step does to a message, whatever action it is of.
MessageStep(m) ==
    /\ Begun(m) => Begun(m)'
    /\ Timed(m) => Timed(m)'
    /\ Unwritten(m)' => \/ Unwritten(m)
                        \/ m = held /\ worker = "taken" /\ Begun(m)'
    /\ Ticking(m)' => \/ Ticking(m)
                      \/ m = held /\ worker = "written" /\ Timed(m)'
    /\ \/ promise'[m] = promise[m]
       \/ Begun(m) /\ ~Unwritten(m)'
       \/ Timed(m) /\ promise'[m] = "false" /\ ~Ticking(m)'

LEMMA RaceStep ==
    ASSUME PoolInv, \A m \in Message : MessageStep(m)
    PROVE  BegunInv' /\ RaceInv'
<1>1. \A m \in Message : Timed(m) => Begun(m)
  BY DEF Timed, Begun
<1>2. ASSUME NEW m \in Message
      PROVE  /\ Unwritten(m)' => Begun(m)'
             /\ Ticking(m)' => Timed(m)'
             /\ promise'[m] # "unset" => Begun(m)'
  BY <1>1, <1>2, Zenon DEF PoolInv, BegunInv, MessageStep
<1>3. ASSUME NEW m \in Message, promise'[m] # "unset", Unwritten(m)'
      PROVE  promise'[m] = "false" /\ Timed(m)' /\ ~Ticking(m)'
  <2>1. CASE promise'[m] = promise[m]
    <3>1. ~(m = held /\ worker = "taken")
      <4>1. Begun(m)
        BY <1>3, <2>1 DEF PoolInv, BegunInv
      <4>2. held \in Nat /\ m \in Nat
        BY DEF PoolInv, PoolType, Message
      <4> QED
        BY <4>1, <4>2 DEF Begun
    <3>2. Unwritten(m)
      BY <1>3, <3>1 DEF MessageStep
    <3>3. promise[m] = "false" /\ Timed(m) /\ ~Ticking(m)
      BY <1>3, <2>1, <3>2 DEF PoolInv, RaceInv
    <3>4. ~(m = held /\ worker = "written")
      <4>1. held \in Nat /\ m \in Nat
        BY DEF PoolInv, PoolType, Message
      <4> QED
        BY <3>3, <4>1 DEF Timed
    <3> QED
      BY <2>1, <3>3, <3>4, Zenon DEF MessageStep
  <2>2. CASE Timed(m) /\ promise'[m] = "false" /\ ~Ticking(m)'
    BY <2>2, Zenon DEF MessageStep
  <2> QED
    BY <1>3, <2>1, <2>2, Zenon DEF MessageStep
<1> QED
  BY <1>2, <1>3, Zenon DEF BegunInv, RaceInv

LEMMA PoolInit == MaxMessages \in Nat /\ Init => PoolInv
<1> SUFFICES ASSUME MaxMessages \in Nat, Init PROVE PoolInv
  OBVIOUS
<1>1. PoolType
  BY DEF Init, PoolType
<1>2. QueueInv
  BY DEF Init, QueueInv
<1>3. \A m \in Message : ~Unwritten(m) /\ ~Ticking(m) /\ promise[m] = "unset"
  BY DEF Init, Unwritten, Ticking, Holds, Contains, Message
<1>4. OnceInv
  BY DEF Init, OnceInv, Distinct, Injective, Holds
<1> QED
  BY <1>1, <1>2, <1>3, <1>4, Zenon DEF PoolInv, BegunInv, RaceInv

\* Steps that leave the messages where they are.
LEMMA QuietStep ==
    ASSUME PoolInv,
           UNCHANGED <<key, message_queue_, held, writes, timer_, promise, ready>>,
           \/ worker' = worker
           \/ /\ worker \notin {"taken", "written", "armed"}
              /\ worker' \in {"entering", "woken", "falling", "waiting", "exited"}
    PROVE  PoolInv'
<1>1. PoolType'
  BY DEF PoolInv, PoolType
<1>2. QueueInv'
  BY DEF PoolInv, QueueInv
<1>3. OnceInv'
  BY DEF PoolInv, OnceInv
<1>4. ASSUME NEW m \in Message PROVE MessageStep(m)
  <2>1. (Begun(m) => Begun(m)') /\ (Timed(m) => Timed(m)')
    BY DEF Begun, Timed
  <2>2. (Unwritten(m)' => Unwritten(m)) /\ (Ticking(m)' => Ticking(m))
    BY DEF Unwritten, Ticking
  <2> QED
    BY <2>1, <2>2 DEF MessageStep
<1> QED
  BY <1>1, <1>2, <1>3, <1>4, RaceStep, Zenon DEF PoolInv

LEMMA AddStep ==
    ASSUME PoolInv, MaxMessages \in Nat, NEW k \in Key, add_message(k)
    PROVE  PoolInv'
<1> DEFINE n == Len(key)
<1>0. /\ key \in Seq(Key) /\ n \in Nat /\ n < MaxMessages
      /\ key' = Append(key, k) /\ Len(key') = n + 1
      /\ \A i \in 1 .. n : key'[i] = key[i]
      /\ message_queue_' = Append(message_queue_, n + 1)
      /\ UNCHANGED <<held, writes, timer_, promise, ready>>
      /\ message_queue_ \in Seq(Nat) /\ held \in 0 .. n
  BY DEF PoolInv, PoolType, add_message, connVars, ioVars
<1>1. worker' = worker \/ (worker = "waiting" /\ worker' = "woken")
  BY DEF add_message, Wake
<1>2. Len(key)' = n + 1
  BY <1>0
<1> HIDE DEF n
<1>3. PoolType'
  <2>1. key' \in Seq(Key) /\ Len(key)' <= MaxMessages
    BY <1>0, <1>2
  <2>2. message_queue_' \in Seq(Nat) /\ held' \in 0 .. Len(key)'
    BY <1>0, <1>2
  <2>3. \A m \in 1 .. n : m \in 1 .. n + 1
    BY <1>0
  <2>4. \A i \in DOMAIN ready : ready[i].m \in 1 .. n
    BY DEF PoolInv, PoolType, n
  <2>5. \A i \in DOMAIN ready' : ready'[i].m \in 1 .. Len(key)'
    <3>1. ready' = ready
      BY <1>0
    <3> QED
      BY <1>2, <2>3, <2>4, <3>1, Zenon
  <2> QED
    BY <1>0, <1>1, <2>1, <2>2, <2>5 DEF PoolInv, PoolType
<1>4. QueueInv'
  <2>1. /\ DOMAIN message_queue_' = 1 .. Len(message_queue_) + 1
        /\ DOMAIN message_queue_ = 1 .. Len(message_queue_)
        /\ Len(message_queue_) \in Nat
        /\ \A i \in 1 .. Len(message_queue_) : message_queue_'[i] = message_queue_[i]
        /\ message_queue_'[Len(message_queue_) + 1] = n + 1
    BY <1>0
  <2> DEFINE l == Len(message_queue_)
  <2> HIDE DEF l
  <2>2. /\ l \in Nat /\ message_queue_'[l + 1] = n + 1
        /\ \A i \in DOMAIN message_queue_' : i \in Nat /\ i <= l + 1
        /\ \A i \in DOMAIN message_queue_' :
              \/ i = l + 1
              \/ /\ i < l + 1 /\ i \in DOMAIN message_queue_
                 /\ message_queue_'[i] = message_queue_[i]
    BY <2>1 DEF l
  <2>3. \A i \in DOMAIN message_queue_ :
           message_queue_[i] \in Nat /\ held < message_queue_[i]
           /\ message_queue_[i] < n + 1
    BY <1>0 DEF PoolInv, QueueInv, n
  <2>4. ASSUME NEW i \in DOMAIN message_queue_'
        PROVE  held' < message_queue_'[i] /\ message_queue_'[i] <= Len(key)'
    BY <1>0, <1>2, <2>2, <2>3
  <2>5. ASSUME NEW i \in DOMAIN message_queue_',
               NEW j \in DOMAIN message_queue_', i < j
        PROVE  message_queue_'[i] < message_queue_'[j]
    <3>1. i # l + 1
      BY <2>2, <2>5
    <3>2. i \in DOMAIN message_queue_ /\ message_queue_'[i] = message_queue_[i]
          /\ message_queue_[i] < n + 1
      BY <2>2, <2>3, <3>1
    <3>3. CASE j = l + 1
      BY <2>2, <3>2, <3>3
    <3>4. CASE j \in DOMAIN message_queue_ /\ message_queue_'[j] = message_queue_[j]
      BY <2>5, <3>2, <3>4 DEF PoolInv, QueueInv
    <3> QED
      BY <2>2, <3>3, <3>4
  <2> QED
    BY <2>4, <2>5 DEF QueueInv
<1>5. OnceInv'
  <2>1. ASSUME NEW m \in 1 .. n PROVE m \in 1 .. Len(key)' /\ key'[m] = key[m]
    BY <1>0, <1>2
  <2> QED
    BY <1>0, <2>1 DEF PoolInv, OnceInv, n
<1>6. ASSUME NEW m \in Message PROVE MessageStep(m)
  <2>1. (Begun(m) => Begun(m)') /\ (Timed(m) => Timed(m)')
    BY <1>0, <1>1 DEF Begun, Timed
  <2>2. (Unwritten(m)' => Unwritten(m)) /\ (Ticking(m)' => Ticking(m))
    BY <1>0 DEF Unwritten, Ticking
  <2> QED
    BY <1>0, <2>1, <2>2 DEF MessageStep
<1> QED
  BY <1>3, <1>4, <1>5, <1>6, RaceStep, Zenon DEF PoolInv

\* The message thread takes the next message.
LEMMA TakeStep ==
    ASSUME PoolInv, message_queue_ # <<>>,
           worker' = "taken", worker \in {"entering", "woken"},
           held' = Head(message_queue_),
           message_queue_' = Tail(message_queue_),
           UNCHANGED <<key, writes, timer_, promise, ready>>
    PROVE  PoolInv'
<1>0. /\ message_queue_ \in Seq(Nat) /\ held \in 0 .. Len(key)
      /\ Len(key) \in Nat
  BY DEF PoolInv, PoolType
<1>1. /\ 1 \in DOMAIN message_queue_ /\ held' = message_queue_[1]
      /\ message_queue_' \in Seq(Nat)
  BY <1>0
<1>2. \A i \in DOMAIN message_queue_' :
         /\ i \in Nat /\ 1 < i + 1 /\ i + 1 \in DOMAIN message_queue_
         /\ message_queue_'[i] = message_queue_[i + 1]
  BY <1>0
<1>3. held < held' /\ held' <= Len(key) /\ held' \in Nat
  BY <1>0, <1>1 DEF PoolInv, QueueInv
<1>4. PoolType'
  <2>1. held' \in 0 .. Len(key) /\ held' # 0
    BY <1>0, <1>3
  <2> QED
    BY <1>1, <2>1 DEF PoolInv, PoolType
<1>5. QueueInv'
  <2>1. ASSUME NEW i \in DOMAIN message_queue_'
        PROVE  held' < message_queue_'[i] /\ message_queue_'[i] <= Len(key)'
    BY <1>1, <1>2 DEF PoolInv, QueueInv
  <2>2. ASSUME NEW i \in DOMAIN message_queue_',
               NEW j \in DOMAIN message_queue_', i < j
        PROVE  message_queue_'[i] < message_queue_'[j]
    <3>1. i + 1 < j + 1
      BY <1>2, <2>2
    <3> QED
      BY <1>2, <3>1 DEF PoolInv, QueueInv
  <2> QED
    BY <2>1, <2>2 DEF QueueInv
<1>6. OnceInv'
  BY DEF PoolInv, OnceInv
<1>7. ASSUME NEW m \in Message PROVE MessageStep(m)
  <2>1. m \in Nat /\ (m < held \/ m = held => m < held')
    BY <1>0, <1>3 DEF Message
  <2>2. (Begun(m) => Begun(m)') /\ (Timed(m) => Timed(m)')
    BY <2>1 DEF Begun, Timed
  <2>3. (Unwritten(m)' => Unwritten(m)) /\ (Ticking(m)' => Ticking(m))
    BY DEF Unwritten, Ticking
  <2> QED
    BY <2>2, <2>3 DEF MessageStep
<1> QED
  BY <1>4, <1>5, <1>6, <1>7, RaceStep, Zenon DEF PoolInv

\* The message the message thread holds.
LEMMA HeldMessage ==
    ASSUME PoolInv, MaxMessages \in Nat,
           worker \in {"taken", "written", "armed"}
    PROVE  /\ held \in Nat /\ held # 0 /\ held \in 1 .. Len(key)
           /\ held \in Message /\ key[held] \in Key
           /\ \A kind \in {"write", "timeout", "get"}, ok \in BOOLEAN :
                 /\ Handler(kind, held, ok) \in HandlerSet
                 /\ Handler(kind, held, ok).kind = kind
                 /\ Handler(kind, held, ok).m = held
<1>1. /\ key \in Seq(Key) /\ held \in 0 .. Len(key) /\ held # 0
      /\ Len(key) \in Nat /\ Len(key) <= MaxMessages
  BY DEF PoolInv, PoolType
<1>2. held \in 1 .. Len(key) /\ held \in Nat
  BY <1>1
<1> QED
  BY <1>1, <1>2 DEF Message, Handler, HandlerSet

\* A handler made ready has its message among those added.
LEMMA ReadyAppend ==
    ASSUME PoolInv, NEW h \in HandlerSet, h.m \in 1 .. Len(key)
    PROVE  /\ Append(ready, h) \in Seq(HandlerSet)
           /\ \A i \in DOMAIN Append(ready, h) :
                 Append(ready, h)[i].m \in 1 .. Len(key)
<1>1. ready \in Seq(HandlerSet) /\ \A i \in DOMAIN ready : ready[i].m \in 1 .. Len(key)
  BY DEF PoolInv, PoolType
<1>2. \A i \in DOMAIN Append(ready, h) :
         \/ i \in DOMAIN ready /\ Append(ready, h)[i] = ready[i]
         \/ Append(ready, h)[i] = h
  BY <1>1
<1> QED
  BY <1>1, <1>2

LEMMA StartStep ==
    ASSUME PoolInv, MaxMessages \in Nat, StartWrite
    PROVE  PoolInv'
<1> DEFINE k == key[held]
<1>0. /\ worker = "taken" /\ worker' = "written"
      /\ UNCHANGED <<key, message_queue_, held, timer_, promise>>
      /\ ready \in Seq(HandlerSet) /\ writes \in [Key -> Seq(Nat)]
  BY DEF StartWrite, queueVars, PoolInv, PoolType
<1>1. held \in Nat /\ held \in 1 .. Len(key) /\ held \in Message /\ k \in Key
  BY <1>0, HeldMessage
<1>2. ~Begun(held) /\ ~Timed(held)
  BY <1>0, <1>1 DEF Begun, Timed
<1>3. ~Unwritten(held) /\ ~Ticking(held)
  BY <1>1, <1>2 DEF PoolInv, BegunInv
<1>4. QueueInv'
  BY <1>0 DEF PoolInv, QueueInv
<1>5. ASSUME NEW m \in Message
      PROVE  /\ Begun(m) => Begun(m)'
             /\ Timed(m) => Timed(m)'
             /\ Begun(held)'
  BY <1>0, <1>1 DEF Begun, Timed
<1>6. CASE /\ writes' = [writes EXCEPT ![k] = Append(@, held)]
           /\ ready' = ready
  <2>1. /\ writes'[k] = Append(writes[k], held)
        /\ \A l \in Key : l # k => writes'[l] = writes[l]
        /\ writes' \in [Key -> Seq(Nat)] /\ writes[k] \in Seq(Nat)
    BY <1>0, <1>1, <1>6
  <2>2. /\ DOMAIN writes'[k] = 1 .. Len(writes[k]) + 1
        /\ DOMAIN writes[k] = 1 .. Len(writes[k])
        /\ Len(writes[k]) \in Nat
        /\ \A i \in 1 .. Len(writes[k]) : writes'[k][i] = writes[k][i]
        /\ writes'[k][Len(writes[k]) + 1] = held
    BY <1>1, <2>1
  <2> DEFINE n == Len(writes[k])
  <2> HIDE DEF n, k
  <2>3. \A i \in DOMAIN writes'[k] :
           \/ i = n + 1 /\ writes'[k][i] = held
           \/ i \in DOMAIN writes[k] /\ writes'[k][i] = writes[k][i]
    BY <2>2 DEF n
  <2>4. ~Contains(writes[k], held)
    BY <1>1, <1>3 DEF Unwritten
  <2>5. PoolType'
    BY <1>0, <1>6, <2>1 DEF PoolInv, PoolType
  <2>6. OnceInv'
    <3>1. Injective(writes'[k])
      BY <1>1, <2>3, <2>4 DEF PoolInv, OnceInv, Injective, Contains
    <3>2. ~Holds(ready, "write", held)
      BY <1>3 DEF Unwritten
    <3>3. ASSUME NEW l \in Key
          PROVE  /\ Injective(writes'[l])
                 /\ \A i \in DOMAIN writes'[l] :
                       /\ writes'[l][i] \in 1 .. Len(key)
                       /\ key[writes'[l][i]] = l
                       /\ ~Holds(ready, "write", writes'[l][i])
      <4>1. CASE l = k
        BY <1>1, <2>3, <3>1, <3>2, <4>1 DEF PoolInv, OnceInv, k
      <4>2. CASE l # k
        BY <2>1, <4>2 DEF PoolInv, OnceInv
      <4> QED
        BY <4>1, <4>2
    <3> QED
      BY <1>0, <1>6, <3>3 DEF PoolInv, OnceInv
  <2>7. ASSUME NEW m \in Message PROVE MessageStep(m)
    <3>1. Ticking(m)' => Ticking(m)
      BY <1>0, <1>6 DEF Ticking
    <3>2. ASSUME NEW l \in Key, Contains(writes'[l], m), m # held
          PROVE  Contains(writes[l], m)
      <4>1. CASE l = k
        BY <2>3, <3>2, <4>1 DEF Contains
      <4>2. CASE l # k
        BY <2>1, <3>2, <4>2
      <4> QED
        BY <4>1, <4>2
    <3>3. Unwritten(m)' => Unwritten(m) \/ m = held
      BY <1>6, <3>2 DEF Unwritten
    <3> QED
      BY <1>0, <1>5, <3>1, <3>3 DEF MessageStep
  <2> QED
    BY <1>4, <2>5, <2>6, <2>7, RaceStep, Zenon DEF PoolInv
<1>7. CASE /\ writes' = writes
           /\ ready' = Append(ready, Handler("write", held, socket_[k] = "connected"))
  <2> DEFINE h == Handler("write", held, socket_[k] = "connected")
  <2>1. h \in HandlerSet /\ h.kind = "write" /\ h.m = held
    BY <1>0, HeldMessage
  <2>2. ready' = Append(ready, h)
    BY <1>7
  <2> HIDE DEF h
  <2>3. /\ ready' \in Seq(HandlerSet)
        /\ \A i \in DOMAIN ready' : ready'[i].m \in 1 .. Len(key)
    BY <1>1, <2>1, <2>2, ReadyAppend
  <2>4. PoolType'
    BY <1>0, <1>7, <2>3 DEF PoolInv, PoolType
  <2>5. \A kind, m : Holds(ready', kind, m) <=>
                        Holds(ready, kind, m) \/ (kind = "write" /\ m = held)
    BY <1>0, <2>1, <2>2, HoldsAppend
  <2>6. Distinct(ready')
    <3>1. ~Holds(ready, h.kind, h.m)
      BY <1>3, <2>1 DEF Unwritten
    <3>2. Distinct(ready)
      BY DEF PoolInv, OnceInv
    <3> QED
      BY <1>0, <2>1, <2>2, <3>1, <3>2, HoldsAppend
  <2>7. OnceInv'
    <3>1. \A l \in Key : ~Contains(writes[l], held)
      BY <1>3 DEF Unwritten
    <3>2. \A l \in Key : \A i \in DOMAIN writes[l] :
             ~Holds(ready', "write", writes[l][i])
      BY <2>5, <3>1 DEF PoolInv, OnceInv, Contains
    <3>3. \A m : Holds(ready', "timeout", m) => Holds(ready, "timeout", m)
      BY <2>5
    <3> QED
      BY <1>0, <1>7, <2>6, <3>2, <3>3 DEF PoolInv, OnceInv
  <2>8. ASSUME NEW m \in Message PROVE MessageStep(m)
    <3>1. Ticking(m)' => Ticking(m)
      BY <1>0, <2>5 DEF Ticking
    <3>2. Unwritten(m)' => Unwritten(m) \/ m = held
      BY <1>7, <2>5 DEF Unwritten
    <3> QED
      BY <1>0, <1>5, <3>1, <3>2 DEF MessageStep
  <2> QED
    BY <1>4, <2>4, <2>7, <2>8, RaceStep, Zenon DEF PoolInv
<1> QED
  BY <1>6, <1>7 DEF StartWrite

LEMMA ArmStep ==
    ASSUME PoolInv, MaxMessages \in Nat, ArmTimer
    PROVE  PoolInv'
<1> DEFINE k == key[held]
<1>0. /\ worker = "written" /\ worker' = "armed"
      /\ UNCHANGED <<key, message_queue_, held, writes, promise, ready>>
      /\ timer_' = [timer_ EXCEPT ![k] = held]
      /\ timer_ \in [Key -> Nat]
  BY DEF ArmTimer, queueVars, ioVars, PoolInv, PoolType
<1>1. held \in Nat /\ held \in 1 .. Len(key) /\ held \in Message /\ k \in Key
  BY <1>0, HeldMessage
<1>2. /\ timer_'[k] = held /\ timer_' \in [Key -> Nat]
      /\ \A l \in Key : l # k => timer_'[l] = timer_[l]
  BY <1>0, <1>1
<1>3. ~Holds(ready, "timeout", held)
  <2>1. ~Timed(held)
    BY <1>0, <1>1 DEF Timed
  <2> QED
    BY <1>1, <2>1 DEF PoolInv, BegunInv, Ticking
<1>4. PoolType'
  BY <1>0, <1>1, <1>2 DEF PoolInv, PoolType
<1>5. QueueInv'
  BY <1>0 DEF PoolInv, QueueInv
<1>6. OnceInv'
  <2>1. ASSUME NEW l \in Key, timer_'[l] # 0
        PROVE  /\ timer_'[l] \in 1 .. Len(key) /\ key[timer_'[l]] = l
               /\ ~Holds(ready, "timeout", timer_'[l])
    <3>1. CASE l = k
      BY <1>1, <1>2, <1>3, <3>1
    <3>2. CASE l # k
      BY <1>2, <2>1, <3>2 DEF PoolInv, OnceInv
    <3> QED
      BY <3>1, <3>2
  <2> QED
    BY <1>0, <2>1 DEF PoolInv, OnceInv
<1>7. ASSUME NEW m \in Message PROVE MessageStep(m)
  <2>1. (Begun(m) => Begun(m)') /\ (Timed(m) => Timed(m)') /\ Timed(held)'
    BY <1>0, <1>1 DEF Begun, Timed
  <2>2. Unwritten(m)' => Unwritten(m)
    BY <1>0 DEF Unwritten
  <2>3. ASSUME NEW l \in Key, timer_'[l] = m, m # held PROVE timer_[l] = m
    BY <1>2, <2>3
  <2>4. Ticking(m)' => Ticking(m) \/ m = held
    BY <1>0, <2>3 DEF Ticking
  <2> QED
    BY <1>0, <2>1, <2>2, <2>4 DEF MessageStep
<1> QED
  BY <1>4, <1>5, <1>6, <1>7, RaceStep, Zenon DEF PoolInv

LEMMA PostStep ==
    ASSUME PoolInv, MaxMessages \in Nat, PostGet
    PROVE  PoolInv'
<1> DEFINE h == Handler("get", held, TRUE)
<1>0. /\ worker = "armed" /\ worker' = "loop"
      /\ UNCHANGED <<key, message_queue_, held, writes, timer_, promise>>
      /\ ready' = Append(ready, h) /\ ready \in Seq(HandlerSet)
  BY DEF PostGet, queueVars, connVars, PoolInv, PoolType
<1>1. h \in HandlerSet /\ h.kind = "get" /\ h.m = held /\ held \in 1 .. Len(key)
  BY <1>0, HeldMessage
<1> HIDE DEF h
<1>2. /\ ready' \in Seq(HandlerSet)
      /\ \A i \in DOMAIN ready' : ready'[i].m \in 1 .. Len(key)
  BY <1>0, <1>1, ReadyAppend
<1>3. \A kind, m : kind # "get" =>
         (Holds(ready', kind, m) <=> Holds(ready, kind, m))
  BY <1>0, <1>1, HoldsAppend
<1>4. Distinct(ready')
  BY <1>0, <1>1, HoldsAppend DEF PoolInv, OnceInv
<1>5. PoolType'
  BY <1>0, <1>2 DEF PoolInv, PoolType
<1>6. QueueInv'
  BY <1>0 DEF PoolInv, QueueInv
<1>7. \A m : /\ Holds(ready', "write", m) <=> Holds(ready, "write", m)
             /\ Holds(ready', "timeout", m) <=> Holds(ready, "timeout", m)
  BY <1>3
<1>8. OnceInv'
  BY <1>0, <1>4, <1>7 DEF PoolInv, OnceInv
<1>9. ASSUME NEW m \in Message PROVE MessageStep(m)
  <2>1. (Begun(m) => Begun(m)') /\ (Timed(m) => Timed(m)')
    BY <1>0 DEF Begun, Timed
  <2>2. (Unwritten(m)' => Unwritten(m)) /\ (Ticking(m)' => Ticking(m))
    BY <1>0, <1>7 DEF Unwritten, Ticking
  <2> QED
    BY <1>0, <2>1, <2>2 DEF MessageStep
<1> QED
  BY <1>5, <1>6, <1>8, <1>9, RaceStep, Zenon DEF PoolInv

\* The io thread takes the next handler.
LEMMA HandlerRuns ==
    ASSUME PoolInv, MaxMessages \in Nat, ready # <<>>, ready' = Tail(ready)
    PROVE  /\ Head(ready).m \in 1 .. Len(key) /\ Head(ready).m \in Message
           /\ ready' \in Seq(HandlerSet)
           /\ \A i \in DOMAIN ready' : ready'[i].m \in 1 .. Len(key)
           /\ \A kind, m : Holds(ready', kind, m) => Holds(ready, kind, m)
           /\ Holds(ready, Head(ready).kind, Head(ready).m)
           /\ Distinct(ready')
           /\ Head(ready).kind # "get" =>
                 ~Holds(ready', Head(ready).kind, Head(ready).m)
<1>1. /\ ready \in Seq(HandlerSet) /\ Distinct(ready)
      /\ \A i \in DOMAIN ready : ready[i].m \in 1 .. Len(key)
      /\ Len(key) \in Nat /\ Len(key) <= MaxMessages
  BY DEF PoolInv, PoolType, OnceInv
<1>2. Head(ready).m \in 1 .. Len(key)
  BY <1>1
<1>3. Head(ready).m \in Message
  BY <1>1, <1>2 DEF Message
<1>4. /\ ready' \in Seq(HandlerSet)
      /\ \A i \in DOMAIN ready' : i + 1 \in DOMAIN ready /\ ready'[i] = ready[i + 1]
  BY <1>1
<1>5. \A i \in DOMAIN ready' : ready'[i].m \in 1 .. Len(key)
  BY <1>1, <1>4
<1>6. /\ \A kind, m : Holds(ready', kind, m) => Holds(ready, kind, m)
      /\ Holds(ready, Head(ready).kind, Head(ready).m)
      /\ Distinct(ready')
      /\ Head(ready).kind # "get" =>
            ~Holds(ready', Head(ready).kind, Head(ready).m)
  BY <1>1, HoldsTail
<1> QED
  BY <1>2, <1>3, <1>4, <1>5, <1>6

\* The promise of a message set by one of its handlers, or found set.
LEMMA SetType ==
    ASSUME PoolType, NEW m, NEW v \in {"true", "false"}, Set(m, v)
    PROVE  /\ promise' \in [Message -> {"unset", "true", "false"}]
           /\ \A n \in Message : promise'[n] = promise[n]
                                 \/ (n = m /\ promise'[n] = v)
  BY DEF Set, PoolType

LEMMA RunWriteStep ==
    ASSUME PoolInv, MaxMessages \in Nat, RunWrite
    PROVE  PoolInv'
<1> PICK w : w = Head(ready).m
  OBVIOUS
<1> DEFINE v == IF Head(ready).ok THEN "true" ELSE "false"
<1>0. /\ ready # <<>> /\ Head(ready).kind = "write" /\ ready' = Tail(ready)
      /\ UNCHANGED <<key, message_queue_, held, worker, writes>>
      /\ timer_' = [timer_ EXCEPT ![key[w]] = 0]
      /\ Set(w, v)
  BY DEF RunWrite, Running, queueVars, threadVars
<1>1. /\ w \in Message
      /\ ready' \in Seq(HandlerSet)
      /\ \A i \in DOMAIN ready' : ready'[i].m \in 1 .. Len(key)
      /\ \A kind, m : Holds(ready', kind, m) => Holds(ready, kind, m)
      /\ Holds(ready, "write", w)
      /\ Distinct(ready')
      /\ ~Holds(ready', "write", w)
  BY <1>0, HandlerRuns
<1>2. v \in {"true", "false"}
  OBVIOUS
<1> HIDE DEF v
<1>3. /\ promise' \in [Message -> {"unset", "true", "false"}]
      /\ \A n \in Message : promise'[n] = promise[n] \/ n = w
  BY <1>0, <1>2, SetType DEF PoolInv
<1>4. timer_' \in [Key -> Nat] /\ \A l \in Key : timer_'[l] \in {0, timer_[l]}
  BY <1>0 DEF PoolInv, PoolType
<1>5. PoolType'
  BY <1>0, <1>1, <1>3, <1>4 DEF PoolInv, PoolType
<1>6. QueueInv'
  BY <1>0 DEF PoolInv, QueueInv
<1>7. OnceInv'
  BY <1>0, <1>1, <1>4 DEF PoolInv, OnceInv
<1>8. ~Unwritten(w)' /\ Begun(w)
  <2>1. Begun(w)
    BY <1>1 DEF PoolInv, BegunInv, Unwritten
  <2>2. \A l \in Key : ~Contains(writes[l], w)
    BY <1>1 DEF PoolInv, OnceInv, Contains
  <2> QED
    BY <1>0, <1>1, <2>1, <2>2 DEF Unwritten
<1>9. ASSUME NEW m \in Message PROVE MessageStep(m)
  <2>1. (Begun(m) => Begun(m)') /\ (Timed(m) => Timed(m)')
    BY <1>0 DEF Begun, Timed
  <2>2. Unwritten(m)' => Unwritten(m)
    BY <1>0, <1>1 DEF Unwritten
  <2>3. Ticking(m)' => Ticking(m)
    <3>1. m # 0
      BY DEF Message
    <3> QED
      BY <1>1, <1>4, <3>1 DEF Ticking
  <2> QED
    BY <1>3, <1>8, <2>1, <2>2, <2>3, Zenon DEF MessageStep
<1> QED
  BY <1>5, <1>6, <1>7, <1>9, RaceStep, Zenon DEF PoolInv

LEMMA RunTimeoutStep ==
    ASSUME PoolInv, MaxMessages \in Nat, RunTimeout
    PROVE  PoolInv'
<1> PICK w : w = Head(ready).m
  OBVIOUS
<1>0. /\ ready # <<>> /\ Head(ready).kind = "timeout" /\ ready' = Tail(ready)
      /\ UNCHANGED <<key, message_queue_, held, worker, writes, timer_>>
      /\ Set(w, "false")
  BY DEF RunTimeout, Running, queueVars, threadVars, connVars
<1>1. /\ w \in Message
      /\ ready' \in Seq(HandlerSet)
      /\ \A i \in DOMAIN ready' : ready'[i].m \in 1 .. Len(key)
      /\ \A kind, m : Holds(ready', kind, m) => Holds(ready, kind, m)
      /\ Holds(ready, "timeout", w)
      /\ Distinct(ready')
      /\ ~Holds(ready', "timeout", w)
  BY <1>0, HandlerRuns
<1>2. /\ promise' \in [Message -> {"unset", "true", "false"}]
      /\ \A n \in Message : promise'[n] = promise[n]
                            \/ (n = w /\ promise'[n] = "false")
  BY <1>0, SetType DEF PoolInv
<1>3. PoolType'
  BY <1>0, <1>1, <1>2 DEF PoolInv, PoolType
<1>4. QueueInv'
  BY <1>0 DEF PoolInv, QueueInv
<1>5. OnceInv'
  BY <1>0, <1>1 DEF PoolInv, OnceInv
<1>6. ~Ticking(w)' /\ Timed(w)
  <2>1. Timed(w)
    BY <1>1 DEF PoolInv, BegunInv, Ticking
  <2>2. w # 0
    BY <1>1 DEF Message
  <2>3. \A l \in Key : timer_[l] # w
    BY <1>1, <2>2 DEF PoolInv, OnceInv
  <2> QED
    BY <1>0, <1>1, <2>1, <2>3 DEF Ticking
<1>7. ASSUME NEW m \in Message PROVE MessageStep(m)
  <2>1. (Begun(m) => Begun(m)') /\ (Timed(m) => Timed(m)')
    BY <1>0 DEF Begun, Timed
  <2>2. (Unwritten(m)' => Unwritten(m)) /\ (Ticking(m)' => Ticking(m))
    BY <1>0, <1>1 DEF Unwritten, Ticking
  <2> QED
    BY <1>2, <1>6, <2>1, <2>2, Zenon DEF MessageStep
<1> QED
  BY <1>3, <1>4, <1>5, <1>7, RaceStep, Zenon DEF PoolInv

LEMMA RunGetStep ==
    ASSUME PoolInv, MaxMessages \in Nat, RunGet
    PROVE  PoolInv'
<1>0. /\ ready # <<>> /\ ready' = Tail(ready)
      /\ UNCHANGED <<key, message_queue_, held, worker, writes, timer_, promise>>
  BY DEF RunGet, Running, queueVars, threadVars, connVars
<1>1. /\ ready' \in Seq(HandlerSet)
      /\ \A i \in DOMAIN ready' : ready'[i].m \in 1 .. Len(key)
      /\ \A kind, m : Holds(ready', kind, m) => Holds(ready, kind, m)
      /\ Distinct(ready')
  BY <1>0, HandlerRuns
<1>2. PoolType'
  BY <1>0, <1>1 DEF PoolInv, PoolType
<1>3. QueueInv'
  BY <1>0 DEF PoolInv, QueueInv
<1>4. OnceInv'
  BY <1>0, <1>1 DEF PoolInv, OnceInv
<1>5. ASSUME NEW m \in Message PROVE MessageStep(m)
  <2>1. (Begun(m) => Begun(m)') /\ (Timed(m) => Timed(m)')
    BY <1>0 DEF Begun, Timed
  <2>2. (Unwritten(m)' => Unwritten(m)) /\ (Ticking(m)' => Ticking(m))
    BY <1>0, <1>1 DEF Unwritten, Ticking
  <2> QED
    BY <1>0, <2>1, <2>2 DEF MessageStep
<1> QED
  BY <1>2, <1>3, <1>4, <1>5, RaceStep, Zenon DEF PoolInv

\* The writes queued behind a connect become handlers.
LEMMA EstablishStep ==
    ASSUME PoolInv, NEW k \in Key, Establish(k)
    PROVE  PoolInv'
<1>0. /\ UNCHANGED <<key, message_queue_, held, worker, timer_, promise>>
      /\ writes' = [writes EXCEPT ![k] = <<>>]
      /\ ready \in Seq(HandlerSet) /\ writes \in [Key -> Seq(Nat)]
  BY DEF Establish, queueVars, threadVars, PoolInv, PoolType
<1>1. PICK ok \in BOOLEAN :
         ready' = ready \o [i \in DOMAIN writes[k] |->
                               Handler("write", writes[k][i], ok)]
  BY DEF Establish
<1> DEFINE a == [i \in DOMAIN writes[k] |-> Handler("write", writes[k][i], ok)]
<1>2. /\ Injective(writes[k])
      /\ \A i \in DOMAIN writes[k] :
            writes[k][i] \in 1 .. Len(key) /\ ~Holds(ready, "write", writes[k][i])
      /\ Distinct(ready)
  BY DEF PoolInv, OnceInv
<1>3. /\ ready' \in Seq(HandlerSet)
      /\ \A kind, m : Holds(ready', kind, m) =>
            Holds(ready, kind, m) \/ (kind = "write" /\ Contains(writes[k], m))
      /\ Distinct(ready')
  <2>1. writes[k] \in Seq(Nat) /\ ready' = ready \o a
    BY <1>0, <1>1
  <2> HIDE DEF a
  <2>2. a = [i \in DOMAIN writes[k] |-> Handler("write", writes[k][i], ok)]
    BY DEF a
  <2> QED
    BY <1>0, <1>2, <2>1, <2>2, HoldsConcat
<1>4. /\ writes' \in [Key -> Seq(Nat)] /\ writes'[k] = <<>>
      /\ \A l \in Key : l # k => writes'[l] = writes[l]
  BY <1>0
<1>5. \A i \in DOMAIN ready' : ready'[i].m \in 1 .. Len(key)
  <2>1. ASSUME NEW i \in DOMAIN ready' PROVE ready'[i].m \in 1 .. Len(key)
    <3>1. Holds(ready', ready'[i].kind, ready'[i].m)
      BY DEF Holds
    <3>2. CASE Holds(ready, ready'[i].kind, ready'[i].m)
      BY <3>2 DEF Holds, PoolInv, PoolType
    <3>3. CASE Contains(writes[k], ready'[i].m)
      BY <1>2, <3>3 DEF Contains
    <3> QED
      BY <1>3, <3>1, <3>2, <3>3
  <2> QED
    BY <2>1
<1>6. PoolType'
  BY <1>0, <1>3, <1>4, <1>5 DEF PoolInv, PoolType
<1>7. QueueInv'
  BY <1>0 DEF PoolInv, QueueInv
<1>8. OnceInv'
  <2>1. ASSUME NEW l \in Key
        PROVE  /\ Injective(writes'[l])
               /\ \A i \in DOMAIN writes'[l] :
                     /\ writes'[l][i] \in 1 .. Len(key) /\ key[writes'[l][i]] = l
                     /\ ~Holds(ready', "write", writes'[l][i])
    <3>1. CASE l = k
      BY <1>4, <3>1 DEF Injective
    <3>2. CASE l # k
      <4>1. /\ writes'[l] = writes[l] /\ Injective(writes[l])
            /\ \A i \in DOMAIN writes[l] :
                  /\ writes[l][i] \in 1 .. Len(key) /\ key[writes[l][i]] = l
                  /\ ~Holds(ready, "write", writes[l][i])
        BY <1>4, <3>2 DEF PoolInv, OnceInv
      <4>2. ASSUME NEW i \in DOMAIN writes[l]
            PROVE  ~Holds(ready', "write", writes[l][i])
        <5>1. ~Contains(writes[k], writes[l][i])
          BY <3>2 DEF PoolInv, OnceInv, Contains
        <5> QED
          BY <1>3, <4>1, <5>1, Zenon
      <4> QED
        BY <4>1, <4>2, Zenon
    <3> QED
      BY <3>1, <3>2
  <2>2. \A m : Holds(ready', "timeout", m) => Holds(ready, "timeout", m)
    BY <1>3
  <2> QED
    BY <1>0, <1>3, <2>1, <2>2 DEF PoolInv, OnceInv
<1>9. ASSUME NEW m \in Message PROVE MessageStep(m)
  <2>1. (Begun(m) => Begun(m)') /\ (Timed(m) => Timed(m)')
    BY <1>0 DEF Begun, Timed
  <2>2. ASSUME NEW l \in Key, Contains(writes'[l], m) PROVE Contains(writes[l], m)
    BY <1>4, <2>2 DEF Contains
  <2>3. Unwritten(m)' => Unwritten(m)
    BY <1>3, <2>2 DEF Unwritten
  <2>4. Ticking(m)' => Ticking(m)
    BY <1>0, <1>3 DEF Ticking
  <2> QED
    BY <1>0, <2>1, <2>3, <2>4 DEF MessageStep
<1> QED
  BY <1>6, <1>7, <1>8, <1>9, RaceStep, Zenon DEF PoolInv

LEMMA ExpireStep ==
    ASSUME PoolInv, NEW k \in Key, Expire(k)
    PROVE  PoolInv'
<1> PICK w : w = timer_[k]
  OBVIOUS
<1> DEFINE h == Handler("timeout", w, TRUE)
<1>0. /\ UNCHANGED <<key, message_queue_, held, worker, writes, promise>>
      /\ w # 0 /\ timer_' = [timer_ EXCEPT ![k] = 0]
      /\ ready' = Append(ready, h)
      /\ ready \in Seq(HandlerSet) /\ timer_ \in [Key -> Nat]
  BY DEF Expire, queueVars, threadVars, PoolInv, PoolType
<1>1. /\ w \in 1 .. Len(key) /\ w \in Nat /\ key[w] = k
      /\ ~Holds(ready, "timeout", w)
  BY <1>0 DEF PoolInv, OnceInv
<1>2. h \in HandlerSet /\ h.kind = "timeout" /\ h.m = w
  BY <1>1 DEF Handler, HandlerSet
<1> HIDE DEF h
<1>3. /\ ready' \in Seq(HandlerSet)
      /\ \A i \in DOMAIN ready' : ready'[i].m \in 1 .. Len(key)
  BY <1>0, <1>1, <1>2, ReadyAppend
<1>4. \A kind, m : Holds(ready', kind, m) <=>
                      Holds(ready, kind, m) \/ (kind = "timeout" /\ m = w)
  BY <1>0, <1>2, HoldsAppend
<1>5. Distinct(ready')
  BY <1>0, <1>1, <1>2, HoldsAppend DEF PoolInv, OnceInv
<1>6. /\ timer_' \in [Key -> Nat] /\ timer_'[k] = 0
      /\ \A l \in Key : l # k => timer_'[l] = timer_[l]
  BY <1>0
<1>7. PoolType'
  BY <1>0, <1>3, <1>6 DEF PoolInv, PoolType
<1>8. QueueInv'
  BY <1>0 DEF PoolInv, QueueInv
<1>9. OnceInv'
  <2>1. ASSUME NEW l \in Key, timer_'[l] # 0
        PROVE  /\ timer_'[l] \in 1 .. Len(key) /\ key[timer_'[l]] = l
               /\ ~Holds(ready', "timeout", timer_'[l])
    <3>1. l # k /\ timer_'[l] = timer_[l]
      BY <1>6, <2>1
    <3>2. timer_[l] \in 1 .. Len(key) /\ key[timer_[l]] = l
          /\ ~Holds(ready, "timeout", timer_[l])
      BY <2>1, <3>1 DEF PoolInv, OnceInv
    <3>3. timer_[l] # w
      BY <1>1, <3>1, <3>2
    <3> QED
      BY <1>4, <3>1, <3>2, <3>3
  <2>2. \A m : Holds(ready', "write", m) <=> Holds(ready, "write", m)
    BY <1>4
  <2> QED
    BY <1>0, <1>5, <2>1, <2>2 DEF PoolInv, OnceInv
<1>10. ASSUME NEW m \in Message PROVE MessageStep(m)
  <2>1. (Begun(m) => Begun(m)') /\ (Timed(m) => Timed(m)')
    BY <1>0 DEF Begun, Timed
  <2>2. Unwritten(m)' => Unwritten(m)
    BY <1>0, <1>4 DEF Unwritten
  <2>3. m # 0
    BY DEF Message
  <2>4. ASSUME NEW l \in Key, timer_'[l] = m PROVE timer_[l] = m
    BY <1>6, <2>3, <2>4
  <2>5. Ticking(m)' => Ticking(m)
    BY <1>4, <2>4 DEF Ticking
  <2> QED
    BY <1>0, <2>1, <2>2, <2>5 DEF MessageStep
<1> QED
  BY <1>7, <1>8, <1>9, <1>10, RaceStep, Zenon DEF PoolInv

LEMMA PoolStep ==
    MaxMessages \in Nat /\ PoolInv /\ [Next]_vars => PoolInv'
<1> SUFFICES ASSUME MaxMessages \in Nat, PoolInv, [Next]_vars PROVE PoolInv'
  OBVIOUS
<1>1. CASE UNCHANGED vars
  BY <1>1, QuietStep DEF vars, queueVars, threadVars, connVars, ioVars
<1>2. CASE StopSets \/ Stop
  BY <1>2, QuietStep DEF StopSets, Stop, StopNotifies, ResetGuard, Return, Wake,
     queueVars, connVars, ioVars
<1>3. CASE WorkerLoop \/ WorkerSleeps \/ WorkerWakes
  BY <1>3, QuietStep DEF WorkerLoop, WorkerSleeps, WorkerWakes, queueVars,
     connVars, ioVars
<1>4. CASE WorkerTest
  <2>1. CASE worker' = "taken"
    BY <1>4, <2>1, TakeStep DEF WorkerTest, connVars, ioVars
  <2>2. CASE worker' # "taken"
    BY <1>4, <2>2, QuietStep DEF WorkerTest, connVars, ioVars
  <2> QED
    BY <2>1, <2>2
<1>5. CASE StartWrite \/ ArmTimer \/ PostGet
  BY <1>5, StartStep, ArmStep, PostStep, Zenon
<1>6. CASE GetReturns \/ EndIo
  BY <1>6, QuietStep DEF GetReturns, EndIo, queueVars, threadVars, connVars
<1>7. CASE RunWrite \/ RunTimeout \/ RunGet
  BY <1>7, RunWriteStep, RunTimeoutStep, RunGetStep, Zenon
<1>8. CASE Reactor
  BY <1>8, EstablishStep, ExpireStep, Zenon DEF Reactor
<1>9. ASSUME NEW k \in Key, add_message(k) \/ Lose(k) PROVE PoolInv'
  <2>1. CASE add_message(k)
    BY <2>1, AddStep
  <2>2. CASE Lose(k)
    BY <2>2, QuietStep DEF Lose, queueVars, threadVars, ioVars
  <2> QED
    BY <1>9, <2>1, <2>2
<1> QED
  BY <1>1, <1>2, <1>3, <1>4, <1>5, <1>6, <1>7, <1>8, <1>9
     DEF Next, Worker, Handlers

\* The exception that ends the process is always the race of a write and its
\* own timeout: neither of the two ever sets the promise twice.
THEOREM AbortIsRaceCorrect ==
    ASSUME MaxMessages \in Nat
    PROVE  Spec => AbortIsRace
<1>1. ASSUME PoolInv, Next, io' = "aborted"
      PROVE  \/ /\ Head(ready).kind = "write" /\ promise[Head(ready).m] = "false"
                /\ ~Ticking(Head(ready).m)
             \/ Head(ready).kind = "timeout" /\ ~Unwritten(Head(ready).m)
  <2> DEFINE w == Head(ready).m
  <2>1. RunWrite \/ RunTimeout
    BY <1>1 DEF Next, StopSets, Stop, StopNotifies, ResetGuard, Return, Worker,
       WorkerLoop, WorkerTest, WorkerSleeps, WorkerWakes, StartWrite, ArmTimer,
       PostGet, Handlers, RunGet, GetReturns, Reactor, Establish, Expire, EndIo,
       add_message, Lose, ioVars
  <2>2. ready # <<>> /\ promise[w] # "unset"
    BY <1>1, <2>1 DEF RunWrite, RunTimeout, Running, Set, Next
  <2>3. w \in Message /\ Holds(ready, Head(ready).kind, w)
    <3>1. /\ ready \in Seq(HandlerSet) /\ Len(key) \in Nat
          /\ \A i \in DOMAIN ready : ready[i].m \in 1 .. Len(key)
          /\ Len(key) <= MaxMessages
      BY <1>1 DEF PoolInv, PoolType
    <3>2. 1 \in DOMAIN ready /\ Head(ready) = ready[1]
      BY <2>2, <3>1
    <3>3. w \in 1 .. Len(key)
      BY <3>1, <3>2
    <3> QED
      BY <3>1, <3>2, <3>3 DEF Holds, Message
  <2>4. Unwritten(w) => promise[w] = "false" /\ ~Ticking(w)
    BY <1>1, <2>2, <2>3 DEF PoolInv, RaceInv
  <2>5. CASE RunWrite
    <3>1. Head(ready).kind = "write"
      BY <2>5 DEF RunWrite, Running
    <3> QED
      BY <2>3, <2>4, <3>1 DEF Unwritten
  <2>6. CASE RunTimeout
    <3>1. Head(ready).kind = "timeout"
      BY <2>6 DEF RunTimeout, Running
    <3> QED
      BY <2>3, <2>4, <3>1 DEF Ticking
  <2> QED
    BY <2>1, <2>5, <2>6
<1>2. PoolInv /\ [Next]_vars =>
         [io' = "aborted" =>
            LET h == Head(ready)
            IN  \/ h.kind = "write" /\ promise[h.m] = "false" /\ ~Ticking(h.m)
                \/ h.kind = "timeout" /\ ~Unwritten(h.m)]_vars
  BY <1>1
<1>3. Init => PoolInv
  BY PoolInit
<1>4. PoolInv /\ [Next]_vars => PoolInv'
  BY PoolStep
<1> QED
  BY <1>2, <1>3, <1>4, PTL DEF Spec, AbortIsRace
=============================================================================
