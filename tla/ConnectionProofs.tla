-------------------------- MODULE ConnectionProofs --------------------------
(***************************************************************************)
(* Proofs about module Connection, for any messages and any bounds.        *)
(***************************************************************************)
EXTENDS Connection, TLAPS

-----------------------------------------------------------------------------
(* Handlers and the strand.                                                *)

\* Each kind of handler carries its own field, of the right type.
LEMMA HandlerFields ==
    ASSUME NEW h \in Handler
    PROVE  /\ h.kind \in {"push", "close", "wrote", "read"}
           /\ h.kind = "push" => h.msg \in Message
           /\ h.kind = "close" => h.reconnect \in BOOLEAN
           /\ h.kind = "wrote" => h.ok \in BOOLEAN /\ h = Wrote(h.ok)
           /\ h.kind = "read" => h.ok \in BOOLEAN
  BY DEF Handler, Push, CloseReq, Wrote, Read

LEMMA HandlerConstructors ==
    /\ \A m \in Message : Push(m) \in Handler /\ Push(m).kind = "push"
    /\ \A b \in BOOLEAN :
          /\ CloseReq(b) \in Handler /\ CloseReq(b).kind = "close"
          /\ Wrote(b) \in Handler /\ Wrote(b).kind = "wrote"
          /\ Wrote(b).ok = b
          /\ Read(b) \in Handler /\ Read(b).kind = "read"
  BY DEF Handler, Push, CloseReq, Wrote, Read

\* The outcome of an operation is a Boolean, and FALSE on a closed socket.
LEMMA OutcomeBoolean == Outcome \subseteq BOOLEAN /\ (dead_ => Outcome = {FALSE})
  BY DEF Outcome

\* What posting a handler does to the strand.
LEMMA Posted ==
    ASSUME strand \in Seq(Handler), NEW h \in Handler,
           strand' = Append(strand, h)
    PROVE  /\ strand' \in Seq(Handler)
           /\ DOMAIN strand' = 1..(Len(strand) + 1)
           /\ DOMAIN strand = 1..Len(strand)
           /\ Len(strand) \in Nat
           /\ \A i \in 1..Len(strand) : strand'[i] = strand[i]
           /\ strand'[Len(strand) + 1] = h
  OBVIOUS

\* What running the next handler does to it.
LEMMA Ran ==
    ASSUME strand \in Seq(Handler), NEW kind, RunNext(kind)
    PROVE  /\ strand' \in Seq(Handler)
           /\ Head(strand) \in Handler
           /\ Head(strand).kind = kind
           /\ Len(strand) \in Nat \ {0}
           /\ DOMAIN strand = 1..Len(strand)
           /\ DOMAIN strand' = 1..(Len(strand) - 1)
           /\ strand[1] = Head(strand)
           /\ \A i \in 1..(Len(strand) - 1) : strand'[i] = strand[i + 1]
  BY DEF RunNext

-----------------------------------------------------------------------------
(* The inductive invariant: the types, the cycle, and the end.             *)

\* The message being written, or just written, is in the queue.
FrontPresent ==
    /\ io = "write" => msg_queue_ # <<>>
    /\ \A i \in DOMAIN strand : strand[i].kind = "wrote" => msg_queue_ # <<>>

CycleInv ==
    /\ TypeOK
    /\ EndIsReported
    /\ SingleFlight
    /\ NoStall
    /\ FrontPresent

LEMMA CycleInit == Init => CycleInv
<1> SUFFICES ASSUME Init PROVE CycleInv
  OBVIOUS
<1>1. TypeOK /\ EndIsReported
  <2>1. /\ strand \in Seq(Handler) /\ msg_queue_ \in Seq(Message)
        /\ accepted \in Seq(Message) /\ wire \in Seq(Message)
    BY DEF Init
  <2>2. /\ writing_ \in BOOLEAN /\ dead_ \in BOOLEAN /\ replies \in Nat
        /\ io \in {"none", "write", "read"}
    BY DEF Init
  <2>3. notified \in {<<>>} \cup {<<nr>> : nr \in BOOLEAN}
    BY Zenon DEF Init
  <2>4. EndIsReported
    BY Zenon DEF Init, EndIsReported
  <2>5. QED
    BY <2>1, <2>2, <2>3, <2>4 DEF TypeOK
<1>2. DOMAIN strand = {}
  BY DEF Init
<1>3. SingleFlight /\ NoStall /\ FrontPresent
  BY <1>2 DEF Init, SingleFlight, NoStall, FrontPresent, Outstanding
<1>4. QED
  BY <1>1, <1>3 DEF CycleInv

\* The callback is called when dead_ is set, and the handlers test dead_
\* first, so it is called once.
LEMMA DisconnectOnce ==
    ASSUME CycleInv, ~dead_, NEW b \in BOOLEAN, Disconnect(b)
    PROVE  /\ dead_' = TRUE
           /\ notified' = <<b>>
           /\ notified' \in {<<>>} \cup {<<nr>> : nr \in BOOLEAN}
           /\ notified' # <<>>
<1>1. notified = <<>>
  BY DEF CycleInv, EndIsReported
<1>2. notified' = <<b>> /\ dead_' = TRUE
  BY <1>1 DEF Disconnect
<1>3. QED
  BY <1>2

\* Posting a request touches no completion.
LEMMA PostStep ==
    ASSUME CycleInv, NEW h \in Handler, ~Completion(h),
           strand' = Append(strand, h),
           UNCHANGED <<msg_queue_, writing_, dead_, io, accepted, wire,
                       replies, notified>>
    PROVE  CycleInv'
<1> USE DEF CycleInv
<1>1. TypeOK' /\ EndIsReported'
  BY DEF TypeOK, EndIsReported
<1>2. strand \in Seq(Handler)
  BY DEF TypeOK
<1>3. SingleFlight'
  BY <1>2, Posted DEF SingleFlight, Completion
<1>4. Outstanding' <=> Outstanding
  BY <1>2, Posted DEF Outstanding, Completion
<1>5. NoStall'
  BY <1>4 DEF NoStall
<1>6. FrontPresent'
  BY <1>2, Posted DEF FrontPresent, Completion
<1>7. QED
  BY <1>1, <1>3, <1>5, <1>6

\* The operation in progress ends: its completion takes its place.
LEMMA CompleteStep ==
    ASSUME CycleInv, NEW h \in Handler, Completion(h),
           io # "none", io' = "none",
           h.kind = "wrote" => io = "write",
           strand' = Append(strand, h),
           wire' \in Seq(Message),
           UNCHANGED <<msg_queue_, writing_, dead_, accepted, replies,
                       notified>>
    PROVE  CycleInv'
<1> USE DEF CycleInv
<1>1. TypeOK' /\ EndIsReported'
  BY DEF TypeOK, EndIsReported
<1>2. strand \in Seq(Handler)
  BY DEF TypeOK
<1>3. SingleFlight'
  BY <1>2, Posted DEF SingleFlight
<1>4. Outstanding' /\ Outstanding
  BY <1>2, Posted DEF Outstanding
<1>5. NoStall'
  BY <1>4 DEF NoStall
<1>6. FrontPresent'
  BY <1>2, Posted DEF FrontPresent
<1>7. QED
  BY <1>1, <1>3, <1>5, <1>6

\* Running a request leaves the completions in the strand as they are.
LEMMA RanRequest ==
    ASSUME CycleInv, NEW kind \in {"push", "close"}, RunNext(kind)
    PROVE  /\ (\E i \in DOMAIN strand' : Completion(strand'[i]))
                 <=> \E i \in DOMAIN strand : Completion(strand[i])
           /\ \A i, j \in DOMAIN strand' :
                 Completion(strand'[i]) /\ Completion(strand'[j]) => i = j
           /\ \A i \in DOMAIN strand' :
                 \E j \in DOMAIN strand : strand'[i] = strand[j]
<1>1. strand \in Seq(Handler)
  BY DEF CycleInv, TypeOK
<1>2. /\ DOMAIN strand' = 1..(Len(strand) - 1)
      /\ DOMAIN strand = 1..Len(strand)
      /\ Len(strand) \in Nat \ {0}
      /\ \A i \in 1..(Len(strand) - 1) : strand'[i] = strand[i + 1]
      /\ strand[1].kind = kind
  BY <1>1, Ran
<1>3. \A i \in DOMAIN strand' : i + 1 \in DOMAIN strand
  BY <1>2
<1>4. \A i \in DOMAIN strand :
         i = 1 \/ (i - 1 \in DOMAIN strand' /\ strand'[i - 1] = strand[i])
  BY <1>2
<1>5. \A i, j \in DOMAIN strand :
         Completion(strand[i]) /\ Completion(strand[j]) => i = j
  BY DEF CycleInv, SingleFlight
<1>6. \A i, j \in DOMAIN strand' :
         Completion(strand'[i]) /\ Completion(strand'[j]) => i = j
  BY <1>2, <1>3, <1>5
<1>7. QED
  BY <1>2, <1>3, <1>4, <1>6 DEF Completion

\* A completion that runs was the only one, and no operation is in progress.
LEMMA RanCompletion ==
    ASSUME CycleInv, NEW kind \in {"wrote", "read"}, RunNext(kind)
    PROVE  /\ io = "none"
           /\ Outstanding
           /\ \A i \in DOMAIN strand' : ~Completion(strand'[i])
<1>1. strand \in Seq(Handler)
  BY DEF CycleInv, TypeOK
<1>2. /\ DOMAIN strand' = 1..(Len(strand) - 1)
      /\ DOMAIN strand = 1..Len(strand)
      /\ Len(strand) \in Nat \ {0}
      /\ \A i \in 1..(Len(strand) - 1) : strand'[i] = strand[i + 1]
      /\ strand[1].kind = kind
  BY <1>1, Ran
<1>3. 1 \in DOMAIN strand /\ Completion(strand[1])
  BY <1>2 DEF Completion
<1>4. \A i \in DOMAIN strand' : i + 1 \in DOMAIN strand /\ i + 1 # 1
  BY <1>2
<1>5. QED
  BY <1>2, <1>3, <1>4 DEF CycleInv, SingleFlight, Outstanding

\* After a completion has run, at most one operation was started.
LEMMA AfterCompletion ==
    ASSUME TypeOK', EndIsReported', io' \in {"none", "write", "read"},
           \A i \in DOMAIN strand' : ~Completion(strand'[i]),
           ~dead_' => /\ writing_' <=> io' # "none"
                      /\ msg_queue_' # <<>> => writing_',
           io' = "write" => msg_queue_' # <<>>
    PROVE  CycleInv'
  BY DEF CycleInv, SingleFlight, NoStall, FrontPresent, Outstanding, Completion

LEMMA CycleStep == CycleInv /\ [Next]_vars => CycleInv'
<1> SUFFICES ASSUME CycleInv, [Next]_vars
             PROVE  CycleInv'
  OBVIOUS
<1>0. strand \in Seq(Handler) /\ TypeOK
  BY DEF CycleInv, TypeOK
<1>1. ASSUME NEW m \in Message, PushMessage(m)
      PROVE  CycleInv'
  BY <1>1, PostStep, HandlerConstructors DEF PushMessage, Completion
<1>2. ASSUME NEW nr \in BOOLEAN, Close(nr)
      PROVE  CycleInv'
  BY <1>2, PostStep, HandlerConstructors DEF Close, Completion
<1>3. CASE WriteCompletes
  <2>1. PICK ok \in Outcome :
            /\ strand' = Append(strand, Wrote(ok))
            /\ wire' = IF ok THEN Append(wire, Head(msg_queue_)) ELSE wire
    BY <1>3 DEF WriteCompletes
  <2>2. ok \in BOOLEAN /\ io = "write"
    BY <1>3, OutcomeBoolean DEF WriteCompletes
  <2>3. Head(msg_queue_) \in Message /\ wire \in Seq(Message)
    BY <1>0, <2>2 DEF CycleInv, FrontPresent, TypeOK
  <2>4. wire' \in Seq(Message)
    BY <2>1, <2>3
  <2>5. QED
    BY <1>3, <2>1, <2>2, <2>4, CompleteStep, HandlerConstructors
       DEF WriteCompletes, Completion
<1>4. CASE ReadCompletes
  <2>1. PICK ok \in Outcome : strand' = Append(strand, Read(ok))
    BY <1>4 DEF ReadCompletes
  <2>2. wire' \in Seq(Message)
    BY <1>0, <1>4 DEF ReadCompletes, TypeOK
  <2>3. QED
    BY <1>4, <2>1, <2>2, OutcomeBoolean, CompleteStep, HandlerConstructors
       DEF ReadCompletes, Completion
<1>5. CASE RunPush
  <2> DEFINE m == Head(strand).msg
  <2>1. /\ m \in Message
        /\ strand' \in Seq(Handler)
        /\ RunNext("push")
    BY <1>0, <1>5, Ran, HandlerFields DEF RunPush
  <2>2. /\ (\E i \in DOMAIN strand' : Completion(strand'[i]))
              <=> \E i \in DOMAIN strand : Completion(strand[i])
        /\ \A i, j \in DOMAIN strand' :
              Completion(strand'[i]) /\ Completion(strand'[j]) => i = j
        /\ \A i \in DOMAIN strand' :
              \E j \in DOMAIN strand : strand'[i] = strand[j]
    BY <2>1, RanRequest
  <2>3. CASE dead_
    <3>1. UNCHANGED <<msg_queue_, writing_, dead_, io, accepted, wire,
                      replies, notified>>
      BY <1>5, <2>3 DEF RunPush
    <3>2. TypeOK' /\ EndIsReported'
      BY <1>0, <2>1, <3>1 DEF TypeOK, EndIsReported, CycleInv
    <3>3. SingleFlight' /\ NoStall' /\ FrontPresent'
      BY <2>2, <2>3, <3>1 DEF SingleFlight, NoStall, FrontPresent, CycleInv
    <3>4. QED
      BY <3>2, <3>3 DEF CycleInv
  <2>4. CASE ~dead_ /\ msg_queue_ = <<>> /\ ~writing_
    <3>0. /\ msg_queue_' = Append(msg_queue_, m)
          /\ accepted' = Append(accepted, m)
          /\ UNCHANGED <<wire, replies, notified, dead_>>
          /\ DoWrite(msg_queue_', TRUE)
      BY <1>5, <2>4 DEF RunPush, PushAppend
    <3>1. io' = "write" /\ writing_' = TRUE
      <4>1. msg_queue_' # <<>>
        BY <1>0, <2>1, <3>0 DEF TypeOK
      <4>2. QED
        BY <3>0, <4>1, Zenon DEF DoWrite
    <3>2. \A i \in DOMAIN strand' : ~Completion(strand'[i])
      BY <2>2, <2>4 DEF CycleInv, NoStall, Outstanding
    <3>3. TypeOK' /\ EndIsReported'
      BY <1>0, <2>1, <3>0, <3>1 DEF TypeOK, EndIsReported, CycleInv
    <3>4. msg_queue_' # <<>>
      BY <1>0, <2>1, <3>0 DEF TypeOK
    <3>5. QED
      BY <2>4, <3>0, <3>1, <3>2, <3>3, <3>4, AfterCompletion
  <2>5. CASE ~dead_ /\ (msg_queue_ # <<>> \/ writing_)
    <3>1. /\ msg_queue_' = Append(msg_queue_, m)
          /\ accepted' = Append(accepted, m)
          /\ UNCHANGED <<writing_, io, wire, replies, notified, dead_>>
      BY <1>5, <2>5 DEF RunPush, PushAppend
    <3>2. msg_queue_' # <<>> /\ msg_queue_' \in Seq(Message)
      BY <1>0, <2>1, <3>1 DEF TypeOK
    <3>3. TypeOK' /\ EndIsReported'
      BY <1>0, <2>1, <3>1, <3>2 DEF TypeOK, EndIsReported, CycleInv
    <3>4. SingleFlight'
      BY <2>2, <3>1 DEF SingleFlight, CycleInv
    <3>5. NoStall'
      BY <2>2, <2>5, <3>1 DEF NoStall, Outstanding, CycleInv
    <3>6. FrontPresent'
      BY <3>2 DEF FrontPresent
    <3>7. QED
      BY <3>3, <3>4, <3>5, <3>6 DEF CycleInv
  <2>6. QED
    BY <2>3, <2>4, <2>5
<1>6. CASE RunClose
  <2>1. /\ strand' \in Seq(Handler)
        /\ RunNext("close")
        /\ Head(strand).reconnect \in BOOLEAN
    BY <1>0, <1>6, Ran, HandlerFields DEF RunClose
  <2>2. UNCHANGED <<msg_queue_, writing_, io, accepted, wire, replies>>
    BY <1>6 DEF RunClose
  <2>3. TypeOK' /\ EndIsReported' /\ (~dead_' => ~dead_)
    <3>1. CASE dead_
      BY <1>0, <1>6, <2>1, <2>2, <3>1
         DEF RunClose, TypeOK, EndIsReported, CycleInv
    <3>2. CASE ~dead_
      <4>1. Disconnect(Head(strand).reconnect)
        BY <1>6, <3>2 DEF RunClose
      <4>2. QED
        BY <1>0, <2>1, <2>2, <3>2, <4>1, DisconnectOnce
           DEF TypeOK, EndIsReported
    <3>3. QED
      BY <3>1, <3>2
  <2>4. /\ (\E i \in DOMAIN strand' : Completion(strand'[i]))
              <=> \E i \in DOMAIN strand : Completion(strand[i])
        /\ \A i, j \in DOMAIN strand' :
              Completion(strand'[i]) /\ Completion(strand'[j]) => i = j
        /\ \A i \in DOMAIN strand' :
              \E j \in DOMAIN strand : strand'[i] = strand[j]
    BY <2>1, RanRequest
  <2>5. SingleFlight' /\ NoStall' /\ FrontPresent'
    BY <2>2, <2>3, <2>4
       DEF SingleFlight, NoStall, FrontPresent, Outstanding, CycleInv
  <2>6. QED
    BY <2>3, <2>5 DEF CycleInv
<1>7. CASE RunWrote
  <2>1. RunNext("wrote") /\ strand' \in Seq(Handler)
    BY <1>0, <1>7, Ran DEF RunWrote
  <2>2. /\ io = "none"
        /\ \A i \in DOMAIN strand' : ~Completion(strand'[i])
        /\ ~dead_ => writing_
    BY <2>1, RanCompletion DEF CycleInv, NoStall
  <2>3. msg_queue_ # <<>>
    BY <1>0, <2>1, Ran DEF CycleInv, FrontPresent
  <2>4. UNCHANGED <<accepted, wire, replies>>
    BY <1>7 DEF RunWrote
  <2>5. CASE dead_
    <3>1. UNCHANGED <<msg_queue_, writing_, dead_, io, notified>>
      BY <1>7, <2>5 DEF RunWrote
    <3>2. TypeOK' /\ EndIsReported'
      BY <1>0, <2>1, <2>4, <3>1 DEF TypeOK, EndIsReported, CycleInv
    <3>3. QED
      BY <2>2, <2>5, <3>1, <3>2, AfterCompletion
  <2>6. CASE ~dead_ /\ Head(strand).ok
    <3>1. /\ msg_queue_' = Tail(msg_queue_)
          /\ io' = "read"
          /\ UNCHANGED <<writing_, dead_, notified>>
      BY <1>7, <2>6 DEF RunWrote
    <3>2. TypeOK' /\ EndIsReported'
      BY <1>0, <2>1, <2>3, <2>4, <3>1 DEF TypeOK, EndIsReported, CycleInv
    <3>3. QED
      BY <2>2, <2>6, <3>1, <3>2, AfterCompletion
  <2>7. CASE ~dead_ /\ ~Head(strand).ok
    <3>1. /\ writing_' = FALSE
          /\ Disconnect(TRUE)
          /\ UNCHANGED <<msg_queue_, io>>
      BY <1>7, <2>7 DEF RunWrote
    <3>2. TypeOK' /\ EndIsReported'
      BY <1>0, <2>1, <2>4, <2>7, <3>1, DisconnectOnce
         DEF TypeOK, EndIsReported
    <3>3. dead_'
      BY <3>1 DEF Disconnect
    <3>4. QED
      BY <2>2, <3>1, <3>2, <3>3, AfterCompletion
  <2>8. QED
    BY <2>5, <2>6, <2>7
<1>8. CASE RunRead
  <2>1. RunNext("read") /\ strand' \in Seq(Handler)
    BY <1>0, <1>8, Ran DEF RunRead
  <2>2. /\ io = "none"
        /\ \A i \in DOMAIN strand' : ~Completion(strand'[i])
        /\ ~dead_ => writing_
    BY <2>1, RanCompletion DEF CycleInv, NoStall
  <2>3. UNCHANGED <<msg_queue_, accepted, wire>>
    BY <1>8 DEF RunRead
  <2>4. CASE dead_
    <3>1. UNCHANGED <<writing_, dead_, io, replies, notified>>
      BY <1>8, <2>4 DEF RunRead
    <3>2. TypeOK' /\ EndIsReported'
      BY <1>0, <2>1, <2>3, <3>1 DEF TypeOK, EndIsReported, CycleInv
    <3>3. QED
      BY <2>2, <2>4, <3>1, <3>2, AfterCompletion
  <2>5. CASE ~dead_ /\ Head(strand).ok
    <3>1. /\ replies' = replies + 1
          /\ writing_' = (writing_ /\ msg_queue_ # <<>>)
          /\ io' = IF msg_queue_ = <<>> THEN io ELSE "write"
          /\ UNCHANGED <<dead_, notified>>
      BY <1>8, <2>5 DEF RunRead, DoWrite
    <3>2. TypeOK' /\ EndIsReported'
      BY <1>0, <2>1, <2>2, <2>3, <3>1 DEF TypeOK, EndIsReported, CycleInv
    <3>3. QED
      BY <2>2, <2>3, <2>5, <3>1, <3>2, AfterCompletion
  <2>6. CASE ~dead_ /\ ~Head(strand).ok
    <3>1. /\ writing_' = FALSE
          /\ Disconnect(TRUE)
          /\ UNCHANGED <<io, replies>>
      BY <1>8, <2>6 DEF RunRead
    <3>2. TypeOK' /\ EndIsReported'
      BY <1>0, <2>1, <2>3, <2>6, <3>1, DisconnectOnce
         DEF TypeOK, EndIsReported
    <3>3. dead_'
      BY <3>1 DEF Disconnect
    <3>4. QED
      BY <2>2, <3>1, <3>2, <3>3, AfterCompletion
  <2>7. QED
    BY <2>4, <2>5, <2>6
<1>9. CASE UNCHANGED vars
  BY <1>9 DEF vars, CycleInv, TypeOK, EndIsReported, SingleFlight, NoStall,
              FrontPresent, Outstanding
<1>10. QED
  BY <1>1, <1>2, <1>3, <1>4, <1>5, <1>6, <1>7, <1>8, <1>9
     DEF Next, RunHandler

\* The types, the single report of the end, the single operation and the
\* absence of a stall, of module Connection, hold for every run of it.
THEOREM CycleCorrect == Spec => [](TypeOK /\ EndIsReported /\ SingleFlight
                                     /\ NoStall /\ FrontPresent)
<1>1. CycleInv => TypeOK /\ EndIsReported /\ SingleFlight /\ NoStall
                    /\ FrontPresent
  BY DEF CycleInv
<1>2. QED
  BY <1>1, CycleInit, CycleStep, PTL DEF Spec

\* The end of a connection is called back at most once.
THEOREM TypeCorrect == Spec => []TypeOK
  BY CycleCorrect, PTL

\* No two operations, nor an operation and a completion, are ever under way.
THEOREM SingleFlightCorrect == Spec => []SingleFlight
  BY CycleCorrect, PTL

\* The manager has been called back exactly when the connection is dead.
THEOREM EndIsReportedCorrect == Spec => []EndIsReported
  BY CycleCorrect, PTL

-----------------------------------------------------------------------------
(* What the completions in the strand say of the messages.                 *)

Completions ==
    {h \in Handler : Completion(h) /\ \E i \in DOMAIN strand : strand[i] = h}

LEMMA PostedCompletions ==
    ASSUME CycleInv, NEW h \in Handler, strand' = Append(strand, h)
    PROVE  Completions' = Completions \cup {g \in {h} : Completion(g)}
<1>1. strand \in Seq(Handler)
  BY DEF CycleInv, TypeOK
<1>2. /\ DOMAIN strand' = 1..(Len(strand) + 1)
      /\ DOMAIN strand = 1..Len(strand)
      /\ Len(strand) \in Nat
      /\ \A i \in 1..Len(strand) : strand'[i] = strand[i]
      /\ strand'[Len(strand) + 1] = h
  BY <1>1, Posted
<1>3. ASSUME NEW g \in Handler
      PROVE  (\E i \in DOMAIN strand' : strand'[i] = g)
                <=> (g = h \/ \E i \in DOMAIN strand : strand[i] = g)
  BY <1>2
<1>4. QED
  BY <1>3 DEF Completions, Completion

LEMMA RanRequestCompletions ==
    ASSUME CycleInv, NEW kind \in {"push", "close"}, RunNext(kind)
    PROVE  Completions' = Completions
<1>1. strand \in Seq(Handler)
  BY DEF CycleInv, TypeOK
<1>2. /\ DOMAIN strand' = 1..(Len(strand) - 1)
      /\ DOMAIN strand = 1..Len(strand)
      /\ Len(strand) \in Nat \ {0}
      /\ \A i \in 1..(Len(strand) - 1) : strand'[i] = strand[i + 1]
      /\ strand[1].kind = kind
  BY <1>1, Ran
<1>3. \A i \in DOMAIN strand' : i + 1 \in DOMAIN strand
  BY <1>2
<1>4. \A i \in DOMAIN strand :
         i = 1 \/ (i - 1 \in DOMAIN strand' /\ strand'[i - 1] = strand[i])
  BY <1>2
<1>5. ASSUME NEW g \in Handler, Completion(g)
      PROVE  (\E i \in DOMAIN strand' : strand'[i] = g)
                <=> \E i \in DOMAIN strand : strand[i] = g
  BY <1>2, <1>3, <1>4, <1>5 DEF Completion
<1>6. QED
  BY <1>5 DEF Completions, Completion

LEMMA RanCompletionCompletions ==
    ASSUME CycleInv, NEW kind \in {"wrote", "read"}, RunNext(kind)
    PROVE  Completions = {Head(strand)} /\ Completions' = {}
<1>1. strand \in Seq(Handler)
  BY DEF CycleInv, TypeOK
<1>2. /\ DOMAIN strand = 1..Len(strand)
      /\ Len(strand) \in Nat \ {0}
      /\ strand[1] = Head(strand)
      /\ Head(strand) \in Handler
      /\ Head(strand).kind = kind
  BY <1>1, Ran
<1>3. 1 \in DOMAIN strand /\ Completion(strand[1])
  BY <1>2 DEF Completion
<1>4. \A i \in DOMAIN strand : Completion(strand[i]) => i = 1
  BY <1>3 DEF CycleInv, SingleFlight
<1>5. Completions = {Head(strand)}
  BY <1>2, <1>3, <1>4 DEF Completions
<1>6. Completions' = {}
  BY RanCompletion DEF Completions, Completion
<1>7. QED
  BY <1>5, <1>6

\* An operation in progress has no completion yet.
LEMMA NoneWhileInFlight ==
    ASSUME CycleInv, io # "none"
    PROVE  Completions = {}
  BY DEF CycleInv, SingleFlight, Completions

Written == Wrote(TRUE) \in Completions

Awaiting ==
    io = "read" \/ Written \/ \E b \in BOOLEAN : Read(b) \in Completions

\* The queue is the end of what was accepted, and begins where the writes
\* stopped; a reply is awaited for at most one message.
DeliveryInv ==
    /\ Len(msg_queue_) <= Len(accepted)
    /\ \A i \in 1..Len(msg_queue_) :
          msg_queue_[i] = accepted[Len(accepted) - Len(msg_queue_) + i]
    /\ ~dead_ => Len(wire) + Len(msg_queue_)
                    = Len(accepted) + (IF Written THEN 1 ELSE 0)
    /\ Len(wire) <= replies + 1
    /\ ~dead_ => Len(wire) = replies + (IF Awaiting THEN 1 ELSE 0)

LEMMA DeliveryInit == Init => DeliveryInv
<1> SUFFICES ASSUME Init PROVE DeliveryInv
  OBVIOUS
<1>1. Completions = {}
  BY DEF Init, Completions
<1>2. /\ Len(msg_queue_) = 0 /\ Len(accepted) = 0 /\ Len(wire) = 0
      /\ replies = 0 /\ ~Awaiting /\ ~Written
  BY <1>1 DEF Init, Awaiting, Written
<1>3. QED
  BY <1>2 DEF DeliveryInv

\* A step that leaves the messages and the operations alone.
LEMMA DeliveryKept ==
    ASSUME DeliveryInv, Completions' = Completions, dead_ => dead_',
           UNCHANGED <<msg_queue_, accepted, wire, replies, io>>
    PROVE  DeliveryInv'
  BY DEF DeliveryInv, Written, Awaiting

\* A step of or into a dead connection.
LEMMA DeliveryDead ==
    ASSUME DeliveryInv, dead_',
           UNCHANGED <<msg_queue_, accepted, wire, replies>>
    PROVE  DeliveryInv'
  BY DEF DeliveryInv

LEMMA DeliveryStep == CycleInv /\ DeliveryInv /\ [Next]_vars => DeliveryInv'
<1> SUFFICES ASSUME CycleInv, DeliveryInv, [Next]_vars
             PROVE  DeliveryInv'
  OBVIOUS
<1>0. /\ TypeOK
      /\ strand \in Seq(Handler)
      /\ msg_queue_ \in Seq(Message)
      /\ accepted \in Seq(Message)
      /\ wire \in Seq(Message)
      /\ Len(msg_queue_) \in Nat /\ Len(accepted) \in Nat
      /\ Len(wire) \in Nat /\ replies \in Nat
  BY DEF CycleInv, TypeOK
<1>1. ASSUME NEW m \in Message, PushMessage(m)
      PROVE  DeliveryInv'
  <2>1. Completions' = Completions
    BY <1>1, PostedCompletions, HandlerConstructors
       DEF PushMessage, Completion
  <2>2. QED
    BY <1>1, <2>1, DeliveryKept DEF PushMessage
<1>2. ASSUME NEW nr \in BOOLEAN, Close(nr)
      PROVE  DeliveryInv'
  <2>1. Completions' = Completions
    BY <1>2, PostedCompletions, HandlerConstructors DEF Close, Completion
  <2>2. QED
    BY <1>2, <2>1, DeliveryKept DEF Close
<1>3. CASE WriteCompletes
  <2>1. PICK ok \in Outcome :
            /\ strand' = Append(strand, Wrote(ok))
            /\ wire' = IF ok THEN Append(wire, Head(msg_queue_)) ELSE wire
    BY <1>3 DEF WriteCompletes
  <2>2. ok \in BOOLEAN /\ (dead_ => ok = FALSE)
    BY <2>1, OutcomeBoolean
  <2>3. io = "write" /\ io' = "none"
        /\ UNCHANGED <<msg_queue_, dead_, accepted, replies>>
    BY <1>3 DEF WriteCompletes
  <2>4. Completions = {} /\ Completions' = {Wrote(ok)}
    BY <2>1, <2>2, <2>3, NoneWhileInFlight, PostedCompletions,
       HandlerConstructors DEF Completion
  <2>5. ~Written /\ ~Awaiting
    BY <2>3, <2>4 DEF Written, Awaiting
  <2>6. (Written' <=> ok) /\ (Awaiting' <=> ok)
    BY <2>2, <2>3, <2>4 DEF Written, Awaiting, Wrote, Read
  <2>7. CASE dead_
    BY <2>1, <2>2, <2>3, <2>7, DeliveryDead
  <2>8. CASE ~dead_ /\ ok
    <3>1. Head(msg_queue_) \in Message
      BY <1>0, <2>3 DEF CycleInv, FrontPresent
    <3>2. Len(wire') = Len(wire) + 1
      BY <1>0, <2>1, <2>8, <3>1
    <3>3. Len(wire') + Len(msg_queue_) = Len(accepted) + 1
      BY <1>0, <2>5, <2>8, <3>2 DEF DeliveryInv
    <3>4. Len(wire') = replies + 1
      BY <1>0, <2>5, <2>8, <3>2 DEF DeliveryInv
    <3>5. QED
      BY <1>0, <2>3, <2>6, <2>8, <3>3, <3>4 DEF DeliveryInv
  <2>9. CASE ~dead_ /\ ~ok
    BY <2>1, <2>3, <2>5, <2>6, <2>9 DEF DeliveryInv
  <2>10. QED
    BY <2>7, <2>8, <2>9
<1>4. CASE ReadCompletes
  <2>1. PICK ok \in Outcome : strand' = Append(strand, Read(ok))
    BY <1>4 DEF ReadCompletes
  <2>2. ok \in BOOLEAN
    BY <2>1, OutcomeBoolean
  <2>3. io = "read" /\ io' = "none"
        /\ UNCHANGED <<msg_queue_, dead_, accepted, wire, replies>>
    BY <1>4 DEF ReadCompletes
  <2>4. Completions = {} /\ Completions' = {Read(ok)}
    BY <2>1, <2>2, <2>3, NoneWhileInFlight, PostedCompletions,
       HandlerConstructors DEF Completion
  <2>5. ~Written /\ Awaiting /\ ~Written' /\ Awaiting'
    BY <2>2, <2>3, <2>4 DEF Written, Awaiting, Wrote, Read
  <2>6. QED
    BY <2>3, <2>5 DEF DeliveryInv
<1>5. CASE RunPush
  <2> DEFINE m == Head(strand).msg
  <2>1. RunNext("push") /\ m \in Message
    BY <1>0, <1>5, Ran, HandlerFields DEF RunPush
  <2>2. Completions' = Completions
    BY <2>1, RanRequestCompletions
  <2>3. UNCHANGED <<dead_, wire, replies>>
    BY <1>5 DEF RunPush
  <2>4. CASE dead_
    BY <1>5, <2>3, <2>4, DeliveryDead DEF RunPush
  <2>5. CASE ~dead_
    <3>1. /\ msg_queue_' = Append(msg_queue_, m)
          /\ accepted' = Append(accepted, m)
      BY <1>5, <2>5 DEF RunPush, PushAppend
    <3>2. io' = "read" <=> io = "read"
      <4>1. CASE msg_queue_ = <<>> /\ ~writing_
        BY <1>5, <2>5, <4>1
           DEF RunPush, DoWrite, CycleInv, NoStall, Outstanding, PushAppend
      <4>2. CASE ~(msg_queue_ = <<>> /\ ~writing_)
        BY <1>5, <2>5, <4>2 DEF RunPush
      <4>3. QED
        BY <4>1, <4>2
    <3>3. (Written' <=> Written) /\ (Awaiting' <=> Awaiting)
      BY <2>2, <3>2 DEF Written, Awaiting
    <3>4. /\ Len(msg_queue_') = Len(msg_queue_) + 1
          /\ Len(accepted') = Len(accepted) + 1
          /\ msg_queue_'[Len(msg_queue_) + 1] = m
          /\ accepted'[Len(accepted) + 1] = m
          /\ \A i \in 1..Len(msg_queue_) : msg_queue_'[i] = msg_queue_[i]
          /\ \A i \in 1..Len(accepted) : accepted'[i] = accepted[i]
      BY <1>0, <2>1, <3>1
    <3>5. \A i \in 1..Len(msg_queue_') :
             msg_queue_'[i] = accepted'[Len(accepted') - Len(msg_queue_') + i]
      <4> TAKE i \in 1..Len(msg_queue_')
      <4>1. CASE i = Len(msg_queue_) + 1
        BY <1>0, <3>4, <4>1
      <4>2. CASE i \in 1..Len(msg_queue_)
        <5>1. /\ Len(accepted) - Len(msg_queue_) + i \in 1..Len(accepted)
              /\ Len(accepted') - Len(msg_queue_') = Len(accepted) - Len(msg_queue_)
          BY <1>0, <3>4, <4>2 DEF DeliveryInv
        <5>2. QED
          BY <3>4, <4>2, <5>1 DEF DeliveryInv
      <4>3. QED
        BY <1>0, <3>4, <4>1, <4>2
    <3>6. QED
      BY <1>0, <2>3, <3>3, <3>4, <3>5 DEF DeliveryInv
  <2>6. QED
    BY <2>4, <2>5
<1>6. CASE RunClose
  <2>1. Completions' = Completions
    BY <1>6, RanRequestCompletions DEF RunClose
  <2>2. QED
    BY <1>6, <2>1, DeliveryKept DEF RunClose, Disconnect
<1>7. CASE RunWrote
  <2>1. RunNext("wrote") /\ UNCHANGED <<accepted, wire, replies>>
    BY <1>7 DEF RunWrote
  <2>2. Completions = {Head(strand)} /\ Completions' = {} /\ io = "none"
    BY <2>1, RanCompletionCompletions, RanCompletion
  <2>3. CASE dead_
    BY <1>7, <2>1, <2>3, DeliveryDead DEF RunWrote
  <2>4. CASE ~dead_ /\ Head(strand).ok
    <3>1. /\ msg_queue_' = Tail(msg_queue_)
          /\ io' = "read"
          /\ dead_' = dead_
      BY <1>7, <2>4 DEF RunWrote
    <3>2. Head(strand) = Wrote(TRUE)
      BY <1>0, <2>1, <2>4, Ran, HandlerFields
    <3>3. Written /\ Awaiting /\ ~Written' /\ Awaiting'
      BY <2>2, <3>1, <3>2 DEF Written, Awaiting
    <3>4. msg_queue_ # <<>>
      BY <1>0, <2>1, Ran DEF CycleInv, FrontPresent
    <3>5. /\ Len(msg_queue_') = Len(msg_queue_) - 1
          /\ \A i \in 1..Len(msg_queue_') :
                i + 1 \in 1..Len(msg_queue_) /\ msg_queue_'[i] = msg_queue_[i + 1]
      BY <1>0, <3>1, <3>4
    <3>6. \A i \in 1..Len(msg_queue_') :
             msg_queue_'[i] = accepted'[Len(accepted') - Len(msg_queue_') + i]
      <4> TAKE i \in 1..Len(msg_queue_')
      <4>1. msg_queue_'[i] = accepted[Len(accepted) - Len(msg_queue_) + (i + 1)]
        BY <3>5 DEF DeliveryInv
      <4>2. Len(accepted) - Len(msg_queue_) + (i + 1)
               = Len(accepted) - Len(msg_queue_') + i
        BY <1>0, <3>5
      <4>3. QED
        BY <2>1, <4>1, <4>2
    <3>7. /\ Len(wire) + Len(msg_queue_') = Len(accepted)
          /\ Len(wire) = replies + 1
          /\ Len(msg_queue_') <= Len(accepted)
      BY <1>0, <2>4, <3>3, <3>5 DEF DeliveryInv
    <3>8. /\ Len(wire') + Len(msg_queue_') = Len(accepted')
          /\ Len(wire') = replies' + 1
          /\ Len(msg_queue_') <= Len(accepted')
          /\ Len(wire') <= replies' + 1
      BY <1>0, <2>1, <3>7
    <3>9. Len(wire') + Len(msg_queue_')
             = Len(accepted') + (IF Written' THEN 1 ELSE 0)
      BY <1>0, <2>1, <3>3, <3>8
    <3>10. Len(wire') = replies' + (IF Awaiting' THEN 1 ELSE 0)
      BY <3>3, <3>8
    <3>11. QED
      BY <3>6, <3>8, <3>9, <3>10, Zenon DEF DeliveryInv
  <2>5. CASE ~dead_ /\ ~Head(strand).ok
    BY <1>7, <2>1, <2>5, DeliveryDead DEF RunWrote, Disconnect
  <2>6. QED
    BY <2>3, <2>4, <2>5
<1>8. CASE RunRead
  <2>1. RunNext("read") /\ UNCHANGED <<msg_queue_, accepted, wire>>
    BY <1>8 DEF RunRead
  <2>2. Completions = {Head(strand)} /\ Completions' = {} /\ io = "none"
    BY <2>1, RanCompletionCompletions, RanCompletion
  <2>3. CASE dead_
    BY <1>8, <2>1, <2>3, DeliveryDead DEF RunRead
  <2>4. CASE ~dead_ /\ Head(strand).ok
    <3>1. replies' = replies + 1 /\ dead_' = dead_ /\ io' # "read"
      BY <1>8, <2>2, <2>4 DEF RunRead, DoWrite
    <3>2. Head(strand) \in Handler /\ Head(strand).kind = "read"
      BY <1>0, <2>1, Ran
    <3>3. Awaiting /\ ~Written
      BY <2>2, <3>2 DEF Awaiting, Written, Handler, Push, CloseReq, Wrote, Read
    <3>4. ~Awaiting' /\ ~Written'
      BY <2>2, <3>1 DEF Awaiting, Written
    <3>5. QED
      <4>1. Len(wire) = replies + 1
        BY <1>0, <2>4, <3>3 DEF DeliveryInv
      <4>2. Len(wire') = replies' /\ Len(wire') <= replies' + 1
        BY <1>0, <2>1, <3>1, <4>1
      <4>3. Len(wire) + Len(msg_queue_) = Len(accepted)
        BY <1>0, <2>4, <3>3 DEF DeliveryInv
      <4>4. QED
        BY <1>0, <2>1, <3>1, <3>4, <4>2, <4>3 DEF DeliveryInv
  <2>5. CASE ~dead_ /\ ~Head(strand).ok
    BY <1>8, <2>1, <2>5, DeliveryDead DEF RunRead, Disconnect
  <2>6. QED
    BY <2>3, <2>4, <2>5
<1>9. CASE UNCHANGED vars
  <2>1. Completions' = Completions
    BY <1>9 DEF vars, Completions
  <2>2. QED
    BY <1>9, <2>1, DeliveryKept DEF vars
<1>10. QED
  BY <1>1, <1>2, <1>3, <1>4, <1>5, <1>6, <1>7, <1>8, <1>9
     DEF Next, RunHandler

\* A reply line is consumed for each message before the next one is written.
THEOREM HalfDuplexCorrect == Spec => []HalfDuplex
<1>1. DeliveryInv => HalfDuplex
  BY DEF DeliveryInv, HalfDuplex
<1>2. QED
  BY <1>1, CycleInit, CycleStep, DeliveryInit, DeliveryStep, PTL DEF Spec

-----------------------------------------------------------------------------
(* Action properties.                                                      *)

\* The buffer of a write in progress stays the front of the queue.
THEOREM FrontStableCorrect == Spec => FrontStable
<1>1. CycleInv /\ [Next]_vars /\ io = "write" /\ io' = "write" =>
         msg_queue_ # <<>> /\ Head(msg_queue_') = Head(msg_queue_)
  <2> SUFFICES ASSUME CycleInv, [Next]_vars, io = "write", io' = "write"
               PROVE  msg_queue_ # <<>> /\ Head(msg_queue_') = Head(msg_queue_)
    OBVIOUS
  <2>1. msg_queue_ # <<>>
    BY DEF CycleInv, FrontPresent
  <2>2. ~RunNext("wrote")
    BY RanCompletion
  <2>3. CASE RunPush /\ ~dead_
    <3>1. msg_queue_' = Append(msg_queue_, Head(strand).msg)
      BY <2>3 DEF RunPush, PushAppend
    <3>2. strand \in Seq(Handler) /\ msg_queue_ \in Seq(Message)
      BY DEF CycleInv, TypeOK
    <3>3. Head(strand).msg \in Message
      BY <2>3, <3>2, Ran, HandlerFields DEF RunPush
    <3>4. QED
      BY <2>1, <3>1, <3>2, <3>3
  <2>4. CASE ~(RunPush /\ ~dead_)
    <3>1. msg_queue_' = msg_queue_
      BY <2>2, <2>4
         DEF Next, PushMessage, Close, WriteCompletes, ReadCompletes,
             RunHandler, RunPush, RunClose, RunWrote, RunRead, vars
    <3>2. QED
      BY <2>1, <3>1
  <2>5. QED
    BY <2>3, <2>4
<1>2. QED
  BY <1>1, CycleInit, CycleStep, PTL DEF Spec, FrontStable

\* Handlers that run after the end of the connection change nothing.
THEOREM QuietAfterDeathCorrect == Spec => QuietAfterDeath
<1>1. CycleInv /\ [Next]_vars /\ dead_ =>
         /\ dead_'
         /\ UNCHANGED <<msg_queue_, wire, replies, notified>>
         /\ io' \in {io, "none"}
  <2> SUFFICES ASSUME CycleInv, [Next]_vars, dead_
               PROVE  /\ dead_'
                      /\ UNCHANGED <<msg_queue_, wire, replies, notified>>
                      /\ io' \in {io, "none"}
    OBVIOUS
  <2>1. CASE WriteCompletes \/ ReadCompletes
    BY <2>1, OutcomeBoolean DEF WriteCompletes, ReadCompletes
  <2>2. CASE RunHandler
    BY <2>2 DEF RunHandler, RunPush, RunClose, RunWrote, RunRead
  <2>3. CASE ~(WriteCompletes \/ ReadCompletes) /\ ~RunHandler
    BY <2>3 DEF Next, PushMessage, Close, vars
  <2>4. QED
    BY <2>1, <2>2, <2>3
<1>2. QED
  BY <1>1, CycleInit, CycleStep, PTL DEF Spec, QuietAfterDeath

-----------------------------------------------------------------------------
(* The connection implements the ordered sender: a push handler accepts, a *)
(* completed write delivers, setting dead_ shuts.                          *)

LEMMA SenderInit == Init => Sender!Init
  BY DEF Init, Sender!Init

LEMMA SenderStep ==
    CycleInv /\ DeliveryInv /\ [Next]_vars => [Sender!Next]_(Sender!vars)
<1> SUFFICES ASSUME CycleInv, DeliveryInv, [Next]_vars
             PROVE  Sender!Next \/ UNCHANGED <<accepted, wire, ~dead_>>
  BY DEF Sender!vars
<1>0. /\ strand \in Seq(Handler) /\ dead_ \in BOOLEAN
      /\ msg_queue_ \in Seq(Message) /\ accepted \in Seq(Message)
      /\ wire \in Seq(Message)
  BY DEF CycleInv, TypeOK
<1>1. CASE WriteCompletes
  <2>1. PICK ok \in Outcome :
            wire' = IF ok THEN Append(wire, Head(msg_queue_)) ELSE wire
    BY <1>1 DEF WriteCompletes
  <2>2. ok \in BOOLEAN /\ (dead_ => ok = FALSE)
    BY <2>1, OutcomeBoolean
  <2>3. UNCHANGED <<accepted, dead_>> /\ io = "write"
    BY <1>1 DEF WriteCompletes
  <2>4. CASE ok
    <3>1. ~dead_ /\ ~Written
      BY <2>2, <2>3, <2>4, NoneWhileInFlight DEF Written
    <3>2. msg_queue_ # <<>>
      BY <2>3 DEF CycleInv, FrontPresent
    <3>3. /\ Len(wire) + Len(msg_queue_) = Len(accepted)
          /\ 1 \in 1..Len(msg_queue_)
      BY <1>0, <3>1, <3>2 DEF DeliveryInv
    <3>4. /\ Len(wire) < Len(accepted)
          /\ Len(accepted) - Len(msg_queue_) + 1 = Len(wire) + 1
      <4>1. /\ Len(wire) \in Nat /\ Len(msg_queue_) \in Nat
            /\ Len(accepted) \in Nat /\ Len(msg_queue_) # 0
        BY <1>0, <3>2
      <4>2. QED
        BY <3>3, <4>1
    <3>5. Head(msg_queue_) = accepted[Len(wire) + 1]
      BY <1>0, <3>2, <3>3, <3>4 DEF DeliveryInv
    <3>6. Sender!Deliver
      BY <2>1, <2>3, <2>4, <3>1, <3>4, <3>5 DEF Sender!Deliver
    <3>7. QED
      BY <3>6 DEF Sender!Next
  <2>5. CASE ~ok
    BY <2>1, <2>3, <2>5
  <2>6. QED
    BY <2>2, <2>4, <2>5
<1>2. CASE RunPush
  <2>1. Head(strand).msg \in Message
    BY <1>0, <1>2, Ran, HandlerFields DEF RunPush
  <2>2. CASE dead_
    BY <1>2, <2>2 DEF RunPush
  <2>3. CASE ~dead_
    <3>1. Sender!Accept(Head(strand).msg)
      BY <1>2, <2>3 DEF RunPush, Sender!Accept
    <3>2. QED
      BY <2>1, <3>1 DEF Sender!Next
  <2>4. QED
    BY <2>2, <2>3
<1>3. CASE RunClose \/ RunWrote \/ RunRead
  <2>1. UNCHANGED <<accepted, wire>> /\ (dead_ => dead_' = dead_)
    BY <1>3 DEF RunClose, RunWrote, RunRead
  <2>2. dead_' \in BOOLEAN
    BY CycleStep DEF CycleInv, TypeOK
  <2>3. CASE dead_' = dead_
    BY <2>1, <2>3
  <2>4. CASE dead_' # dead_
    <3>1. ~dead_ /\ dead_' = TRUE
      BY <1>0, <2>1, <2>2, <2>4
    <3>2. Sender!Shut
      BY <2>1, <3>1 DEF Sender!Shut
    <3>3. QED
      BY <3>2 DEF Sender!Next
  <2>5. QED
    BY <2>3, <2>4
<1>4. CASE ~WriteCompletes /\ ~RunHandler
  <2>1. UNCHANGED <<accepted, wire, dead_>>
    BY <1>4 DEF Next, PushMessage, Close, ReadCompletes, vars
  <2>2. QED
    BY <2>1
<1>5. QED
  BY <1>1, <1>2, <1>3, <1>4 DEF RunHandler

\* Messages are delivered in the order of acceptance, each once, and nothing
\* is accepted or delivered after the end.
THEOREM SenderCorrect == Spec => SenderSpec
<1>1. Init /\ [][Next]_vars => [](CycleInv /\ DeliveryInv)
  BY CycleInit, CycleStep, DeliveryInit, DeliveryStep, PTL
<1>2. QED
  BY <1>1, SenderInit, SenderStep, PTL DEF Spec, SenderSpec, Sender!Spec
=============================================================================
