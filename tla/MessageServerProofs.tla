------------------------ MODULE MessageServerProofs ------------------------
(***************************************************************************)
(* Of module MessageServer, for any data and any number of messages: no    *)
(* message is lost, only stop() ends the message thread, and nothing runs  *)
(* once run() has returned.                                                *)
(***************************************************************************)
EXTENDS MessageServer, SequenceTheorems, TLAPS

-----------------------------------------------------------------------------
(* Sequences.                                                              *)

LEMMA AppendElements ==
    ASSUME NEW S, NEW s \in Seq(S), NEW e \in S
    PROVE  /\ Append(s, e) \in Seq(S)
           /\ Len(Append(s, e)) = Len(s) + 1
           /\ \A i \in 1..Len(s) : Append(s, e)[i] = s[i]
           /\ Append(s, e)[Len(s) + 1] = e
  OBVIOUS

LEMMA WithoutProperties ==
    ASSUME NEW S, NEW s \in Seq(S), NEW k \in 1..Len(s)
    PROVE  /\ Without(s, k) \in Seq(S)
           /\ Len(Without(s, k)) = Len(s) - 1
           /\ \A j \in 1 .. Len(s) - 1 :
                 Without(s, k)[j] = IF j < k THEN s[j] ELSE s[j + 1]
<1>1. Len(s) \in Nat /\ Len(s) - 1 \in Nat
  OBVIOUS
<1>2. ASSUME NEW j \in 1 .. Len(s) - 1
      PROVE  (IF j < k THEN s[j] ELSE s[j + 1]) \in S
  <2>1. j \in 1..Len(s) /\ j + 1 \in 1..Len(s)
    BY <1>1
  <2> QED
    BY <2>1
<1>3. Without(s, k) \in [1 .. Len(s) - 1 -> S]
  BY <1>2 DEF Without
<1>4. Without(s, k) \in Seq(S)
  BY <1>1, <1>3
<1>5. Len(Without(s, k)) = Len(s) - 1
  BY <1>1, <1>3
<1> QED
  BY <1>4, <1>5 DEF Without

\* What follows the element left out stays at the end.
LEMMA WithoutAppend ==
    ASSUME NEW S, NEW s \in Seq(S), NEW e \in S, NEW k \in 1..Len(s)
    PROVE  Without(Append(s, e), k) = Append(Without(s, k), e)
<1> DEFINE t == Append(s, e)
           l == Without(t, k)
           r == Append(Without(s, k), e)
<1>1. Len(s) \in Nat /\ k \in Nat /\ k >= 1 /\ k <= Len(s)
  OBVIOUS
<1>2. /\ t \in Seq(S) /\ Len(t) = Len(s) + 1
      /\ \A i \in 1..Len(s) : t[i] = s[i]
      /\ t[Len(s) + 1] = e
  BY AppendElements
<1>3. k \in 1..Len(t)
  BY <1>1, <1>2
<1> HIDE DEF t
<1>4. /\ l \in Seq(S) /\ Len(l) = Len(s)
      /\ \A j \in 1..Len(s) : l[j] = IF j < k THEN t[j] ELSE t[j + 1]
  <2>1. /\ l \in Seq(S) /\ Len(l) = Len(t) - 1
        /\ \A j \in 1 .. Len(t) - 1 : l[j] = IF j < k THEN t[j] ELSE t[j + 1]
    BY <1>2, <1>3, WithoutProperties, Zenon
  <2>2. Len(t) - 1 = Len(s)
    BY <1>1, <1>2
  <2> QED
    BY <2>1, <2>2, Zenon
<1>5. /\ Without(s, k) \in Seq(S) /\ Len(Without(s, k)) = Len(s) - 1
      /\ \A j \in 1 .. Len(s) - 1 :
            Without(s, k)[j] = IF j < k THEN s[j] ELSE s[j + 1]
  BY WithoutProperties
<1>6. /\ r \in Seq(S) /\ Len(r) = Len(s)
      /\ \A j \in 1 .. Len(s) - 1 : r[j] = Without(s, k)[j]
      /\ r[Len(s)] = e
  BY <1>1, <1>5, AppendElements
<1> HIDE DEF l, r
<1>7. ASSUME NEW j \in 1..Len(s) PROVE l[j] = r[j]
  <2>1. CASE j = Len(s)
    BY <1>1, <1>2, <1>4, <1>6, <2>1
  <2>2. CASE j # Len(s)
    <3>1. j \in 1 .. Len(s) - 1 /\ j + 1 \in 1..Len(s)
      BY <1>1, <2>2
    <3>2. t[j] = s[j] /\ t[j + 1] = s[j + 1]
      BY <1>2, <3>1
    <3> QED
      BY <1>4, <1>5, <1>6, <3>1, <3>2
  <2> QED
    BY <2>1, <2>2
<1>8. l = r
  BY <1>4, <1>6, <1>7, SeqEqual
<1> QED
  BY <1>8 DEF l, r, t

LEMMA WithoutLast ==
    ASSUME NEW S, NEW s \in Seq(S), NEW e \in S
    PROVE  Without(Append(s, e), Len(s) + 1) = s
<1> DEFINE t == Append(s, e)
           k == Len(s) + 1
           l == Without(t, k)
<1>1. Len(s) \in Nat
  OBVIOUS
<1>2. /\ t \in Seq(S) /\ Len(t) = Len(s) + 1
      /\ \A i \in 1..Len(s) : t[i] = s[i]
  BY AppendElements
<1>3. k \in 1..Len(t)
  BY <1>1, <1>2
<1> HIDE DEF t
<1>4. /\ l \in Seq(S) /\ Len(l) = Len(s)
      /\ \A j \in 1..Len(s) : l[j] = t[j]
  <2>1. /\ l \in Seq(S) /\ Len(l) = Len(t) - 1
        /\ \A j \in 1 .. Len(t) - 1 : l[j] = IF j < k THEN t[j] ELSE t[j + 1]
    BY <1>2, <1>3, WithoutProperties, Zenon
  <2>2. Len(t) - 1 = Len(s)
    BY <1>1, <1>2
  <2>3. \A j \in 1..Len(s) : j < k
    BY <1>1
  <2> HIDE DEF l, k
  <2> QED
    BY <2>1, <2>2, <2>3
<1> HIDE DEF l
<1>5. l = s
  BY <1>2, <1>4, SeqEqual
<1> QED
  BY <1>5 DEF l, t, k

Joined(p, h, q) == (p \o h) \o q

\* The element between two sequences, taken to the end of the first.
LEMMA Passed ==
    \A S : \A p \in Seq(S), e \in S, q \in Seq(S) :
        /\ Joined(Append(p, e), <<>>, q) = Joined(p, <<e>>, q)
        /\ Joined(p, <<e>>, q)[Len(p) + 1] = e
        /\ Without(Joined(p, <<e>>, q), Len(p) + 1) = Joined(p, <<>>, q)
<1> SUFFICES
    ASSUME NEW S, NEW p \in Seq(S), NEW e \in S, NEW q \in Seq(S)
    PROVE  /\ (Append(p, e) \o <<>>) \o q = (p \o <<e>>) \o q
           /\ ((p \o <<e>>) \o q)[Len(p) + 1] = e
           /\ Without((p \o <<e>>) \o q, Len(p) + 1) = (p \o <<>>) \o q
    BY Zenon DEF Joined
<1> DEFINE a == Append(p, e)
           t == (p \o <<e>>) \o q
           w == Without(t, Len(p) + 1)
           r == p \o q
<1>1. Len(p) \in Nat /\ Len(q) \in Nat /\ <<e>> \in Seq(S)
  OBVIOUS
<1>2. /\ a \in Seq(S) /\ Len(a) = Len(p) + 1
      /\ \A i \in 1..Len(p) : a[i] = p[i]
      /\ a[Len(p) + 1] = e
  BY AppendElements
<1>3. p \o <<e>> = a /\ a \o <<>> = a /\ p \o <<>> = p
  BY <1>2, ConcatEmptySeq
<1> HIDE DEF a
<1>4. t = a \o q
  BY <1>3
<1>5. /\ t \in Seq(S) /\ Len(t) = Len(p) + 1 + Len(q)
      /\ \A i \in 1 .. Len(p) + 1 + Len(q) :
            t[i] = IF i <= Len(p) + 1 THEN a[i] ELSE q[i - (Len(p) + 1)]
  <2>1. /\ a \o q \in Seq(S) /\ Len(a \o q) = Len(a) + Len(q)
        /\ \A i \in 1 .. Len(a) + Len(q) :
              (a \o q)[i] = IF i <= Len(a) THEN a[i] ELSE q[i - Len(a)]
    BY <1>2, ConcatProperties, Zenon
  <2> HIDE DEF t
  <2> QED
    BY <1>2, <1>4, <2>1, Zenon
<1> HIDE DEF t
<1>6. t[Len(p) + 1] = e
  BY <1>1, <1>2, <1>5
<1>7. Len(p) + 1 \in 1..Len(t)
  BY <1>1, <1>5
<1>8. /\ w \in Seq(S) /\ Len(w) = Len(p) + Len(q)
      /\ \A j \in 1 .. Len(p) + Len(q) :
            w[j] = IF j < Len(p) + 1 THEN t[j] ELSE t[j + 1]
  <2>1. /\ w \in Seq(S) /\ Len(w) = Len(t) - 1
        /\ \A j \in 1 .. Len(t) - 1 :
              w[j] = IF j < Len(p) + 1 THEN t[j] ELSE t[j + 1]
    BY <1>5, <1>7, WithoutProperties, Zenon
  <2>2. Len(t) - 1 = Len(p) + Len(q)
    BY <1>1, <1>5
  <2> QED
    BY <2>1, <2>2, Zenon
<1>9. /\ r \in Seq(S) /\ Len(r) = Len(p) + Len(q)
      /\ \A j \in 1 .. Len(p) + Len(q) :
            r[j] = IF j <= Len(p) THEN p[j] ELSE q[j - Len(p)]
  BY ConcatProperties
<1> HIDE DEF w, r
<1>10. ASSUME NEW j \in 1 .. Len(p) + Len(q) PROVE w[j] = r[j]
  <2>1. j \in 1 .. Len(p) + 1 + Len(q) /\ j + 1 \in 1 .. Len(p) + 1 + Len(q)
    BY <1>1
  <2>2. CASE j <= Len(p)
    <3>1. j \in 1 .. Len(p) /\ j < Len(p) + 1
      BY <1>1, <2>2
    <3>2. w[j] = t[j] /\ r[j] = p[j]
      BY <1>8, <1>9, <2>2, <3>1
    <3>3. t[j] = p[j]
      BY <1>1, <1>2, <1>5, <2>1, <3>1
    <3> QED
      BY <3>2, <3>3
  <2>3. CASE j > Len(p)
    <3>1. (j + 1) - (Len(p) + 1) = j - Len(p)
      BY <1>1
    <3>2. t[j + 1] = q[j - Len(p)]
      BY <1>1, <1>5, <2>1, <2>3, <3>1
    <3> QED
      BY <1>1, <1>8, <1>9, <2>3, <3>2
  <2> QED
    BY <1>1, <2>2, <2>3
<1>11. w = r
  BY <1>8, <1>9, <1>10, SeqEqual
<1>12. t = (p \o <<e>>) \o q
  BY DEF t
<1>13. (Append(p, e) \o <<>>) \o q = (p \o <<e>>) \o q
  BY <1>3, <1>4, <1>12, Zenon DEF a
<1>14. Without((p \o <<e>>) \o q, Len(p) + 1) = (p \o <<>>) \o q
  BY <1>3, <1>11, <1>12, Zenon DEF w, r
<1> QED
  BY <1>6, <1>12, <1>13, <1>14, Zenon

-----------------------------------------------------------------------------
(* Messages.                                                               *)

Posted(js) == [i \in DOMAIN js |-> js[i].msg]

Way(js, h, q) == Joined(Posted(js), h, q)

Wanted(r) == [i \in DOMAIN r |-> processData(r[i])]

Job == [msg : Message, state : JobState]

\* What is received is never taken for the EXIT of stop(), whatever it reads.
LEMMA ProcessedType ==
    \A d \in Data : processData(d) \in Message /\ processData(d) # EXIT
  BY DEF processData, Message, EXIT

LEMMA ExitType == EXIT \in Message
  BY DEF Message

LEMMA PostedType ==
    ASSUME NEW js \in Seq(Job)
    PROVE  /\ Posted(js) \in Seq(Message) /\ Len(Posted(js)) = Len(js)
           /\ \A i \in 1..Len(js) : Posted(js)[i] = js[i].msg
<1>1. Len(js) \in Nat /\ DOMAIN js = 1..Len(js)
  OBVIOUS
<1>2. ASSUME NEW i \in 1..Len(js) PROVE js[i].msg \in Message
  <2>1. js[i] \in Job
    OBVIOUS
  <2> QED
    BY <2>1 DEF Job
<1>3. Posted(js) \in [1..Len(js) -> Message]
  BY <1>1, <1>2 DEF Posted
<1>4. \A i \in 1..Len(js) : Posted(js)[i] = js[i].msg
  BY <1>1 DEF Posted
<1> QED
  BY <1>1, <1>3, <1>4

LEMMA WantedType ==
    ASSUME NEW r \in Seq(Data)
    PROVE  /\ Wanted(r) \in Seq(Message) /\ Len(Wanted(r)) = Len(r)
           /\ \A i \in 1..Len(r) :
                 Wanted(r)[i] = processData(r[i]) /\ Wanted(r)[i] # EXIT
<1>1. Len(r) \in Nat /\ DOMAIN r = 1..Len(r)
  OBVIOUS
<1>2. ASSUME NEW i \in 1..Len(r)
      PROVE  processData(r[i]) \in Message /\ processData(r[i]) # EXIT
  <2>1. r[i] \in Data
    OBVIOUS
  <2> QED
    BY <2>1, ProcessedType
<1>3. Wanted(r) \in [1..Len(r) -> Message]
  BY <1>1, <1>2 DEF Wanted
<1>4. Wanted(r) \in Seq(Message) /\ Len(Wanted(r)) = Len(r)
  BY <1>1, <1>3
<1>5. \A i \in 1..Len(r) : Wanted(r)[i] = processData(r[i])
  BY <1>1 DEF Wanted
<1> QED
  BY <1>2, <1>4, <1>5

LEMMA WantedAppend ==
    ASSUME NEW r \in Seq(Data), NEW d \in Data
    PROVE  Wanted(Append(r, d)) = Append(Wanted(r), processData(d))
<1> DEFINE t == Append(r, d)
           w == Wanted(r)
           a == Append(w, processData(d))
           b == Wanted(t)
<1>1. Len(r) \in Nat
  OBVIOUS
<1>2. /\ t \in Seq(Data) /\ Len(t) = Len(r) + 1
      /\ \A i \in 1..Len(r) : t[i] = r[i]
      /\ t[Len(r) + 1] = d
  BY AppendElements
<1>3. /\ w \in Seq(Message) /\ Len(w) = Len(r)
      /\ \A i \in 1..Len(r) : w[i] = processData(r[i])
  BY WantedType
<1> HIDE DEF t, w
<1>4. processData(d) \in Message
  BY ProcessedType
<1>5. /\ a \in Seq(Message) /\ Len(a) = Len(w) + 1
      /\ \A i \in 1..Len(w) : a[i] = w[i]
      /\ a[Len(w) + 1] = processData(d)
  BY <1>3, <1>4, AppendElements
<1>6. /\ b \in Seq(Message) /\ Len(b) = Len(t)
      /\ \A i \in 1..Len(t) : b[i] = processData(t[i])
  BY <1>2, WantedType, Zenon
<1> HIDE DEF a, b
<1>7. ASSUME NEW i \in 1..Len(b) PROVE b[i] = a[i]
  <2>1. b[i] = processData(t[i])
    BY <1>6
  <2>2. CASE i = Len(r) + 1
    BY <1>2, <1>3, <1>5, <2>1, <2>2
  <2>3. CASE i # Len(r) + 1
    <3>1. i \in 1..Len(r)
      BY <1>1, <1>2, <1>6, <2>3
    <3> QED
      BY <1>2, <1>3, <1>5, <2>1, <3>1
  <2> QED
    BY <2>2, <2>3
<1>8. b = a
  BY <1>2, <1>3, <1>5, <1>6, <1>7, SeqEqual
<1> QED
  BY <1>8 DEF a, b, t, w

LEMMA PostedAppend ==
    ASSUME NEW js \in Seq(Job), NEW j \in Job
    PROVE  Posted(Append(js, j)) = Append(Posted(js), j.msg)
<1> DEFINE t == Append(js, j)
           w == Posted(js)
           a == Append(w, j.msg)
           b == Posted(t)
<1>1. Len(js) \in Nat
  OBVIOUS
<1>2. /\ t \in Seq(Job) /\ Len(t) = Len(js) + 1
      /\ \A i \in 1..Len(js) : t[i] = js[i]
      /\ t[Len(js) + 1] = j
  BY AppendElements
<1>3. /\ w \in Seq(Message) /\ Len(w) = Len(js)
      /\ \A i \in 1..Len(js) : w[i] = js[i].msg
  BY PostedType
<1> HIDE DEF t, w
<1>4. j.msg \in Message
  BY DEF Job
<1>5. /\ a \in Seq(Message) /\ Len(a) = Len(w) + 1
      /\ \A i \in 1..Len(w) : a[i] = w[i]
      /\ a[Len(w) + 1] = j.msg
  BY <1>3, <1>4, AppendElements
<1>6. /\ b \in Seq(Message) /\ Len(b) = Len(t)
      /\ \A i \in 1..Len(t) : b[i] = t[i].msg
  BY <1>2, PostedType, Zenon
<1> HIDE DEF a, b
<1>7. ASSUME NEW i \in 1..Len(b) PROVE b[i] = a[i]
  <2>1. b[i] = t[i].msg
    BY <1>6
  <2>2. CASE i = Len(js) + 1
    BY <1>2, <1>3, <1>5, <2>1, <2>2
  <2>3. CASE i # Len(js) + 1
    <3>1. i \in 1..Len(js)
      BY <1>1, <1>2, <1>6, <2>3
    <3> QED
      BY <1>2, <1>3, <1>5, <2>1, <3>1
  <2> QED
    BY <2>2, <2>3
<1>8. b = a
  BY <1>2, <1>3, <1>5, <1>6, <1>7, SeqEqual
<1> QED
  BY <1>8 DEF a, b, t, w

\* A handler changes how far an exchange is, not its message.
LEMMA PostedState ==
    ASSUME NEW js \in Seq(Job), NEW i \in DOMAIN js, NEW s \in JobState
    PROVE  /\ [js EXCEPT ![i].state = s] \in Seq(Job)
           /\ Posted([js EXCEPT ![i].state = s]) = Posted(js)
<1> DEFINE t == [js EXCEPT ![i].state = s]
<1>1. Len(js) \in Nat /\ DOMAIN js = 1..Len(js) /\ js \in [1..Len(js) -> Job]
  OBVIOUS
<1>2. ASSUME NEW k \in 1..Len(js)
      PROVE  t[k] \in Job /\ t[k].msg = js[k].msg
  <2>1. js[k] \in Job
    BY <1>1
  <2>2. CASE k = i
    <3>1. t[k] = [js[k] EXCEPT !.state = s]
      BY <1>1, <2>2
    <3> QED
      BY <2>1, <3>1 DEF Job
  <2>3. CASE k # i
    BY <1>1, <2>1, <2>3
  <2> QED
    BY <2>2, <2>3
<1>3. DOMAIN t = 1..Len(js)
  BY <1>1
<1>4. t = [k \in 1..Len(js) |-> t[k]]
  BY <1>1
<1> HIDE DEF t
<1>5. t \in [1..Len(js) -> Job]
  BY <1>2, <1>4
<1>6. t \in Seq(Job)
  BY <1>1, <1>5
<1>7. Posted(t) = Posted(js)
  BY <1>1, <1>2, <1>3 DEF Posted
<1> QED
  BY <1>6, <1>7 DEF t

-----------------------------------------------------------------------------
(* What is on the way.                                                     *)

LEMMA WayType ==
    ASSUME NEW js \in Seq(Job), NEW h \in Seq(Message), NEW q \in Seq(Message)
    PROVE  Way(js, h, q) \in Seq(Message)
  BY PostedType, ConcatProperties DEF Way, Joined

\* What is queued comes last.
LEMMA WayQueue ==
    ASSUME NEW js \in Seq(Job), NEW h \in Seq(Message), NEW q \in Seq(Message),
           NEW m \in Message
    PROVE  Way(js, h, Append(q, m)) = Append(Way(js, h, q), m)
<1> DEFINE p == Posted(js) \o h
<1>1. p \in Seq(Message)
  BY PostedType, ConcatProperties
<1> HIDE DEF p
<1>2. p \o Append(q, m) = Append(p \o q, m)
  BY <1>1
<1> QED
  BY <1>2 DEF Way, Joined, p

\* Taking the head of the queue moves nothing.
LEMMA WayTake ==
    ASSUME NEW js \in Seq(Job), NEW q \in Seq(Message), q # <<>>
    PROVE  Way(js, <<Head(q)>>, Tail(q)) = Way(js, <<>>, q)
<1>1. /\ Posted(js) \in Seq(Message) /\ <<Head(q)>> \in Seq(Message)
      /\ Tail(q) \in Seq(Message)
  BY PostedType, HeadTailProperties
<1>2. <<Head(q)>> \o Tail(q) = q
  OBVIOUS
<1>3. (Posted(js) \o <<Head(q)>>) \o Tail(q)
        = Posted(js) \o (<<Head(q)>> \o Tail(q))
  BY <1>1, ConcatAssociative
<1>4. Posted(js) \o <<>> = Posted(js)
  BY <1>1, ConcatEmptySeq
<1> QED
  BY <1>2, <1>3, <1>4, Zenon DEF Way, Joined

\* Nor does posting it; leaving EXIT out takes it out of the way.
LEMMA WayPass ==
    ASSUME NEW js \in Seq(Job), NEW m \in Message, NEW q \in Seq(Message),
           NEW j \in Job, j.msg = m
    PROVE  /\ Way(Append(js, j), <<>>, q) = Way(js, <<m>>, q)
           /\ Way(js, <<m>>, q)[Len(js) + 1] = m
           /\ Way(js, <<>>, q) = Without(Way(js, <<m>>, q), Len(js) + 1)
<1> DEFINE p == Posted(js)
<1>1. p \in Seq(Message) /\ Len(p) = Len(js)
  BY PostedType
<1>2. Posted(Append(js, j)) = Append(p, m)
  BY PostedAppend
<1> HIDE DEF p
<1>3. /\ Joined(Append(p, m), <<>>, q) = Joined(p, <<m>>, q)
      /\ Joined(p, <<m>>, q)[Len(p) + 1] = m
      /\ Without(Joined(p, <<m>>, q), Len(p) + 1) = Joined(p, <<>>, q)
  <2>1. \A f \in Seq(Message), e \in Message, g \in Seq(Message) :
           /\ Joined(Append(f, e), <<>>, g) = Joined(f, <<e>>, g)
           /\ Joined(f, <<e>>, g)[Len(f) + 1] = e
           /\ Without(Joined(f, <<e>>, g), Len(f) + 1) = Joined(f, <<>>, g)
    BY Passed, Zenon
  <2> QED
    BY <1>1, <2>1, Zenon
<1> QED
  BY <1>1, <1>2, <1>3, Zenon DEF Way, p

LEMMA WayLength ==
    ASSUME NEW js \in Seq(Job), NEW m \in Message, NEW q \in Seq(Message)
    PROVE  Len(Way(js, <<m>>, q)) = Len(js) + 1 + Len(q)
<1> DEFINE p == Posted(js)
<1>1. p \in Seq(Message) /\ Len(p) = Len(js) /\ <<m>> \in Seq(Message)
  BY PostedType
<1> HIDE DEF p
<1>2. /\ p \o <<m>> \in Seq(Message)
      /\ Len(p \o <<m>>) = Len(p) + 1
  BY <1>1
<1>3. Len((p \o <<m>>) \o q) = Len(p) + 1 + Len(q)
  BY <1>2, ConcatProperties
<1> QED
  BY <1>1, <1>3 DEF Way, Joined, p

-----------------------------------------------------------------------------
(* The invariant.                                                          *)

\* Where the steps of stop() and the threads that run handlers are.
ThreadsOK ==
    /\ stopped => ~is_running_
    /\ exit_sent => stopping = "nobody"
    /\ stopping # "nobody" => thread[stopping] = "running"
    /\ ~is_running_ => stopping # "nobody" \/ exit_sent
    /\ thread["client"] # "returned"
    /\ thread["client"] = "left" => stopped
    /\ thread["server"] = "returned" =>
          worker = "exited" /\ thread["client"] = "left"

\* NothingLost, with the EXIT on the way only if stop() has queued it.
Kept(js, w, e, x) ==
    \/ w = e
    \/ x /\ \E i \in Len(js) + 1 .. Len(w) : w[i] = EXIT /\ Without(w, i) = e

LossOK == Kept(jobs, Way(jobs, held, message_queue_), Wanted(received), exit_sent)

Inv == TypeOK /\ ThreadsOK /\ WorkerOutlives /\ LossOK

LEMMA InitInv == Init => Inv
<1> SUFFICES ASSUME Init PROVE Inv
  OBVIOUS
<1>1. TypeOK
  <2>1. <<>> \in Seq(Message) /\ <<>> \in Seq(Data) /\ Len(<<>>) = 0
        /\ <<>> \in Seq([msg : Message, state : JobState])
    OBVIOUS
  <2>2. thread \in [Thread -> {"starting", "running", "left", "returned"}]
    BY DEF Init
  <2>3. message_queue_ \in Seq(Message) /\ received \in Seq(Data)
        /\ jobs \in Seq([msg : Message, state : JobState])
    BY <2>1 DEF Init
  <2>4. held \in Seq(Message) /\ Len(held) = IF worker = "holding" THEN 1 ELSE 0
    BY <2>1 DEF Init
  <2>5. Len(received) <= MaxMessages
    BY <2>1, MaxMessagesAssumption DEF Init
  <2>6. stopping \in Thread \cup {"nobody"}
    BY DEF Init
  <2> QED
    BY <2>2, <2>3, <2>4, <2>5, <2>6, Zenon DEF Init, TypeOK
<1>2. ThreadsOK /\ WorkerOutlives
  BY DEF Init, ThreadsOK, WorkerOutlives, Thread
<1>3. LossOK
  <2>1. Way(<<>>, <<>>, <<>>) = Wanted(<<>>)
    <3>1. Posted(<<>>) = <<>> /\ Wanted(<<>>) = <<>>
      BY DEF Posted, Wanted
    <3>2. Joined(<<>>, <<>>, <<>>) = <<>>
      BY DEF Joined
    <3> QED
      BY <3>1, <3>2 DEF Way
  <2> QED
    BY <2>1 DEF Init, LossOK, Kept
<1> QED
  BY <1>1, <1>2, <1>3 DEF Inv

\* Kept does not mind a message that is both received and queued.
LEMMA KeptMessage ==
    ASSUME NEW js \in Seq(Job), NEW w \in Seq(Message), NEW e \in Seq(Message),
           NEW x \in BOOLEAN, NEW m \in Message, Kept(js, w, e, x)
    PROVE  Kept(js, Append(w, m), Append(e, m), x)
<1>1. CASE w = e
  BY <1>1 DEF Kept
<1>2. ASSUME x, NEW i \in Len(js) + 1 .. Len(w),
             w[i] = EXIT, Without(w, i) = e
      PROVE  Kept(js, Append(w, m), Append(e, m), x)
  <2>1. Len(js) \in Nat /\ Len(w) \in Nat
    OBVIOUS
  <2>2. i \in 1..Len(w)
    BY <2>1
  <2>3. Append(w, m)[i] = w[i] /\ Len(Append(w, m)) = Len(w) + 1
    BY <2>2, AppendElements
  <2>4. Without(Append(w, m), i) = Append(Without(w, i), m)
    BY <2>2, WithoutAppend
  <2>5. i \in Len(js) + 1 .. Len(Append(w, m))
    BY <2>1, <2>3
  <2>6. /\ Append(w, m)[i] = EXIT
        /\ Without(Append(w, m), i) = Append(e, m)
    BY <1>2, <2>3, <2>4
  <2> QED
    BY <1>2, <2>5, <2>6 DEF Kept
<1> QED
  BY <1>1, <1>2 DEF Kept

\* The EXIT of stop() is the first.
LEMMA KeptExit ==
    ASSUME NEW js \in Seq(Job), NEW w \in Seq(Message), NEW e \in Seq(Message),
           Kept(js, w, e, FALSE), Len(js) <= Len(w)
    PROVE  Kept(js, Append(w, EXIT), e, TRUE)
<1>1. w = e
  BY DEF Kept
<1>2. Len(js) \in Nat /\ Len(w) \in Nat
  OBVIOUS
<1>3. Append(w, EXIT)[Len(w) + 1] = EXIT /\ Len(Append(w, EXIT)) = Len(w) + 1
  BY ExitType, AppendElements
<1>4. Without(Append(w, EXIT), Len(w) + 1) = e
  BY <1>1, ExitType, WithoutLast
<1>5. Len(w) + 1 \in Len(js) + 1 .. Len(Append(w, EXIT))
  BY <1>2, <1>3
<1> QED
  BY <1>3, <1>4, <1>5 DEF Kept

\* What the message thread holds is EXIT only if stop() has queued it, and is
\* then what NothingLost leaves out; if it is not, posting it is harmless.
LEMMA KeptHeld ==
    ASSUME NEW js \in Seq(Job), NEW j \in Job, NEW w \in Seq(Message),
           NEW r \in Seq(Data), NEW x \in BOOLEAN,
           Kept(js, w, Wanted(r), x), Len(js) + 1 <= Len(w)
    PROVE  /\ w[Len(js) + 1] = EXIT =>
                 x /\ Without(w, Len(js) + 1) = Wanted(r)
           /\ w[Len(js) + 1] # EXIT => Kept(Append(js, j), w, Wanted(r), x)
<1> DEFINE e == Wanted(r)
           k == Len(js) + 1
<1>1. /\ e \in Seq(Message) /\ Len(e) = Len(r)
      /\ \A i \in 1..Len(r) : e[i] # EXIT
  BY WantedType
<1>2. Len(js) \in Nat /\ Len(w) \in Nat /\ k \in 1..Len(w)
      /\ Len(Append(js, j)) = Len(js) + 1
  OBVIOUS
<1> HIDE DEF e
<1>3. CASE w = e
  BY <1>1, <1>2, <1>3 DEF Kept, e
<1>4. ASSUME x, NEW i \in Len(js) + 1 .. Len(w), w[i] = EXIT, Without(w, i) = e
      PROVE  /\ w[k] = EXIT => x /\ Without(w, k) = e
             /\ w[k] # EXIT => Kept(Append(js, j), w, e, x)
  <2>1. CASE i = k
    BY <1>4, <2>1
  <2>2. CASE i # k
    <3>1. i \in 1..Len(w) /\ k < i /\ k \in 1 .. Len(w) - 1
      BY <1>2, <2>2
    <3>2. /\ Without(w, i)[k] = w[k]
          /\ Len(Without(w, i)) = Len(w) - 1
      BY <3>1, WithoutProperties
    <3>3. w[k] # EXIT
      BY <1>1, <1>4, <3>1, <3>2
    <3>4. i \in Len(Append(js, j)) + 1 .. Len(w)
      BY <1>2, <3>1
    <3> QED
      BY <1>4, <3>3, <3>4 DEF Kept
  <2> QED
    BY <2>1, <2>2
<1> QED
  BY <1>3, <1>4 DEF Kept, e

-----------------------------------------------------------------------------
(* The steps.                                                              *)

LEMMA TypeStep == TypeOK /\ [Next]_vars => TypeOK'
<1> SUFFICES ASSUME TypeOK, [Next]_vars PROVE TypeOK'
  OBVIOUS
<1> USE DEF TypeOK
<1>1. ASSUME NEW data \in Data, OnMessage(data) PROVE TypeOK'
  <2>1. processData(data) \in Message
    BY ProcessedType
  <2>2. message_queue_' \in Seq(Message)
    BY <1>1, <2>1 DEF OnMessage
  <2>3. received' \in Seq(Data) /\ Len(received') <= MaxMessages
    BY <1>1, MaxMessagesAssumption DEF OnMessage
  <2>4. worker' \in {"loop", "entering", "falling", "waiting", "woken",
                     "holding", "exited"}
        /\ (worker' = "holding" <=> worker = "holding")
    BY <1>1 DEF OnMessage, Notify
  <2>5. UNCHANGED <<held, jobs, stopVars, thread>>
    BY <1>1 DEF OnMessage
  <2> QED
    BY <2>2, <2>3, <2>4, <2>5 DEF stopVars
<1>2. CASE WorkerLoop
  BY <1>2 DEF WorkerLoop, queueVars, stopVars
<1>3. CASE WorkerTest
  <2>1. /\ message_queue_' \in Seq(Message)
        /\ held' \in Seq(Message)
        /\ Len(held') = IF worker' = "holding" THEN 1 ELSE 0
    <3>1. CASE message_queue_ # <<>>
      <4>1. Head(message_queue_) \in Message /\ Tail(message_queue_) \in Seq(Message)
        BY <3>1
      <4>2. <<Head(message_queue_)>> \in Seq(Message)
            /\ Len(<<Head(message_queue_)>>) = 1
        BY <4>1
      <4>3. /\ message_queue_' = Tail(message_queue_)
            /\ held' = <<Head(message_queue_)>>
            /\ worker' = "holding"
        BY <1>3, <3>1, Zenon DEF WorkerTest
      <4> QED
        BY <4>1, <4>2, <4>3, Zenon
    <3>2. CASE message_queue_ = <<>>
      <4>1. /\ message_queue_' = message_queue_ /\ held' = held
            /\ worker' \in {"falling", "exited"}
        BY <1>3, <3>2 DEF WorkerTest
      <4>2. worker # "holding"
        BY <1>3 DEF WorkerTest
      <4> QED
        BY <4>1, <4>2
    <3> QED
      BY <3>1, <3>2
  <2>2. worker' \in {"loop", "entering", "falling", "waiting", "woken",
                     "holding", "exited"}
    BY <1>3 DEF WorkerTest
  <2>3. UNCHANGED <<received, jobs, stopVars, thread>>
    BY <1>3 DEF WorkerTest
  <2> QED
    BY <2>1, <2>2, <2>3 DEF stopVars
<1>4. CASE WorkerSleeps \/ WorkerWakes
  BY <1>4 DEF WorkerSleeps, WorkerWakes, queueVars, stopVars
<1>5. CASE WorkerSends
  <2>1. held[1] \in Message
    <3>1. held \in Seq(Message) /\ Len(held) = 1
      BY <1>5 DEF WorkerSends
    <3> HIDE DEF TypeOK
    <3> QED
      BY <3>1
  <2>2. UNCHANGED <<message_queue_, received, is_running_, stopping, stopped,
                    exit_sent, thread>>
    BY <1>5 DEF WorkerSends, queueVars, stopVars
  <2>3. worker' \in {"loop", "exited"} /\ held' = <<>>
    BY <1>5 DEF WorkerSends
  <2>4. jobs' = jobs
        \/ jobs' = Append(jobs, [msg |-> held[1], state |-> "posted"])
    BY <1>5 DEF WorkerSends
  <2>5. jobs \in Seq([msg : Message, state : JobState])
    OBVIOUS
  <2>6. jobs' \in Seq([msg : Message, state : JobState])
    <3> HIDE DEF TypeOK
    <3>1. [msg |-> held[1], state |-> "posted"] \in [msg : Message, state : JobState]
      BY <2>1 DEF JobState
    <3>2. \A S : \A s \in Seq(S), e \in S : Append(s, e) \in Seq(S)
      OBVIOUS
    <3> QED
      BY <2>4, <2>5, <3>1, <3>2, Zenon
  <2>7. held' \in Seq(Message)
        /\ Len(held') = IF worker' = "holding" THEN 1 ELSE 0
    <3> HIDE DEF TypeOK
    <3>1. <<>> \in Seq(Message) /\ Len(<<>>) = 0
      OBVIOUS
    <3> QED
      BY <2>3, <3>1
  <2>8. worker' \in {"loop", "entering", "falling", "waiting", "woken",
                     "holding", "exited"}
    BY <2>3
  <2> QED
    BY <2>2, <2>6, <2>7, <2>8
<1>6. ASSUME NEW t \in Thread, ThreadRuns(t) PROVE TypeOK'
  <2>1. thread' \in [Thread -> {"starting", "running", "left", "returned"}]
    BY <1>6 DEF ThreadRuns
  <2>2. UNCHANGED <<queueVars, workerVars, stopVars>>
    BY <1>6 DEF ThreadRuns
  <2> QED
    BY <2>1, <2>2 DEF queueVars, workerVars, stopVars
<1>7. ASSUME NEW t \in Thread, StopBegins(t) PROVE TypeOK'
  BY <1>7 DEF StopBegins, queueVars, workerVars
<1>8. CASE ServerReturns
  <2>1. thread' \in [Thread -> {"starting", "running", "left", "returned"}]
    BY <1>8 DEF ServerReturns
  <2> QED
    BY <1>8, <2>1 DEF ServerReturns, queueVars, workerVars, stopVars
<1>9. ASSUME NEW i \in DOMAIN jobs, Handler(i) PROVE TypeOK'
  <2>1. PICK s \in JobState : jobs' = [jobs EXCEPT ![i].state = s]
    BY <1>9 DEF Handler, JobState
  <2>2. jobs' \in Seq(Job)
    BY <2>1, PostedState DEF Job
  <2> QED
    BY <1>9, <2>2 DEF Handler, queueVars, stopVars, Job
<1>10. CASE StopContext
  BY <1>10 DEF StopContext, queueVars, workerVars
<1>11. CASE StopWakes
  <2>1. message_queue_' \in Seq(Message)
    BY <1>11, ExitType DEF StopWakes
  <2>2. worker' \in {"loop", "entering", "falling", "waiting", "woken",
                     "holding", "exited"}
        /\ (worker' = "holding" <=> worker = "holding")
    BY <1>11 DEF StopWakes, Notify
  <2> QED
    BY <1>11, <2>1, <2>2 DEF StopWakes
<1>12. CASE UNCHANGED vars
  BY <1>12 DEF vars, queueVars, workerVars, stopVars
<1> QED
  BY <1>1, <1>2, <1>3, <1>4, <1>5, <1>6, <1>7, <1>8, <1>9, <1>10, <1>11, <1>12
     DEF Next, Worker, Stop

\* What the message thread holds, and what becomes of it.
LEMMA HeldFacts ==
    ASSUME TypeOK, worker = "holding"
    PROVE  /\ held[1] \in Message /\ held = <<held[1]>>
           /\ Way(jobs, held, message_queue_) \in Seq(Message)
           /\ Len(jobs) + 1 <= Len(Way(jobs, held, message_queue_))
           /\ Way(jobs, held, message_queue_)[Len(jobs) + 1] = held[1]
           /\ Way(jobs, <<>>, message_queue_)
                 = Without(Way(jobs, held, message_queue_), Len(jobs) + 1)
           /\ [msg |-> held[1], state |-> "posted"] \in Job
           /\ Way(Append(jobs, [msg |-> held[1], state |-> "posted"]), <<>>,
                  message_queue_)
                 = Way(jobs, held, message_queue_)
<1> DEFINE m == held[1]
           j == [msg |-> m, state |-> "posted"]
<1>1. /\ held \in Seq(Message) /\ Len(held) = 1
      /\ jobs \in Seq(Job) /\ message_queue_ \in Seq(Message)
  BY DEF TypeOK, Job
<1>2. m \in Message /\ held = <<m>>
  <2>1. m \in Message
    <3>1. \A s \in Seq(Message) : Len(s) = 1 => s[1] \in Message
      OBVIOUS
    <3> QED
      BY <1>1, <3>1
  <2>2. <<m>> \in Seq(Message) /\ Len(<<m>>) = 1 /\ <<m>>[1] = held[1]
    BY <2>1
  <2>3. \A i \in 1..Len(held) : held[i] = <<m>>[i]
    BY <1>1, <2>2
  <2> HIDE DEF m
  <2> QED
    BY <1>1, <2>1, <2>2, <2>3, SeqEqual
<1> HIDE DEF m
<1>3. j \in Job /\ j.msg = m
  BY <1>2 DEF Job, JobState
<1> HIDE DEF j
<1>4. /\ Way(Append(jobs, j), <<>>, message_queue_) = Way(jobs, <<m>>, message_queue_)
      /\ Way(jobs, <<m>>, message_queue_)[Len(jobs) + 1] = m
      /\ Way(jobs, <<>>, message_queue_)
            = Without(Way(jobs, <<m>>, message_queue_), Len(jobs) + 1)
  BY <1>1, <1>2, <1>3, WayPass
<1>5. Len(Way(jobs, <<m>>, message_queue_)) = Len(jobs) + 1 + Len(message_queue_)
  BY <1>1, <1>2, WayLength
<1>6. Len(jobs) + 1 <= Len(Way(jobs, <<m>>, message_queue_))
  BY <1>1, <1>5
<1>7. Way(jobs, held, message_queue_) \in Seq(Message)
  BY <1>1, WayType
<1> QED
  BY <1>2, <1>3, <1>4, <1>6, <1>7, Zenon DEF m, j

LEMMA HeldExit ==
    ASSUME Inv, worker = "holding"
    PROVE  /\ held[1] = EXIT =>
                 exit_sent /\ ~is_running_
                 /\ Way(jobs, <<>>, message_queue_) = Wanted(received)
           /\ held[1] # EXIT =>
                 Kept(Append(jobs, [msg |-> held[1], state |-> "posted"]),
                      Way(jobs, held, message_queue_), Wanted(received), exit_sent)
<1> DEFINE w == Way(jobs, held, message_queue_)
           j == [msg |-> held[1], state |-> "posted"]
<1>1. /\ TypeOK /\ ThreadsOK
      /\ Kept(jobs, w, Wanted(received), exit_sent)
  BY DEF Inv, LossOK
<1>2. /\ jobs \in Seq(Job) /\ received \in Seq(Data) /\ exit_sent \in BOOLEAN
  BY <1>1 DEF TypeOK, Job
<1>3. /\ w \in Seq(Message) /\ Len(jobs) + 1 <= Len(w)
      /\ w[Len(jobs) + 1] = held[1] /\ j \in Job
      /\ Way(jobs, <<>>, message_queue_) = Without(w, Len(jobs) + 1)
  BY <1>1, HeldFacts
<1> HIDE DEF w, j
<1>4. /\ held[1] = EXIT =>
            exit_sent /\ Without(w, Len(jobs) + 1) = Wanted(received)
      /\ held[1] # EXIT => Kept(Append(jobs, j), w, Wanted(received), exit_sent)
  BY <1>1, <1>2, <1>3, KeptHeld, Zenon
<1>5. exit_sent => ~is_running_
  BY <1>1 DEF TypeOK, ThreadsOK
<1> QED
  BY <1>3, <1>4, <1>5, Zenon DEF w, j

LEMMA ThreadsStep ==
    Inv /\ [Next]_vars => ThreadsOK' /\ WorkerOutlives'
<1> SUFFICES ASSUME Inv, [Next]_vars PROVE ThreadsOK' /\ WorkerOutlives'
  OBVIOUS
<1> USE DEF ThreadsOK, WorkerOutlives
<1>0. TypeOK /\ ThreadsOK /\ WorkerOutlives
  BY DEF Inv
<1>t. /\ thread \in [Thread -> {"starting", "running", "left", "returned"}]
      /\ stopping \in Thread \cup {"nobody"}
      /\ is_running_ => ~stopped /\ stopping = "nobody"
      /\ exit_sent => stopped
  BY <1>0 DEF TypeOK
<1>1. ASSUME NEW data \in Data, OnMessage(data)
      PROVE  ThreadsOK' /\ WorkerOutlives'
  BY <1>0, <1>1 DEF OnMessage, Notify, stopVars
<1>2. CASE WorkerLoop
  BY <1>0, <1>2 DEF WorkerLoop, stopVars
<1>3. CASE WorkerTest
  BY <1>0, <1>3 DEF WorkerTest, stopVars
<1>4. CASE WorkerSleeps \/ WorkerWakes
  BY <1>0, <1>4 DEF WorkerSleeps, WorkerWakes, stopVars
<1>5. CASE WorkerSends
  <2>1. worker = "holding"
    BY <1>5 DEF WorkerSends
  <2>2. held[1] = EXIT => ~is_running_
    BY <2>1, HeldExit
  <2> QED
    BY <1>0, <1>5, <2>1, <2>2 DEF WorkerSends, stopVars
<1>6. ASSUME NEW t \in Thread, ThreadRuns(t)
      PROVE  ThreadsOK' /\ WorkerOutlives'
  <2>1. UNCHANGED <<worker, is_running_, stopping, stopped, exit_sent>>
    BY <1>6 DEF ThreadRuns, workerVars, stopVars
  <2>2. CASE /\ thread[t] = "starting"
             /\ thread' = [thread EXCEPT ![t] = IF Flag(t) THEN "running"
                                                           ELSE "left"]
    BY <1>0, <1>t, <2>1, <2>2 DEF Flag, Thread
  <2>3. CASE /\ thread[t] = "running" /\ stopped /\ stopping # t
             /\ thread' = [thread EXCEPT ![t] = "left"]
    BY <1>0, <1>t, <2>1, <2>3 DEF Thread
  <2> QED
    BY <1>6, <2>2, <2>3 DEF ThreadRuns
<1>7. ASSUME NEW t \in Thread, StopBegins(t)
      PROVE  ThreadsOK' /\ WorkerOutlives'
  BY <1>0, <1>t, <1>7 DEF StopBegins, workerVars, Thread
<1>8. CASE ServerReturns
  BY <1>0, <1>t, <1>8 DEF ServerReturns, workerVars, stopVars, Thread
<1>9. ASSUME NEW i \in DOMAIN jobs, Handler(i)
      PROVE  ThreadsOK' /\ WorkerOutlives'
  BY <1>0, <1>9 DEF Handler, stopVars
<1>10. CASE StopContext
  BY <1>0, <1>t, <1>10 DEF StopContext, workerVars
<1>11. CASE StopWakes
  BY <1>0, <1>t, <1>11 DEF StopWakes, Notify
<1>12. CASE UNCHANGED vars
  BY <1>0, <1>12 DEF vars, workerVars, stopVars
<1> QED
  BY <1>1, <1>2, <1>3, <1>4, <1>5, <1>6, <1>7, <1>8, <1>9, <1>10, <1>11, <1>12
     DEF Next, Worker, Stop

LEMMA LossStep == Inv /\ [Next]_vars => LossOK'
<1> SUFFICES ASSUME Inv, [Next]_vars PROVE LossOK'
  OBVIOUS
<1> DEFINE w == Way(jobs, held, message_queue_)
<1>0. /\ jobs \in Seq(Job) /\ held \in Seq(Message)
      /\ message_queue_ \in Seq(Message) /\ received \in Seq(Data)
      /\ exit_sent \in BOOLEAN
      /\ Kept(jobs, w, Wanted(received), exit_sent)
  BY DEF Inv, TypeOK, LossOK, Job
<1>w. w \in Seq(Message) /\ Wanted(received) \in Seq(Message)
  BY <1>0, WayType, WantedType
<1>1. ASSUME NEW data \in Data, OnMessage(data) PROVE LossOK'
  <2>1. /\ received' = Append(received, data)
        /\ message_queue_' = Append(message_queue_, processData(data))
        /\ UNCHANGED <<held, jobs, exit_sent>>
    BY <1>1 DEF OnMessage, stopVars
  <2>2. processData(data) \in Message
    BY ProcessedType
  <2>3. Way(jobs, held, Append(message_queue_, processData(data)))
          = Append(w, processData(data))
    BY <1>0, <2>2, WayQueue
  <2>4. Wanted(Append(received, data))
          = Append(Wanted(received), processData(data))
    BY <1>0, WantedAppend
  <2> HIDE DEF w
  <2>5. Kept(jobs, Append(w, processData(data)),
             Append(Wanted(received), processData(data)), exit_sent)
    BY <1>0, <1>w, <2>2, KeptMessage
  <2> QED
    BY <2>1, <2>3, <2>4, <2>5, Zenon DEF LossOK
<1>2. ASSUME UNCHANGED <<jobs, held, message_queue_, received, exit_sent>>
      PROVE  LossOK'
  BY <1>0, <1>2, Zenon DEF LossOK
<1>3. CASE WorkerTest
  <2>1. CASE message_queue_ # <<>>
    <3>1. held = <<>>
      BY <1>3, <1>0 DEF WorkerTest, Inv, TypeOK
    <3>2. /\ message_queue_' = Tail(message_queue_)
          /\ held' = <<Head(message_queue_)>>
          /\ UNCHANGED <<jobs, received, exit_sent>>
      BY <1>3, <2>1, Zenon DEF WorkerTest, stopVars
    <3>3. Way(jobs, <<Head(message_queue_)>>, Tail(message_queue_)) = w
      BY <1>0, <2>1, <3>1, WayTake
    <3> HIDE DEF w
    <3> QED
      BY <1>0, <3>2, <3>3, Zenon DEF LossOK
  <2>2. CASE message_queue_ = <<>>
    BY <1>2, <1>3, <2>2 DEF WorkerTest, stopVars
  <2> QED
    BY <2>1, <2>2
<1>4. CASE WorkerSends
  <2>1. /\ worker = "holding" /\ held' = <<>>
        /\ UNCHANGED <<message_queue_, received, exit_sent>>
    BY <1>4 DEF WorkerSends, queueVars, stopVars
  <2>2. CASE held[1] = EXIT
    <3>1. jobs' = jobs
      BY <1>4, <2>2 DEF WorkerSends
    <3>2. Way(jobs, <<>>, message_queue_) = Wanted(received)
      BY <2>1, <2>2, HeldExit
    <3> QED
      BY <2>1, <3>1, <3>2, Zenon DEF LossOK, Kept
  <2>3. CASE held[1] # EXIT
    <3> DEFINE j == [msg |-> held[1], state |-> "posted"]
    <3>1. jobs' = Append(jobs, j)
      BY <1>4, <2>3 DEF WorkerSends
    <3>2. Way(Append(jobs, j), <<>>, message_queue_) = w
      BY <2>1, HeldFacts DEF Inv
    <3>3. Kept(Append(jobs, j), w, Wanted(received), exit_sent)
      BY <2>1, <2>3, HeldExit
    <3> HIDE DEF w, j
    <3> QED
      BY <2>1, <3>1, <3>2, <3>3, Zenon DEF LossOK
  <2> QED
    BY <2>2, <2>3
<1>5. ASSUME NEW i \in DOMAIN jobs, Handler(i) PROVE LossOK'
  <2>1. PICK s \in JobState : jobs' = [jobs EXCEPT ![i].state = s]
    BY <1>5 DEF Handler, JobState
  <2>2. Posted(jobs') = Posted(jobs)
    BY <1>0, <2>1, PostedState
  <2>3. jobs' \in Seq(Job)
    BY <1>0, <2>1, PostedState
  <2>4. Len(jobs') = Len(jobs)
    BY <1>0, <2>2, <2>3, PostedType
  <2>5. UNCHANGED <<held, message_queue_, received, exit_sent>>
    BY <1>5 DEF Handler, queueVars, stopVars
  <2>6. Way(jobs', held', message_queue_') = w
    BY <2>2, <2>5, Zenon DEF Way
  <2> HIDE DEF w
  <2>7. Kept(jobs', w, Wanted(received), exit_sent)
    BY <1>0, <2>4, Zenon DEF Kept
  <2> QED
    BY <2>5, <2>6, <2>7, Zenon DEF LossOK
<1>6. CASE StopWakes
  <2>1. /\ message_queue_' = Append(message_queue_, EXIT)
        /\ exit_sent' = TRUE /\ exit_sent = FALSE
        /\ UNCHANGED <<received, held, jobs>>
    BY <1>0, <1>6 DEF StopWakes
  <2>2. Way(jobs, held, Append(message_queue_, EXIT)) = Append(w, EXIT)
    BY <1>0, ExitType, WayQueue
  <2>3. Len(jobs) <= Len(w)
    <3>1. Posted(jobs) \in Seq(Message) /\ Len(Posted(jobs)) = Len(jobs)
      BY <1>0, PostedType
    <3>2. \A p \in Seq(Message), q \in Seq(Message) :
             p \o q \in Seq(Message) /\ Len(p \o q) = Len(p) + Len(q)
      BY ConcatProperties
    <3>3. Len((Posted(jobs) \o held) \o message_queue_)
            = Len(jobs) + Len(held) + Len(message_queue_)
      <4>1. /\ Posted(jobs) \o held \in Seq(Message)
            /\ Len(Posted(jobs) \o held) = Len(Posted(jobs)) + Len(held)
        BY <1>0, <3>1, <3>2, Zenon
      <4>2. Len((Posted(jobs) \o held) \o message_queue_)
              = Len(Posted(jobs) \o held) + Len(message_queue_)
        BY <1>0, <4>1, <3>2, Zenon
      <4> QED
        BY <3>1, <4>1, <4>2, Zenon
    <3>4. Len(jobs) \in Nat /\ Len(held) \in Nat /\ Len(message_queue_) \in Nat
      BY <1>0
    <3>5. Len(w) = Len(jobs) + Len(held) + Len(message_queue_)
      BY <3>3 DEF Way, Joined
    <3> HIDE DEF w
    <3> QED
      BY <3>4, <3>5
  <2> HIDE DEF w
  <2>4. Kept(jobs, Append(w, EXIT), Wanted(received), TRUE)
    BY <1>0, <1>w, <2>1, <2>3, KeptExit
  <2> QED
    BY <2>1, <2>2, <2>4, Zenon DEF LossOK
<1>7. CASE WorkerLoop \/ WorkerSleeps \/ WorkerWakes
  BY <1>2, <1>7 DEF WorkerLoop, WorkerSleeps, WorkerWakes, queueVars, stopVars
<1>8. ASSUME NEW t \in Thread, ThreadRuns(t) \/ StopBegins(t) PROVE LossOK'
  BY <1>2, <1>8 DEF ThreadRuns, StopBegins, queueVars, workerVars, stopVars
<1>9. CASE ServerReturns \/ StopContext
  BY <1>2, <1>9 DEF ServerReturns, StopContext, queueVars, workerVars, stopVars
<1>10. CASE UNCHANGED vars
  BY <1>2, <1>10 DEF vars, queueVars, workerVars, stopVars
<1> QED
  BY <1>1, <1>3, <1>4, <1>5, <1>6, <1>7, <1>8, <1>9, <1>10
     DEF Next, Worker, Stop

LEMMA StepInv == Inv /\ [Next]_vars => Inv'
  BY TypeStep, ThreadsStep, LossStep DEF Inv

LEMMA InvCorrect == Spec => []Inv
  BY InitInv, StepInv, PTL DEF Spec

-----------------------------------------------------------------------------
(* The theorems.                                                           *)

\* For any messages and however stop() meets them, the types hold, with what
\* the places of the threads mean (v2.0Client.cc:149-262).
THEOREM TypeCorrect == Spec => []TypeOK
  BY InvCorrect, PTL DEF Inv

\* No message received is lost, repeated or overtaken on its way from
\* onMessage to the io_context, whatever stop() and the wait conditions do.
THEOREM NothingLostCorrect == Spec => []NothingLost
<1>1. Inv => NothingLost
  <2> SUFFICES ASSUME Inv PROVE NothingLost
    OBVIOUS
  <2>1. OnTheWay = Way(jobs, held, message_queue_) /\ Expected = Wanted(received)
    BY Zenon DEF OnTheWay, Expected, Way, Joined, Posted, Wanted
  <2> QED
    BY <2>1, Zenon DEF Inv, LossOK, Kept, NothingLost
<1> QED
  BY <1>1, InvCorrect, PTL

\* Only stop() ends the message thread, whatever a message reads: the prefix
\* processData adds tells it from the EXIT of stop().
THEOREM WorkerOutlivesCorrect == Spec => []WorkerOutlives
  BY InvCorrect, PTL DEF Inv

\* Once run() has returned no thread of the server does anything any more.
THEOREM ReturnIsFinalCorrect == Spec => ReturnIsFinal
<1>1. Inv /\ [Next]_vars =>
        [thread["server"] = "returned"
            => UNCHANGED <<workerVars, thread, stopVars>>]_vars
  <2> SUFFICES ASSUME Inv, Next, thread["server"] = "returned"
               PROVE  UNCHANGED <<workerVars, thread, stopVars>>
    OBVIOUS
  <2>1. /\ worker = "exited" /\ thread["client"] = "left"
        /\ ~is_running_ /\ stopped /\ exit_sent /\ stopping = "nobody"
    BY DEF Inv, ThreadsOK, TypeOK, Thread
  <2>2. \A t \in Thread : thread[t] \in {"left", "returned"}
    BY <2>1 DEF Thread
  <2>3. ASSUME NEW data \in Data, OnMessage(data)
        PROVE  UNCHANGED <<workerVars, thread, stopVars>>
    BY <2>1, <2>3 DEF OnMessage, Notify, workerVars
  <2>4. ~Worker /\ ~WorkerWakes
    BY <2>1 DEF Worker, WorkerLoop, WorkerTest, WorkerSleeps, WorkerSends,
                WorkerWakes
  <2>5. \A t \in Thread : ~ThreadRuns(t) /\ ~StopBegins(t)
    BY <2>2 DEF ThreadRuns, StopBegins
  <2>6. ~ServerReturns /\ ~Stop
    BY <2>1 DEF ServerReturns, Stop, StopContext, StopWakes
  <2>7. \A i \in DOMAIN jobs : ~Handler(i)
    BY <2>1 DEF Handler, Served
  <2> QED
    BY <2>3, <2>4, <2>5, <2>6, <2>7 DEF Next
<1> QED
  BY <1>1, InvCorrect, PTL DEF Spec, ReturnIsFinal
=============================================================================
