------------------------ MODULE ResponseReaderProofs ------------------------
(***************************************************************************)
(* Proofs about module ResponseReader, for any well-formed responses: what *)
(* is handed over is the body meant, and only a chunk read waits for bytes *)
(* the peer has no reason to send.                                         *)
(***************************************************************************)
EXTENDS ResponseReader, SequenceTheorems, TLAPS

\* The bytes taken out of the buffer so far; the buffer and what is still on
\* the way are the bytes behind them, in order.
Taken == Len(response.bytes) - Len(buf) - Len(incoming)

StreamInv ==
    /\ buf \in Seq(STRING) /\ incoming \in Seq(STRING)
    /\ \A i \in 1..Len(buf) : buf[i] = response.bytes[Taken + i]
    /\ \A i \in 1..Len(incoming) :
          incoming[i] = response.bytes[Taken + Len(buf) + i]

\* b is the first n elements of c.
Begins(b, c, n) ==
    /\ n \in 0..Len(c)
    /\ b \in Seq(STRING) /\ Len(b) = n
    /\ \A i \in 1..n : b[i] = c[i]

Assembled(n) == Begins(body, response.content, n)

\* Where in the response each operation stands, and what it has assembled: a
\* size line is read exactly at the start of one, a chunk exactly behind it.
AtHead == Taken = 0 /\ Assembled(0)

AtLength ==
    /\ ~response.chunked
    /\ Taken = 1 /\ Assembled(0)
    /\ need + Len(buf) = response.length

AtSize ==
    /\ response.chunked
    /\ \E k \in DOMAIN response.starts :
          Taken = response.starts[k] - 1 /\ Assembled(Before(response, k))

AtData ==
    /\ response.chunked
    /\ \E k \in 1 .. Len(response.starts) - 1 :
          /\ Taken = response.starts[k] + 2 /\ Assembled(Before(response, k))
          /\ chunk_size = Size(response, k)
    /\ need + Len(buf) >= chunk_size + 2

AtLast ==
    /\ response.chunked
    /\ Taken = Len(response.bytes) - 2 /\ Assembled(Len(response.content))

PlaceInv ==
    /\ reading = "head" => AtHead
    /\ reading = "length" => AtLength
    /\ reading = "size" => AtSize
    /\ reading = "data" => AtData
    /\ reading = "last" => AtLast
    /\ reading = "done" => Assembled(Len(response.content))
    /\ \E n \in 0..Len(response.content) : Assembled(n)

ReaderInv ==
    /\ response \in Response
    /\ need \in Nat
    /\ reading \in {"head", "length", "size", "data", "last", "done", "error"}
    /\ StreamInv
    /\ PlaceInv

-----------------------------------------------------------------------------
(* Sequences.                                                              *)

\* What is left of s without its first m elements.
LEMMA Dropped ==
    ASSUME NEW s \in Seq(STRING), NEW m \in 0..Len(s)
    PROVE  LET t == SubSeq(s, m + 1, Len(s)) IN
              /\ t \in Seq(STRING) /\ Len(t) = Len(s) - m
              /\ \A i \in 1..Len(t) : t[i] = s[m + i]
<1>1. Len(s) \in Nat /\ \A i \in 1..Len(s) : s[i] \in STRING
  BY ElementOfSeq
<1>2. \A i \in m + 1 .. Len(s) : s[i] \in STRING
  BY <1>1
<1>3. /\ SubSeq(s, m + 1, Len(s)) \in Seq(STRING)
      /\ Len(SubSeq(s, m + 1, Len(s))) =
            IF m + 1 <= Len(s) THEN Len(s) - (m + 1) + 1 ELSE 0
      /\ \A i \in 1 .. Len(s) - (m + 1) + 1 :
            SubSeq(s, m + 1, Len(s))[i] = s[m + 1 + i - 1]
  BY <1>1, <1>2, SubSeqProperties
<1> QED
  BY <1>1, <1>3

\* The first m elements of s.
LEMMA Kept ==
    ASSUME NEW s \in Seq(STRING), NEW m \in 0..Len(s)
    PROVE  /\ SubSeq(s, 1, m) \in Seq(STRING) /\ Len(SubSeq(s, 1, m)) = m
           /\ \A i \in 1..m : SubSeq(s, 1, m)[i] = s[i]
<1>1. Len(s) \in Nat /\ \A i \in 1..Len(s) : s[i] \in STRING
  BY ElementOfSeq
<1>2. \A i \in 1..m : s[i] \in STRING
  BY <1>1
<1>3. /\ SubSeq(s, 1, m) \in Seq(STRING)
      /\ Len(SubSeq(s, 1, m)) = IF 1 <= m THEN m - 1 + 1 ELSE 0
      /\ \A i \in 1 .. m - 1 + 1 : SubSeq(s, 1, m)[i] = s[1 + i - 1]
  BY <1>1, <1>2, SubSeqProperties
<1> QED
  BY <1>1, <1>3

LEMMA Joined ==
    ASSUME NEW s \in Seq(STRING), NEW t \in Seq(STRING)
    PROVE  /\ s \o t \in Seq(STRING) /\ Len(s \o t) = Len(s) + Len(t)
           /\ \A i \in 1..Len(s) : (s \o t)[i] = s[i]
           /\ \A i \in 1..Len(t) : (s \o t)[Len(s) + i] = t[i]
<1>1. /\ s \o t \in Seq(STRING) /\ Len(s \o t) = Len(s) + Len(t)
      /\ \A i \in 1 .. Len(s) + Len(t) :
            (s \o t)[i] = IF i <= Len(s) THEN s[i] ELSE t[i - Len(s)]
  BY ConcatProperties
<1>2. Len(s) \in Nat /\ Len(t) \in Nat
  OBVIOUS
<1> QED
  BY <1>1, <1>2

-----------------------------------------------------------------------------
(* Well-formed responses.                                                  *)

LEMMA Typed ==
    ASSUME NEW r \in Response
    PROVE  /\ WellFormed(r)
           /\ r.bytes \in Seq(STRING) /\ r.content \in Seq(STRING)
           /\ Len(r.bytes) \in Nat /\ Len(r.content) \in Nat
           /\ r.length \in Nat
<1>1. WellFormed(r)
  BY ResponseAssumption
<1>2. r.bytes \in Seq(STRING) /\ r.content \in Seq(STRING) /\ r.length \in Nat
  BY <1>1 DEF WellFormed
<1> QED
  BY <1>1, <1>2

LEMMA FirstByte ==
    ASSUME NEW r \in Response
    PROVE  Len(r.bytes) >= 1 /\ r.bytes[1] = "HEAD"
<1>1. r.bytes \in Seq(STRING) /\ r.bytes # <<>> /\ r.bytes[1] = "HEAD"
  BY Typed DEF WellFormed
<1> QED
  BY <1>1

LEMMA PlainBytes ==
    ASSUME NEW r \in Response, ~r.chunked
    PROVE  /\ r.length = Len(r.content) /\ Len(r.bytes) = r.length + 1
           /\ \A i \in 1..r.length : r.bytes[1 + i] = r.content[i]
<1>1. /\ r.bytes \in Seq(STRING) /\ r.bytes # <<>>
      /\ r.length = Len(r.content) /\ r.content = Tail(r.bytes)
  BY Typed DEF WellFormed
<1>2. /\ Len(Tail(r.bytes)) = Len(r.bytes) - 1
      /\ \A i \in 1..Len(Tail(r.bytes)) : Tail(r.bytes)[i] = r.bytes[i + 1]
  BY <1>1, HeadTailProperties
<1> QED
  BY <1>1, <1>2, Typed

\* Every size line: a digit and an end of line.
LEMMA SizeLine ==
    ASSUME NEW r \in Response, r.chunked, NEW k \in DOMAIN r.starts
    PROVE  /\ k \in 1..Len(r.starts)
           /\ r.starts[k] \in 2 .. Len(r.bytes) - 4
           /\ r.bytes[r.starts[k]] \in DOMAIN Hex
           /\ r.bytes[r.starts[k] + 1] = "CR"
           /\ r.bytes[r.starts[k] + 2] = "LF"
           /\ Before(r, k) \in 0..Len(r.content)
           /\ k = Len(r.starts) => LastChunkAt(r, k)
           /\ k # Len(r.starts) => ChunkAt(r, k)
<1>1. /\ r.starts \in Seq(Nat)
      /\ r.starts[k] \in 2 .. Len(r.bytes) - 4
      /\ CrlfAt(r, r.starts[k] + 1)
      /\ Before(r, k) \in 0..Len(r.content)
      /\ k = Len(r.starts) => LastChunkAt(r, k)
      /\ k # Len(r.starts) => ChunkAt(r, k)
  BY Typed DEF WellFormed
<1>2. r.bytes[r.starts[k]] \in DOMAIN Hex
  BY <1>1 DEF ChunkAt, LastChunkAt, Hex
<1>a. r.starts[k] + 1 + 1 = r.starts[k] + 2
  BY <1>1, Typed
<1>3. /\ r.bytes[r.starts[k] + 1] = "CR" /\ r.bytes[r.starts[k] + 2] = "LF"
  BY <1>1, <1>a, Zenon DEF CrlfAt
<1> QED
  BY <1>1, <1>2, <1>3

LEMMA HexValues ==
    /\ Hex["0"] = 0
    /\ \A d \in DOMAIN Hex : d # "CR" /\ Hex[d] \in Nat /\ (Hex[d] = 0 => d = "0")
  BY DEF Hex

LEMMA ParseSizeDigit ==
    ASSUME NEW d \in DOMAIN Hex, NEW line, line \in Seq(STRING), Len(line) = 1,
           line[1] = d
    PROVE  ParseSize(line) = Hex[d]
<1>1. line # <<>> /\ Head(line) = d
  OBVIOUS
<1> QED
  BY <1>1 DEF ParseSize

\* A buffer that starts with a digit and holds the end of a line holds the end
\* of that line behind it.
LEMMA FirstLineIsTwo ==
    ASSUME NEW b \in Seq(STRING), LineEnds(b) # {}, b[1] # "CR",
           Len(b) >= 3 => b[2] = "CR" /\ b[3] = "LF"
    PROVE  Len(b) >= 3 /\ FirstLine(b) = 2
<1>1. Len(b) \in Nat
  OBVIOUS
<1>2. \A i \in LineEnds(b) : i \in 2 .. Len(b) - 1
  BY <1>1 DEF LineEnds
<1>3. Len(b) >= 3
  BY <1>1, <1>2
<1>4. 2 \in LineEnds(b)
  BY <1>1, <1>3 DEF LineEnds
<1>5. \A i \in LineEnds(b) : (\A j \in LineEnds(b) : i <= j) => i = 2
  BY <1>1, <1>2, <1>4
<1>6. \A j \in LineEnds(b) : 2 <= j
  BY <1>1, <1>2
<1> QED
  BY <1>3, <1>4, <1>5, <1>6 DEF FirstLine

-----------------------------------------------------------------------------
(* What the handlers do to the buffer and to the body.                     *)

LEMMA StreamTyped ==
    ASSUME response \in Response, StreamInv
    PROVE  /\ Len(buf) \in Nat /\ Len(incoming) \in Nat /\ Taken \in Int
           /\ Len(response.bytes) \in Nat /\ Len(response.content) \in Nat
           /\ Len(response.bytes) = Taken + Len(buf) + Len(incoming)
           /\ response.length \in Nat
  BY Typed DEF StreamInv, Taken

\* Taking m bytes out of the buffer.
LEMMA TakeOut ==
    ASSUME response \in Response, StreamInv, NEW m \in 0..Len(buf),
           buf' = SubSeq(buf, m + 1, Len(buf)),
           incoming' = incoming, response' = response
    PROVE  StreamInv' /\ Taken' = Taken + m /\ Len(buf') = Len(buf) - m
<1>1. buf \in Seq(STRING) /\ Len(buf) \in Nat /\ Len(incoming) \in Nat
      /\ Taken \in Int /\ Len(response.bytes) \in Nat
  BY StreamTyped DEF StreamInv
<1>2. /\ buf' \in Seq(STRING) /\ Len(buf') = Len(buf) - m
      /\ \A i \in 1..Len(buf') : buf'[i] = buf[m + i]
  BY <1>1, Dropped
<1>3. Taken' = Taken + m
  <2>1. Len(buf') = Len(buf) - m
    BY <1>2
  <2>2. Taken' = Len(response.bytes) - Len(buf') - Len(incoming)
    BY Zenon DEF Taken
  <2>3. Taken = Len(response.bytes) - Len(buf) - Len(incoming)
    BY Zenon DEF Taken
  <2>4. m \in Int
    OBVIOUS
  <2> QED
    BY <1>1, <2>1, <2>2, <2>3, <2>4
<1>4. ASSUME NEW i \in 1..Len(buf')
      PROVE  buf'[i] = response'.bytes[Taken' + i]
  <2>1. m + i \in 1..Len(buf) /\ Taken + (m + i) = Taken' + i
    BY <1>1, <1>2, <1>3
  <2>2. buf[m + i] = response.bytes[Taken + (m + i)]
    BY <2>1 DEF StreamInv
  <2> QED
    BY <1>2, <2>1, <2>2
<1>5. ASSUME NEW i \in 1..Len(incoming')
      PROVE  incoming'[i] = response'.bytes[Taken' + Len(buf') + i]
  <2>0. Len(buf') = Len(buf) - m /\ i \in Int /\ m \in Int
    BY <1>2
  <2>b. Taken \in Int /\ Len(buf) \in Int
    BY <1>1
  <2>c. (Taken + m) + (Len(buf) - m) + i = Taken + Len(buf) + i
    BY <2>0, <2>b, SMT
  <2>1. Taken' + Len(buf') + i = Taken + Len(buf) + i
    BY <1>3, <2>0, <2>c, Zenon
  <2> QED
    BY <2>1, Zenon DEF StreamInv
<1>6. incoming' \in Seq(STRING)
  BY DEF StreamInv
<1> QED
  BY <1>2, <1>3, <1>4, <1>5, <1>6, Zenon DEF StreamInv

\* Appending m bytes of the buffer to the body: they are those the content
\* goes on with.
LEMMA Extend ==
    ASSUME response \in Response, StreamInv, NEW n, Assembled(n),
           NEW m \in 0..Len(buf), n + m <= Len(response.content),
           \A i \in 1..m : response.content[n + i] = response.bytes[Taken + i],
           body' = body \o SubSeq(buf, 1, m), response' = response
    PROVE  Begins(body', response.content, n + m)
<1>0. Len(response.content) \in Nat
  BY StreamTyped
<1>1. /\ n \in Nat /\ body \in Seq(STRING) /\ Len(body) = n
      /\ \A i \in 1..n : body[i] = response.content[i]
  BY <1>0 DEF Assembled, Begins
<1>2. /\ buf \in Seq(STRING) /\ Len(buf) \in Nat
      /\ \A i \in 1..Len(buf) : buf[i] = response.bytes[Taken + i]
  BY StreamTyped DEF StreamInv
<1> DEFINE t == SubSeq(buf, 1, m)
<1>3. t \in Seq(STRING) /\ Len(t) = m /\ \A i \in 1..m : t[i] = buf[i]
  BY <1>2, Kept
<1> HIDE DEF t
<1>4. /\ body \o t \in Seq(STRING) /\ Len(body \o t) = n + m
      /\ \A i \in 1..n : (body \o t)[i] = body[i]
      /\ \A i \in 1..m : (body \o t)[n + i] = t[i]
  BY <1>1, <1>3, Joined
<1>5. body' = body \o t
  BY DEF t
<1>6. ASSUME NEW i \in 1 .. n + m
      PROVE  body'[i] = response'.content[i]
  <2>1. CASE i \in 1..n
    BY <2>1, <1>1, <1>4, <1>5
  <2>2. CASE i \notin 1..n
    <3>1. i - n \in 1..m /\ n + (i - n) = i /\ i - n \in 1..Len(buf)
      BY <2>2, <1>1, <1>2
    <3>2. body'[i] = t[i - n] /\ t[i - n] = buf[i - n]
      BY <3>1, <1>3, <1>4, <1>5
    <3>3. buf[i - n] = response.bytes[Taken + (i - n)]
      BY <3>1, <1>2
    <3>4. response.content[i] = response.bytes[Taken + (i - n)]
      BY <3>1
    <3> QED
      BY <3>2, <3>3, <3>4
  <2> QED
    BY <2>1, <2>2
<1>7. n + m \in 0..Len(response'.content) /\ Len(body') = n + m
      /\ body' \in Seq(STRING)
  <2>1. m \in Nat
    BY <1>2
  <2>2. n + m \in 0..Len(response.content)
    BY <1>0, <1>1, <2>1
  <2> QED
    BY <1>4, <1>5, <2>2
<1> QED
  BY <1>6, <1>7, Zenon DEF Assembled, Begins

LEMMA SameBody ==
    ASSUME NEW n, Assembled(n), body' = body, response' = response
    PROVE  Begins(body', response'.content, n)
  BY DEF Assembled

\* Bytes that arrive.
LEMMA ReceiveStream ==
    ASSUME response \in Response, need \in Nat, StreamInv, Receive
    PROVE  /\ StreamInv' /\ Taken' = Taken
           /\ Counting => need' + Len(buf') = need + Len(buf)
           /\ need' \in Nat
<1> PICK k \in 1..Len(incoming) :
        /\ Counting => k <= need
        /\ buf' = buf \o SubSeq(incoming, 1, k)
        /\ incoming' = SubSeq(incoming, k + 1, Len(incoming))
        /\ need' = IF Counting THEN need - k ELSE need
  BY DEF Receive
<1>1. /\ buf \in Seq(STRING) /\ Len(buf) \in Nat
      /\ incoming \in Seq(STRING) /\ Len(incoming) \in Nat /\ Taken \in Int
      /\ k \in 0..Len(incoming) /\ response' = response
  BY StreamTyped DEF StreamInv, Receive
<1> DEFINE t == SubSeq(incoming, 1, k)
<1>2. t \in Seq(STRING) /\ Len(t) = k /\ \A i \in 1..k : t[i] = incoming[i]
  BY <1>1, Kept
<1>3. /\ incoming' \in Seq(STRING) /\ Len(incoming') = Len(incoming) - k
      /\ \A i \in 1..Len(incoming') : incoming'[i] = incoming[k + i]
  BY <1>1, Dropped
<1>4. buf' = buf \o t
  OBVIOUS
<1> HIDE DEF t
<1>5. /\ buf' \in Seq(STRING) /\ Len(buf') = Len(buf) + k
      /\ \A i \in 1..Len(buf) : buf'[i] = buf[i]
      /\ \A i \in 1..k : buf'[Len(buf) + i] = t[i]
  BY <1>1, <1>2, <1>4, Joined
<1>6. Taken' = Taken
  <2>1. /\ Len(buf') = Len(buf) + k /\ Len(incoming') = Len(incoming) - k
        /\ k \in Int /\ Len(response.bytes) \in Nat
    BY <1>3, <1>5, StreamTyped
  <2>2. Taken' = Len(response.bytes) - Len(buf') - Len(incoming')
    BY <1>1, Zenon DEF Taken
  <2>3. Taken = Len(response.bytes) - Len(buf) - Len(incoming)
    BY Zenon DEF Taken
  <2> QED
    BY <1>1, <2>1, <2>2, <2>3
<1>7. ASSUME NEW i \in 1..Len(buf')
      PROVE  buf'[i] = response'.bytes[Taken' + i]
  <2>1. CASE i \in 1..Len(buf)
    BY <2>1, <1>1, <1>5, <1>6 DEF StreamInv
  <2>2. CASE i \notin 1..Len(buf)
    <3> DEFINE j == i - Len(buf)
    <3>1. /\ j \in 1..k /\ j \in 1..Len(incoming) /\ i = Len(buf) + j
          /\ Taken + Len(buf) + j = Taken + i
      BY <2>2, <1>1, <1>5
    <3> HIDE DEF j
    <3>2. buf'[i] = incoming[j]
      BY <3>1, <1>2, <1>5
    <3>3. incoming[j] = response.bytes[Taken + Len(buf) + j]
      BY <3>1 DEF StreamInv
    <3> QED
      BY <3>1, <3>2, <3>3, <1>1, <1>6
  <2> QED
    BY <2>1, <2>2
<1>8. ASSUME NEW i \in 1..Len(incoming')
      PROVE  incoming'[i] = response'.bytes[Taken' + Len(buf') + i]
  <2>1. /\ k + i \in 1..Len(incoming)
        /\ Taken + Len(buf) + (k + i) = Taken' + Len(buf') + i
    BY <1>1, <1>3, <1>5, <1>6
  <2>2. incoming[k + i] = response.bytes[Taken + Len(buf) + (k + i)]
    BY <2>1 DEF StreamInv
  <2> QED
    BY <2>1, <2>2, <1>1, <1>3
<1>9. StreamInv'
  BY <1>3, <1>5, <1>7, <1>8, Zenon DEF StreamInv
<1>10. Counting => need' + Len(buf') = need + Len(buf)
  BY <1>1, <1>5
<1>11. need' \in Nat
  BY <1>1
<1> QED
  BY <1>6, <1>9, <1>10, <1>11

-----------------------------------------------------------------------------
(* The invariant, one lemma for each action.                               *)

LEMMA InitInv == Init => ReaderInv
<1> SUFFICES ASSUME Init PROVE ReaderInv
  OBVIOUS
<1>1. /\ response \in Response /\ incoming = response.bytes /\ buf = <<>>
      /\ reading = "head" /\ need = 0 /\ body = <<>>
  BY DEF Init
<1>2. /\ response.bytes \in Seq(STRING) /\ Len(response.bytes) \in Nat
      /\ Len(response.content) \in Nat
  BY <1>1, Typed
<1>3. /\ Len(buf) = 0 /\ Len(body) = 0
      /\ buf \in Seq(STRING) /\ body \in Seq(STRING)
  BY <1>1, EmptySeq
<1>4. Taken = 0
  BY <1>1, <1>2, <1>3 DEF Taken
<1>5. StreamInv
  <2>1. \A i \in 1..Len(incoming) :
           incoming[i] = response.bytes[Taken + Len(buf) + i]
    BY <1>1, <1>2, <1>3, <1>4
  <2>2. \A i \in 1..Len(buf) : buf[i] = response.bytes[Taken + i]
    BY <1>3
  <2> QED
    BY <1>1, <1>2, <1>3, <2>1, <2>2, Zenon DEF StreamInv
<1>6. Assembled(0)
  BY <1>2, <1>3 DEF Assembled, Begins
<1>7. PlaceInv
  <2>1. 0 \in 0..Len(response.content)
    BY <1>2
  <2> QED
    BY <1>1, <1>4, <1>6, <2>1 DEF PlaceInv, AtHead
<1> QED
  BY <1>1, <1>5, <1>7 DEF ReaderInv

LEMMA ReceiveInv ==
    ASSUME ReaderInv, Receive
    PROVE  ReaderInv'
<1>1. response \in Response /\ need \in Nat /\ StreamInv /\ PlaceInv
  BY DEF ReaderInv
<1>2. /\ StreamInv' /\ Taken' = Taken /\ need' \in Nat
      /\ Counting => need' + Len(buf') = need + Len(buf)
  BY <1>1, ReceiveStream
<1>3. /\ response' = response /\ reading' = reading
      /\ chunk_size' = chunk_size /\ body' = body
  BY DEF Receive
<1>4. ASSUME NEW n, Assembled(n) PROVE Assembled(n)'
  BY <1>3, <1>4, SameBody DEF Assembled
<1>5. AtHead => AtHead'
  BY <1>2, <1>4 DEF AtHead
<1>6. AtLength /\ reading = "length" => AtLength'
  BY <1>2, <1>3, <1>4 DEF AtLength, Counting
<1>7. AtSize => AtSize'
  BY <1>2, <1>3, <1>4, Zenon DEF AtSize, Before
<1>8. AtData /\ reading = "data" => AtData'
  <2> SUFFICES ASSUME AtData, reading = "data" PROVE AtData'
    OBVIOUS
  <2>1. need' + Len(buf') = need + Len(buf)
    BY <1>2 DEF Counting
  <2>2. need' + Len(buf') >= chunk_size' + 2
    BY <2>1, <1>3 DEF AtData
  <2>3. \E k \in 1 .. Len(response'.starts) - 1 :
           /\ Taken' = response'.starts[k] + 2
           /\ Assembled(Before(response, k))'
           /\ chunk_size' = Size(response', k)
    BY <1>2, <1>3, <1>4, Zenon DEF AtData, Before
  <2> QED
    BY <1>3, <2>2, <2>3, Zenon DEF AtData
<1>9. AtLast => AtLast'
  BY <1>2, <1>3, <1>4 DEF AtLast
<1>10. PlaceInv'
  BY <1>1, <1>3, <1>4, <1>5, <1>6, <1>7, <1>8, <1>9, Zenon DEF PlaceInv
<1> QED
  BY <1>1, <1>2, <1>3, <1>10, Zenon DEF ReaderInv

LEMMA BreakInv ==
    ASSUME ReaderInv, Break
    PROVE  ReaderInv'
<1>1. response \in Response /\ need \in Nat /\ StreamInv /\ PlaceInv
  BY DEF ReaderInv
<1>2. /\ response' = response /\ incoming' = incoming /\ buf' = buf
      /\ need' = need /\ body' = body /\ reading' = "error"
  BY DEF Break
<1>3. StreamInv'
  BY <1>1, <1>2 DEF StreamInv, Taken
<1>4. PlaceInv'
  BY <1>1, <1>2 DEF PlaceInv, Assembled, Begins
<1> QED
  BY <1>1, <1>2, <1>3, <1>4 DEF ReaderInv

LEMMA HeadReadInv ==
    ASSUME ReaderInv, HeadRead
    PROVE  ReaderInv'
<1>1. /\ response \in Response /\ need \in Nat /\ StreamInv
      /\ Taken = 0 /\ Assembled(0)
  BY DEF ReaderInv, PlaceInv, AtHead, HeadRead
<1>2. /\ buf' = Tail(buf) /\ response' = response /\ incoming' = incoming
      /\ body' = body /\ "HEAD" \in ToSet(buf)
  BY DEF HeadRead, Complete
<1>3. /\ buf \in Seq(STRING) /\ buf # <<>> /\ Len(buf) \in Nat
      /\ Len(incoming) \in Nat
  BY <1>1, <1>2, StreamTyped DEF StreamInv, ToSet
<1>4. 1 \in 0..Len(buf) /\ buf' = SubSeq(buf, 1 + 1, Len(buf))
  BY <1>2, <1>3, TailIsSubSeq
<1>5. StreamInv' /\ Taken' = 1 /\ Len(buf') = Len(buf) - 1
  BY <1>1, <1>2, <1>4, TakeOut
<1>6. Assembled(0)'
  BY <1>1, <1>2, SameBody DEF Assembled
<1>7. /\ response.length \in Nat /\ Len(response.content) \in Nat
      /\ Len(response.bytes) \in Nat
  BY <1>1, Typed
<1>8. CASE response.chunked /\ reading' = "size" /\ need' = need
  <2>1. /\ 1 \in DOMAIN response.starts /\ response.starts[1] = 2
    BY <1>1, <1>8, Typed DEF WellFormed
  <2>2. Taken' = response'.starts[1] - 1 /\ Before(response, 1) = 0
    BY <1>2, <1>5, <2>1 DEF Before
  <2>3. AtSize'
    BY <1>2, <1>6, <1>8, <2>1, <2>2, Zenon DEF AtSize
  <2> QED
    BY <1>1, <1>2, <1>5, <1>6, <1>7, <1>8, <2>3 DEF ReaderInv, PlaceInv
<1>9. CASE /\ ~response.chunked /\ response.length > 0
           /\ reading' = "length" /\ need' = response.length - AlreadyRead(buf')
  <2>1. Len(response.bytes) = response.length + 1
    BY <1>1, <1>9, PlainBytes
  <2>2. /\ Len(buf') \in Nat /\ Len(response.bytes) = 1 + Len(buf') + Len(incoming)
    <3>1. Len(response.bytes) = Taken + Len(buf) + Len(incoming)
      BY <1>1, StreamTyped
    <3>2. Len(buf) \in Nat /\ Len(buf) # 0
      BY <1>3
    <3> QED
      BY <1>1, <1>3, <1>5, <3>1, <3>2
  <2>3. Len(buf') <= response.length
    BY <1>3, <1>7, <2>1, <2>2
  <2>4. AlreadyRead(buf') = Len(buf')
    BY <1>7, <2>2, <2>3 DEF AlreadyRead
  <2>5. need' \in Nat /\ need' + Len(buf') = response.length
    BY <1>7, <1>9, <2>2, <2>3, <2>4
  <2>6. AtLength'
    BY <1>2, <1>5, <1>6, <1>9, <2>5 DEF AtLength
  <2> QED
    BY <1>1, <1>2, <1>5, <1>6, <1>7, <1>9, <2>5, <2>6 DEF ReaderInv, PlaceInv
<1>10. CASE /\ ~response.chunked /\ response.length = 0
            /\ reading' = "done" /\ need' = need
  <2>1. Len(response.content) = 0
    BY <1>1, <1>10, PlainBytes
  <2> QED
    BY <1>1, <1>2, <1>5, <1>6, <1>7, <1>10, <2>1 DEF ReaderInv, PlaceInv
<1> QED
  BY <1>8, <1>9, <1>10 DEF HeadRead

LEMMA LengthReadInv ==
    ASSUME ReaderInv, LengthRead
    PROVE  ReaderInv'
<1>1. /\ response \in Response /\ need = 0 /\ StreamInv
      /\ ~response.chunked /\ Taken = 1 /\ Assembled(0)
      /\ need + Len(buf) = response.length
  BY DEF ReaderInv, PlaceInv, AtLength, LengthRead, Complete
<1>2. /\ response' = response /\ incoming' = incoming /\ need' = need
      /\ body' = body \o SubSeq(buf, 1, response.length)
      /\ buf' = SubSeq(buf, response.length + 1, Len(buf))
      /\ reading' = "done"
  BY DEF LengthRead
<1>3. Len(buf) \in Nat /\ response.length \in Nat /\ Len(response.content) \in Nat
  BY <1>1, StreamTyped
<1>4. response.length \in 0..Len(buf)
  BY <1>1, <1>3
<1>5. StreamInv'
  BY <1>1, <1>2, <1>4, TakeOut
<1>6. /\ response.length = Len(response.content)
      /\ \A i \in 1..response.length : response.bytes[1 + i] = response.content[i]
  BY <1>1, PlainBytes
<1>7. Begins(body', response.content, 0 + response.length)
  <2>1. 0 + response.length <= Len(response.content)
    BY <1>3, <1>6
  <2>2. \A i \in 1..response.length :
           response.content[0 + i] = response.bytes[Taken + i]
    BY <1>1, <1>3, <1>6
  <2> QED
    BY <1>1, <1>2, <1>4, <2>1, <2>2, Extend
<1>8. Assembled(Len(response.content))'
  <2>1. 0 + response.length = Len(response.content)
    BY <1>3, <1>6
  <2> QED
    BY <1>2, <1>7, <2>1, Zenon DEF Assembled
<1>9. PlaceInv'
  BY <1>2, <1>3, <1>8 DEF PlaceInv
<1> QED
  BY <1>1, <1>2, <1>5, <1>9 DEF ReaderInv

\* The size line just read: its digit is the size of the chunk.
LEMMA SizeReadStep ==
    ASSUME ReaderInv, SizeRead,
           NEW k \in DOMAIN response.starts,
           Taken = response.starts[k] - 1
    PROVE  /\ StreamInv' /\ Taken' = response.starts[k] + 2
           /\ chunk_size' = Hex[response.bytes[response.starts[k]]]
<1> DEFINE r == response
           d == r.bytes[r.starts[k]]
<1>1. /\ response \in Response /\ StreamInv /\ r.chunked
      /\ LineEnds(buf) # {}
  BY DEF ReaderInv, PlaceInv, AtSize, SizeRead, Complete
<1>2. /\ response' = response /\ incoming' = incoming
      /\ buf' = SubSeq(buf, FirstLine(buf) + 2, Len(buf))
      /\ chunk_size' = ParseSize(SubSeq(buf, 1, FirstLine(buf) - 1))
  BY DEF SizeRead
<1>3. /\ r.starts[k] \in Int /\ d \in DOMAIN Hex
      /\ r.bytes[r.starts[k] + 1] = "CR" /\ r.bytes[r.starts[k] + 2] = "LF"
  BY <1>1, SizeLine
<1>4. /\ buf \in Seq(STRING) /\ Len(buf) \in Nat
      /\ \A i \in 1..Len(buf) : buf[i] = r.bytes[Taken + i]
  BY <1>1, StreamTyped DEF StreamInv
<1>5. Len(buf) >= 1
  BY <1>1, <1>4 DEF LineEnds
<1>6. /\ Taken + 1 = r.starts[k] /\ Taken + 2 = r.starts[k] + 1
      /\ Taken + 3 = r.starts[k] + 2
  BY <1>3
<1>7. buf[1] = d
  BY <1>4, <1>5, <1>6
<1>8. Len(buf) >= 3 => buf[2] = "CR" /\ buf[3] = "LF"
  <2> SUFFICES ASSUME Len(buf) >= 3 PROVE buf[2] = "CR" /\ buf[3] = "LF"
    OBVIOUS
  <2>1. 2 \in 1..Len(buf) /\ 3 \in 1..Len(buf)
    BY <1>4
  <2>2. buf[2] = r.bytes[Taken + 2] /\ buf[3] = r.bytes[Taken + 3]
    BY <1>4, <2>1
  <2> QED
    BY <1>3, <1>6, <2>2
<1>9. Len(buf) >= 3 /\ FirstLine(buf) = 2
  <2>1. buf[1] # "CR"
    BY <1>3, <1>7, HexValues
  <2> QED
    BY <1>1, <1>4, <1>8, <2>1, FirstLineIsTwo
<1>10. 3 \in 0..Len(buf) /\ 1 \in 0..Len(buf)
  BY <1>4, <1>9
<1>11. buf' = SubSeq(buf, 3 + 1, Len(buf))
  BY <1>2, <1>9
<1>12. StreamInv' /\ Taken' = Taken + 3
  BY <1>1, <1>2, <1>10, <1>11, TakeOut
<1>13. chunk_size' = Hex[d]
  <2> DEFINE line == SubSeq(buf, 1, 1)
  <2>1. line \in Seq(STRING) /\ Len(line) = 1 /\ line[1] = d
    BY <1>4, <1>7, <1>10, Kept
  <2>2. chunk_size' = ParseSize(line)
    BY <1>2, <1>9
  <2> HIDE DEF line, d
  <2> QED
    BY <1>3, <2>1, <2>2, ParseSizeDigit
<1>14. Taken + 3 = r.starts[k] + 2
  BY <1>6
<1> QED
  BY <1>12, <1>13, <1>14

LEMMA SizeReadInv ==
    ASSUME ReaderInv, SizeRead
    PROVE  ReaderInv'
<1> DEFINE r == response
<1>1. /\ response \in Response /\ need \in Nat /\ StreamInv /\ r.chunked
  BY DEF ReaderInv, PlaceInv, AtSize, SizeRead
<1>2. PICK k \in DOMAIN r.starts :
         Taken = r.starts[k] - 1 /\ Assembled(Before(r, k))
  BY DEF ReaderInv, PlaceInv, AtSize, SizeRead
<1>3. /\ response' = response /\ body' = body
      /\ IF chunk_size' = 0 THEN reading' = "last" /\ need' = need
                            ELSE reading' = "data" /\ need' = chunk_size' + 2
  BY DEF SizeRead
<1>4. /\ StreamInv' /\ Taken' = r.starts[k] + 2
      /\ chunk_size' = Hex[r.bytes[r.starts[k]]]
  BY <1>2, SizeReadStep
<1>5. Assembled(Before(r, k))'
  <2>1. Begins(body', response'.content, Before(r, k))
    BY <1>2, <1>3, SameBody
  <2> QED
    BY <1>3, <2>1, Zenon DEF Assembled, Before
<1>6. /\ k \in 1..Len(r.starts) /\ r.starts[k] \in Int
      /\ r.bytes[r.starts[k]] \in DOMAIN Hex
      /\ Before(r, k) \in 0..Len(r.content)
      /\ k = Len(r.starts) => LastChunkAt(r, k)
      /\ k # Len(r.starts) => ChunkAt(r, k)
      /\ Len(r.bytes) \in Nat /\ Len(r.content) \in Nat
  BY <1>1, SizeLine, Typed
<1>7. Len(r.starts) \in Nat
  BY <1>1, Typed DEF WellFormed
<1>8. \E n \in 0..Len(response'.content) : Assembled(n)'
  BY <1>3, <1>5, <1>6, Zenon
<1>9. CASE k = Len(r.starts)
  <2>1. LastChunkAt(r, k)
    BY <1>6, <1>9
  <2>2. chunk_size' = 0
    BY <1>4, <2>1, HexValues DEF LastChunkAt
  <2>3. r.starts[k] = Len(r.bytes) - 4 /\ Before(r, k) = Len(r.content)
    BY <2>1 DEF LastChunkAt
  <2>4. Taken' = Len(r.bytes) - 2
    BY <1>4, <1>6, <2>3
  <2>5. Assembled(Len(response.content))'
    BY <1>3, <1>5, <2>3, Zenon DEF Assembled, Begins
  <2>6. AtLast'
    BY <1>1, <1>3, <2>4, <2>5, Zenon DEF AtLast
  <2>7. reading' = "last" /\ need' = need
    BY <1>3, <2>2
  <2>8. PlaceInv'
    BY <1>8, <2>6, <2>7 DEF PlaceInv
  <2> QED
    BY <1>1, <1>3, <1>4, <2>7, <2>8 DEF ReaderInv
<1>10. CASE k # Len(r.starts)
  <2>1. ChunkAt(r, k)
    BY <1>6, <1>10
  <2>2. /\ chunk_size' = Size(r, k)
        /\ chunk_size' \in Nat /\ chunk_size' # 0
    BY <1>4, <2>1, HexValues DEF ChunkAt
  <2>3. k \in 1 .. Len(r.starts) - 1
    BY <1>6, <1>7, <1>10
  <2>4. reading' = "data" /\ need' = chunk_size' + 2
    BY <1>3, <2>2
  <2>5. Len(buf') \in Nat
    BY <1>4 DEF StreamInv
  <2>6. need' + Len(buf') >= chunk_size' + 2
    BY <2>2, <2>4, <2>5
  <2>7. AtData'
    BY <1>1, <1>3, <1>4, <1>5, <2>2, <2>3, <2>6, Zenon DEF AtData, Before
  <2>8. PlaceInv'
    BY <1>8, <2>4, <2>7 DEF PlaceInv
  <2> QED
    BY <1>1, <1>3, <1>4, <2>2, <2>4, <2>8 DEF ReaderInv
<1> QED
  BY <1>9, <1>10

LEMMA DataReadInv ==
    ASSUME ReaderInv, DataRead
    PROVE  ReaderInv'
<1> DEFINE r == response
<1>1. /\ response \in Response /\ need = 0 /\ StreamInv /\ r.chunked
      /\ need + Len(buf) >= chunk_size + 2
  BY DEF ReaderInv, PlaceInv, AtData, DataRead, Complete
<1>2. PICK k \in 1 .. Len(r.starts) - 1 :
         /\ Taken = r.starts[k] + 2 /\ Assembled(Before(r, k))
         /\ chunk_size = Size(r, k)
  BY DEF ReaderInv, PlaceInv, AtData, DataRead
<1>3. /\ response' = response /\ incoming' = incoming /\ need' = need
      /\ body' = body \o SubSeq(buf, 1, chunk_size)
      /\ buf' = SubSeq(buf, chunk_size + 3, Len(buf))
      /\ reading' = "size"
  BY DEF DataRead
<1>4. r.starts \in Seq(Nat) /\ Len(r.starts) \in Nat
  BY <1>1, Typed DEF WellFormed
<1>5. /\ k \in DOMAIN r.starts /\ k + 1 \in DOMAIN r.starts
      /\ k \in Nat /\ k # Len(r.starts)
  BY <1>4
<1>6. /\ ChunkAt(r, k) /\ r.starts[k] \in Int /\ Before(r, k) \in Int
      /\ Len(r.content) \in Nat
  BY <1>1, <1>5, SizeLine, Typed
<1>7. r.starts[k + 1] \in Int /\ Before(r, k + 1) \in 0..Len(r.content)
  BY <1>1, <1>5, SizeLine
<1>8. /\ chunk_size \in Nat
      /\ \A i \in 1..chunk_size :
            r.content[Before(r, k) + i] = r.bytes[r.starts[k] + 2 + i]
  BY <1>2, <1>6, HexValues DEF ChunkAt
<1>9. Len(buf) \in Nat
  BY <1>1, StreamTyped
<1>10. chunk_size \in 0..Len(buf) /\ chunk_size + 2 \in 0..Len(buf)
  BY <1>1, <1>8, <1>9
<1>11. /\ Before(r, k) + chunk_size = Before(r, k + 1)
       /\ Taken + (chunk_size + 2) = r.starts[k + 1] - 1
  <2> DEFINE p == r.starts[k]
             q == r.starts[k + 1]
  <2>1. /\ Before(r, k) = p - 5 * k + 3
        /\ Before(r, k + 1) = q - 5 * (k + 1) + 3
        /\ chunk_size = q - p - 5
    BY <1>2, Zenon DEF Before, Size
  <2>2. Taken = p + 2 /\ k \in Int /\ p \in Int /\ q \in Int
    BY <1>2, <1>5, <1>6, <1>7
  <2> HIDE DEF p, q
  <2>3. /\ Before(r, k) + chunk_size = Before(r, k + 1)
        /\ Taken + (chunk_size + 2) = q - 1
    BY <2>1, <2>2
  <2> QED
    BY <2>3 DEF q
<1>12. StreamInv' /\ Taken' = r.starts[k + 1] - 1
  <2>1. buf' = SubSeq(buf, (chunk_size + 2) + 1, Len(buf))
    BY <1>3, <1>8
  <2> QED
    BY <1>1, <1>3, <1>10, <1>11, <2>1, TakeOut
<1>13. Begins(body', response.content, Before(r, k) + chunk_size)
  <2>1. Before(r, k) + chunk_size <= Len(response.content)
    BY <1>7, <1>11
  <2>2. \A i \in 1..chunk_size :
           response.content[Before(r, k) + i] = response.bytes[Taken + i]
    BY <1>2, <1>8
  <2> QED
    BY <1>1, <1>2, <1>3, <1>10, <2>1, <2>2, Extend
<1>14. Assembled(Before(r, k + 1))'
  <2>1. Begins(body', response'.content, Before(r, k + 1))
    BY <1>3, <1>11, <1>13
  <2> QED
    BY <1>3, <2>1, Zenon DEF Assembled, Before
<1>15. AtSize'
  BY <1>1, <1>3, <1>5, <1>12, <1>14, Zenon DEF AtSize, Before
<1>16. PlaceInv'
  <2>1. Before(response', k + 1) \in 0..Len(response'.content)
    BY <1>3, <1>7
  <2> QED
    BY <1>3, <1>14, <1>15, <2>1 DEF PlaceInv
<1> QED
  BY <1>1, <1>3, <1>12, <1>16 DEF ReaderInv

LEMMA LastReadInv ==
    ASSUME ReaderInv, LastRead
    PROVE  ReaderInv'
<1>1. /\ response \in Response /\ need \in Nat /\ StreamInv
      /\ Assembled(Len(response.content))
  BY DEF ReaderInv, PlaceInv, AtLast, LastRead
<1>2. /\ response' = response /\ incoming' = incoming /\ buf' = buf
      /\ need' = need /\ body' = body /\ reading' = "done"
  BY DEF LastRead
<1>3. StreamInv'
  BY <1>1, <1>2 DEF StreamInv, Taken
<1>4. Assembled(Len(response.content))'
  BY <1>1, <1>2 DEF Assembled, Begins
<1>5. Len(response'.content) \in 0..Len(response'.content)
  BY <1>4 DEF Assembled, Begins
<1>6. PlaceInv'
  BY <1>2, <1>4, <1>5 DEF PlaceInv
<1> QED
  BY <1>1, <1>2, <1>3, <1>6 DEF ReaderInv

LEMMA ReaderInvCorrect == Spec => []ReaderInv
<1>1. ReaderInv /\ [Next]_vars => ReaderInv'
  <2> SUFFICES ASSUME ReaderInv, [Next]_vars PROVE ReaderInv'
    OBVIOUS
  <2>1. CASE UNCHANGED vars
    <3>1. /\ response' = response /\ incoming' = incoming /\ buf' = buf
          /\ need' = need /\ body' = body /\ reading' = reading
          /\ chunk_size' = chunk_size
      BY <2>1 DEF vars
    <3> QED
      BY <3>1 DEF ReaderInv, StreamInv, PlaceInv, Taken, Assembled, Begins, AtHead,
                  AtLength, AtSize, AtData, AtLast, Before, Size
  <2>2. CASE Receive
    BY <2>2, ReceiveInv
  <2>3. CASE Break
    BY <2>3, BreakInv
  <2>4. CASE Handler
    BY <2>4, HeadReadInv, LengthReadInv, SizeReadInv, DataReadInv, LastReadInv
       DEF Handler
  <2> QED
    BY <2>1, <2>2, <2>3, <2>4 DEF Next
<1> QED
  BY InitInv, <1>1, PTL DEF Spec

-----------------------------------------------------------------------------
(* The theorems.                                                           *)

\* However the bytes of a well-formed response arrive, and whatever they look
\* like, the body assembled by read_content_length_body and read_chunk is at
\* all times the beginning of the body the peer meant, and all of it when it is
\* handed to handle_response.
THEOREM BodyExactCorrect == Spec => []BodyExact
<1>1. ReaderInv => BodyExact
  <2> SUFFICES ASSUME ReaderInv PROVE BodyExact
    OBVIOUS
  <2>1. PICK n \in 0..Len(response.content) : Assembled(n)
    BY DEF ReaderInv, PlaceInv
  <2>2. /\ response.content \in Seq(STRING) /\ Len(response.content) \in Nat
    BY Typed DEF ReaderInv
  <2>3. /\ body \in Seq(STRING) /\ Len(body) = n
        /\ \A i \in 1..n : body[i] = response.content[i]
    BY <2>1 DEF Assembled, Begins
  <2>4. SubSeq(body, 1, n) = SubSeq(response.content, 1, n)
    <3>1. /\ SubSeq(response.content, 1, n) \in Seq(STRING)
          /\ Len(SubSeq(response.content, 1, n)) = n
          /\ \A i \in 1..n : SubSeq(response.content, 1, n)[i] = response.content[i]
      BY <2>2, Kept
    <3>2. /\ SubSeq(body, 1, n) \in Seq(STRING)
          /\ Len(SubSeq(body, 1, n)) = n
          /\ \A i \in 1..n : SubSeq(body, 1, n)[i] = body[i]
      BY <2>3, Kept
    <3> QED
      BY <2>3, <3>1, <3>2, SeqEqual
  <2>5. IsPrefix(body, response.content)
    BY <2>2, <2>3, <2>4 DEF IsPrefix
  <2>6. ASSUME reading = "done" PROVE body = response.content
    <3>1. Assembled(Len(response.content))
      BY <2>6 DEF ReaderInv, PlaceInv
    <3>2. /\ body \in Seq(STRING) /\ Len(body) = Len(response.content)
          /\ \A i \in 1..Len(body) : body[i] = response.content[i]
      BY <3>1 DEF Assembled, Begins
    <3> QED
      BY <2>2, <3>2, SeqEqual
  <2> QED
    BY <2>5, <2>6 DEF BodyExact
<1> QED
  BY <1>1, ReaderInvCorrect, PTL

\* Whatever the response and however it arrives, the only read that can wait
\* after its last byte is that of a chunk some bytes of which had come with the
\* size line: head, body of known length, size lines and the end are all read
\* from what arrives.
THEOREM NoneWaitsInVainCorrect == Spec => []NoneWaitsInVain
<1>1. ReaderInv => NoneWaitsInVain
  <2> SUFFICES ASSUME ReaderInv, Busy, incoming = <<>>
               PROVE  reading = "data" /\ ~Paced
    BY DEF NoneWaitsInVain
  <2> DEFINE r == response
  <2>1. /\ r \in Response /\ need \in Nat /\ StreamInv /\ PlaceInv
        /\ ~Complete /\ reading \in {"head", "length", "size", "data", "last"}
    BY DEF ReaderInv, Busy
  <2>2. /\ buf \in Seq(STRING) /\ Len(buf) \in Nat /\ Len(incoming) = 0
        /\ \A i \in 1..Len(buf) : buf[i] = r.bytes[Taken + i]
    BY <2>1, StreamTyped DEF StreamInv
  <2>3. /\ Len(r.bytes) = Taken + Len(buf) /\ Taken \in Int
        /\ Len(r.bytes) \in Nat /\ r.length \in Nat
    <3>1. Len(r.bytes) = Taken + Len(buf) + Len(incoming)
      BY <2>1, StreamTyped
    <3>2. Taken \in Int /\ Len(r.bytes) \in Nat /\ r.length \in Nat
      BY <2>1, StreamTyped
    <3> QED
      BY <2>2, <3>1, <3>2
  <2>4. reading # "head"
    <3> SUFFICES ASSUME reading = "head" PROVE Complete
      BY <2>1
    <3>1. Taken = 0 /\ Len(r.bytes) >= 1 /\ r.bytes[1] = "HEAD"
      BY <2>1, FirstByte DEF PlaceInv, AtHead
    <3>2. 1 \in 1..Len(buf)
      BY <2>2, <2>3, <3>1
    <3>3. buf[1] = "HEAD" /\ 1 \in DOMAIN buf
      BY <2>2, <3>1, <3>2
    <3> QED
      BY <3>3 DEF Complete, ToSet
  <2>5. reading # "length"
    <3> SUFFICES ASSUME reading = "length" PROVE need = 0
      BY <2>1 DEF Complete
    <3>1. /\ ~r.chunked /\ Taken = 1 /\ need + Len(buf) = r.length
      BY <2>1 DEF PlaceInv, AtLength
    <3>2. Len(r.bytes) = r.length + 1
      BY <2>1, <3>1, PlainBytes
    <3> QED
      BY <2>1, <2>2, <2>3, <3>1, <3>2
  <2>6. reading # "size"
    <3> SUFFICES ASSUME reading = "size" PROVE LineEnds(buf) # {}
      BY <2>1 DEF Complete
    <3>1. PICK k \in DOMAIN r.starts : r.chunked /\ Taken = r.starts[k] - 1
      BY <2>1 DEF PlaceInv, AtSize
    <3>2. /\ r.starts[k] \in 2 .. Len(r.bytes) - 4
          /\ r.bytes[r.starts[k] + 1] = "CR" /\ r.bytes[r.starts[k] + 2] = "LF"
      BY <2>1, <3>1, SizeLine
    <3>3. /\ Len(buf) >= 5 /\ Taken + 2 = r.starts[k] + 1
          /\ Taken + 3 = r.starts[k] + 2
      <4> DEFINE p == r.starts[k]
                 n == Len(r.bytes)
      <4>1. Taken = p - 1 /\ p \in 2 .. n - 4
        BY <3>1, <3>2
      <4>2. n = Taken + Len(buf) /\ n \in Nat /\ Len(buf) \in Nat
        BY <2>2, <2>3
      <4> HIDE DEF p, n
      <4>3. Len(buf) >= 5 /\ Taken + 2 = p + 1 /\ Taken + 3 = p + 2
        BY <4>1, <4>2
      <4> QED
        BY <4>3 DEF p
    <3>4. 2 \in 1..Len(buf) /\ 3 \in 1..Len(buf)
      BY <2>2, <3>3
    <3>5. buf[2] = "CR" /\ buf[3] = "LF"
      BY <2>2, <3>2, <3>3, <3>4
    <3>6. 2 \in LineEnds(buf)
      BY <2>2, <3>3, <3>5 DEF LineEnds
    <3> QED
      BY <3>6
  <2>7. reading # "last"
    <3> SUFFICES ASSUME reading = "last" PROVE LineEnds(buf) # {}
      BY <2>1 DEF Complete
    <3>1. r.chunked /\ Taken = Len(r.bytes) - 2
      BY <2>1 DEF PlaceInv, AtLast
    <3> DEFINE n == Len(r.starts)
    <3>2. /\ r.starts \in Seq(Nat) /\ r.starts # <<>>
      BY <2>1, <3>1, Typed DEF WellFormed
    <3>3. n \in DOMAIN r.starts
      BY <3>2
    <3>4. LastChunkAt(r, n)
      BY <2>1, <3>1, <3>3, SizeLine
    <3>5. /\ r.starts[n] = Len(r.bytes) - 4
          /\ r.bytes[r.starts[n] + 3] = "CR" /\ r.bytes[r.starts[n] + 3 + 1] = "LF"
      BY <3>4, Zenon DEF LastChunkAt, CrlfAt
    <3>6. /\ Len(buf) = 2 /\ Taken + 1 = r.starts[n] + 3
          /\ Taken + 2 = r.starts[n] + 3 + 1
      <4> DEFINE p == r.starts[n]
                 l == Len(r.bytes)
                 m == Len(buf)
      <4>1. Taken = l - 2 /\ p = l - 4
        BY <3>1, <3>5
      <4>2. l = Taken + m /\ l \in Nat /\ m \in Nat /\ Taken \in Int
        BY <2>2, <2>3
      <4> HIDE DEF p, l, m
      <4>3. m = 2
        BY <4>1, <4>2
      <4>4. Taken + 1 = p + 3
        BY <4>1, <4>2
      <4>5. Taken + 2 = p + 3 + 1
        BY <4>1, <4>2
      <4> QED
        BY <4>3, <4>4, <4>5 DEF p, m
    <3>7. buf[1] = "CR" /\ buf[2] = "LF"
      BY <2>2, <3>5, <3>6
    <3>8. 1 \in LineEnds(buf)
      BY <3>6, <3>7 DEF LineEnds
    <3> QED
      BY <3>8
  <2>8. ASSUME reading = "data" PROVE ~Paced
    <3> SUFFICES ASSUME Paced PROVE need = 0
      BY <2>1, <2>8 DEF Complete
    <3>1. PICK k \in 1 .. Len(r.starts) - 1 :
             /\ r.chunked /\ Taken = r.starts[k] + 2
             /\ chunk_size = Size(r, k)
      BY <2>1, <2>8 DEF PlaceInv, AtData
    <3>2. r.starts \in Seq(Nat) /\ Len(r.starts) \in Nat
      BY <2>1, <3>1, Typed DEF WellFormed
    <3>3. k \in DOMAIN r.starts /\ k + 1 \in DOMAIN r.starts
      BY <3>2
    <3>4. r.starts[k] \in Int
      BY <2>1, <3>1, <3>3, SizeLine
    <3>5. r.starts[k + 1] \in 2 .. Len(r.bytes) - 4
      BY <2>1, <3>1, <3>3, SizeLine
    <3>6. Len(buf) >= chunk_size + 2 /\ chunk_size \in Int
      <4> DEFINE p == r.starts[k]
                 q == r.starts[k + 1]
                 n == Len(r.bytes)
      <4>1. /\ Taken = p + 2 /\ p \in Int /\ q \in 2 .. n - 4
            /\ chunk_size = q - p - 5
        BY <3>1, <3>4, <3>5, Zenon DEF Size
      <4>2. n = Taken + Len(buf) /\ n \in Nat /\ Len(buf) \in Nat
        BY <2>2, <2>3
      <4> HIDE DEF p, q, n
      <4> QED
        BY <4>1, <4>2
    <3>7. Len(buf) + need = chunk_size + 2
      BY <2>8 DEF Paced
    <3> QED
      BY <2>1, <2>2, <3>6, <3>7
  <2> QED
    BY <2>1, <2>4, <2>5, <2>6, <2>7, <2>8
<1> QED
  BY <1>1, ReaderInvCorrect, PTL
=============================================================================
