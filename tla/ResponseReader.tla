--------------------------- MODULE ResponseReader ---------------------------
(***************************************************************************)
(* The HTTP response reader of chunk.cpp: do_read, the two ways of reading *)
(* a body, and the asynchronous operations they are made of.  The peer     *)
(* sends a well-formed response; the network hands over any number of its  *)
(* bytes at a time, so an operation may find bytes of later parts in the   *)
(* buffer already.                                                         *)
(*                                                                         *)
(* A byte is a string: "CR", "LF", a hexadecimal digit, or other data; the *)
(* response head, whose lines are only searched, is the one byte "HEAD".   *)
(***************************************************************************)
EXTENDS Integers, Sequences, SequencesExt

CONSTANTS
    Response    \* what the peer may send: records with fields chunked (is
                \* the encoding chunked), length (Content-Length, 0 if
                \* absent), bytes (all of it), content (the body meant) and
                \* starts (where its size lines start, if it is chunked)

VARIABLES
    response,   \* the response of this run
    keepAlive,  \* the peer leaves the connection open after it
    incoming,   \* the bytes not yet read from the socket
    buf,        \* the stream buffer
    reading,    \* what the operation in progress reads, or how it ended
    need,       \* the bytes it still has to transfer, if it counts them
    chunk_size, \* the size of the chunk being read
    body,       \* the body assembled
    failed      \* history: an operation has failed before the response's end

vars == <<response, keepAlive, incoming, buf, reading, need, chunk_size, body,
          failed>>

\* The values of the digits of a size line, which has one.
Hex == [d \in {"0", "1", "2", "3", "4", "5", "6", "7",
               "8", "9", "a", "b", "c", "d", "e", "f"} |->
            CASE d = "0" -> 0 [] d = "1" -> 1 [] d = "2" -> 2 [] d = "3" -> 3
              [] d = "4" -> 4 [] d = "5" -> 5 [] d = "6" -> 6 [] d = "7" -> 7
              [] d = "8" -> 8 [] d = "9" -> 9 [] d = "a" -> 10 [] d = "b" -> 11
              [] d = "c" -> 12 [] d = "d" -> 13 [] d = "e" -> 14 [] d = "f" -> 15]

\* `ss >> chunk_size': 0 when there is no digit.
ParseSize(line) ==
    IF line # <<>> /\ Head(line) \in DOMAIN Hex THEN Hex[Head(line)] ELSE 0

\* The size of the k-th chunk, which 5 bytes of its size line and end of line
\* surround, and how many bytes of the content come before it.
Size(r, k) == r.starts[k + 1] - r.starts[k] - 5
Before(r, k) == r.starts[k] - 5 * k + 3

CrlfAt(r, i) == r.bytes[i] = "CR" /\ r.bytes[i + 1] = "LF"

\* The k-th size line is that of a chunk, or of the last chunk.
ChunkAt(r, k) ==
    LET at == r.starts[k] IN
        /\ r.bytes[at] \in DOMAIN Hex \ {"0"}
        /\ Hex[r.bytes[at]] = Size(r, k)
        /\ CrlfAt(r, at + 3 + Size(r, k))
        /\ \A i \in 1..Size(r, k) : r.content[Before(r, k) + i] = r.bytes[at + 2 + i]

LastChunkAt(r, k) ==
    /\ r.starts[k] = Len(r.bytes) - 4
    /\ r.bytes[r.starts[k]] = "0"
    /\ CrlfAt(r, r.starts[k] + 3)
    /\ Before(r, k) = Len(r.content)

WellFormed(r) ==
    /\ r.length \in Nat
    /\ r.bytes \in Seq(STRING) /\ r.content \in Seq(STRING)
    /\ r.bytes # <<>> /\ r.bytes[1] = "HEAD"
    /\ \/ /\ ~r.chunked
          /\ r.length = Len(r.content) /\ r.content = Tail(r.bytes)
       \/ /\ r.chunked
          /\ r.starts \in Seq(Nat) /\ r.starts # <<>> /\ r.starts[1] = 2
          /\ \A k \in DOMAIN r.starts :
                /\ r.starts[k] \in 2 .. Len(r.bytes) - 4
                /\ CrlfAt(r, r.starts[k] + 1)
                /\ Before(r, k) \in 0..Len(r.content)
                /\ IF k = Len(r.starts) THEN LastChunkAt(r, k) ELSE ChunkAt(r, k)

ASSUME ResponseAssumption == \A r \in Response : WellFormed(r)

\* The positions at which a line ends in s.
LineEnds(s) == {i \in 1..(Len(s) - 1) : s[i] = "CR" /\ s[i + 1] = "LF"}

FirstLine(s) == CHOOSE i \in LineEnds(s) : \A j \in LineEnds(s) : i <= j

Init ==
    /\ response \in Response
    /\ keepAlive \in BOOLEAN
    /\ incoming = response.bytes
    /\ buf = <<>>
    /\ reading = "head"
    /\ need = 0
    /\ chunk_size = 0
    /\ body = <<>>
    /\ failed = FALSE

-----------------------------------------------------------------------------
(* The operations: async_read_until, and async_read with transfer_exactly. *)

\* The operation in progress has what it waits for.
Complete ==
    CASE reading = "head"               -> "HEAD" \in ToSet(buf)
      [] reading \in {"size", "last"}   -> LineEnds(buf) # {}
      [] reading \in {"length", "data"} -> need = 0
      [] OTHER                          -> FALSE

Counting == reading \in {"length", "data"}
Busy == reading \notin {"done", "error"} /\ ~Complete

\* Some bytes arrive; an operation that counts reads no more than it needs.
Receive ==
    /\ Busy
    /\ \E k \in 1..Len(incoming) :
          /\ Counting => k <= need
          /\ buf' = buf \o SubSeq(incoming, 1, k)
          /\ incoming' = SubSeq(incoming, k + 1, Len(incoming))
          /\ need' = IF Counting THEN need - k ELSE need
    /\ UNCHANGED <<response, keepAlive, reading, chunk_size, body, failed>>

\* The peer has closed the connection behind the response, or it breaks: each
\* handler prints the error and returns.
Break ==
    /\ Busy
    /\ \/ incoming = <<>> /\ ~keepAlive /\ UNCHANGED failed
       \/ incoming # <<>> /\ failed' = TRUE
    /\ reading' = "error"
    /\ UNCHANGED <<response, keepAlive, incoming, buf, need, chunk_size, body>>

-----------------------------------------------------------------------------
(* The handlers.                                                           *)

\* Mutant: the bytes in the buffer are counted again.
AlreadyRead_Ignored(b) == 0

\* read_content_length_body on the buffer b: what is there counts.
AlreadyRead(b) == IF Len(b) < response.length THEN Len(b) ELSE response.length

\* The head is taken out of the buffer, and the way to read the body chosen.
HeadRead ==
    /\ reading = "head" /\ Complete
    /\ buf' = Tail(buf)
    /\ \/ /\ response.chunked
          /\ reading' = "size"
          /\ UNCHANGED need
       \/ /\ ~response.chunked /\ response.length > 0
          /\ reading' = "length"
          /\ need' = response.length - AlreadyRead(buf')
       \/ /\ ~response.chunked /\ response.length = 0
          /\ reading' = "done"
          /\ UNCHANGED need
    /\ UNCHANGED <<response, keepAlive, incoming, chunk_size, body, failed>>

LengthRead ==
    /\ reading = "length" /\ Complete
    /\ body' = body \o SubSeq(buf, 1, response.length)
    /\ buf' = SubSeq(buf, response.length + 1, Len(buf))
    /\ reading' = "done"
    /\ UNCHANGED <<response, keepAlive, incoming, need, chunk_size, failed>>

\* The size line of a chunk: the last chunk has size 0.  The chunk and its end
\* of line are then read from the socket, whatever the buffer holds of them.
SizeRead ==
    /\ reading = "size" /\ Complete
    /\ LET i == FirstLine(buf) IN
          /\ chunk_size' = ParseSize(SubSeq(buf, 1, i - 1))
          /\ buf' = SubSeq(buf, i + 2, Len(buf))
    /\ IF chunk_size' = 0
       THEN reading' = "last" /\ UNCHANGED need
       ELSE reading' = "data" /\ need' = chunk_size' + 2
    /\ UNCHANGED <<response, keepAlive, incoming, body, failed>>

\* Mutant: the end of line of the chunk stays in the buffer.
DataRead_KeepsCrlf ==
    /\ reading = "data" /\ Complete
    /\ body' = body \o SubSeq(buf, 1, chunk_size)
    /\ buf' = SubSeq(buf, chunk_size + 1, Len(buf))
    /\ reading' = "size"
    /\ UNCHANGED <<response, keepAlive, incoming, need, chunk_size, failed>>

DataRead ==
    /\ reading = "data" /\ Complete
    /\ body' = body \o SubSeq(buf, 1, chunk_size)
    /\ buf' = SubSeq(buf, chunk_size + 3, Len(buf))
    /\ reading' = "size"
    /\ UNCHANGED <<response, keepAlive, incoming, need, chunk_size, failed>>

\* The end of line behind the last chunk, which stays in the buffer.
LastRead ==
    /\ reading = "last" /\ Complete
    /\ reading' = "done"
    /\ UNCHANGED <<response, keepAlive, incoming, buf, need, chunk_size, body,
                   failed>>

Handler == HeadRead \/ LengthRead \/ SizeRead \/ DataRead \/ LastRead

Next == Receive \/ Break \/ Handler

Spec == Init /\ [][Next]_vars

\* The io_context runs the handlers, and the response arrives, or the
\* connection breaks.
FairSpec == Spec /\ WF_vars(Receive) /\ WF_vars(Handler)

-----------------------------------------------------------------------------
(* Properties.                                                             *)

\* However the bytes arrive, what handle_response gets is the body the peer
\* meant, and what has been assembled before is the beginning of it.
BodyExact ==
    /\ IsPrefix(body, response.content)
    /\ reading = "done" => body = response.content

\* No byte of the chunk was in the buffer when its read started.
Paced == reading = "data" => Len(buf) + need = chunk_size + 2

\* Once the whole response has arrived, only a chunk read that did not find its
\* buffer empty still waits: every other read asks for bytes the peer sends.
NoneWaitsInVain ==
    Busy /\ incoming = <<>> => reading = "data" /\ ~Paced

\* A response that arrives is handed to handle_response, as long as no size
\* line brings bytes of its chunk along with it; bodies of known length are
\* free of that condition.
CompletesWhenPaced == [](Paced /\ ~failed) => <>(reading = "done")

\* read_chunk reads the content of the chunk and its end of line, no more, so
\* that a chunked response that arrives is handed over.
ChunkedCompletes == []~failed => <>(reading = "done")
=============================================================================
