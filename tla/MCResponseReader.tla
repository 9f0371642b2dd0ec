-------------------------- MODULE MCResponseReader --------------------------
(* A response without body, one of known length, an empty chunked one and   *)
(* chunked ones of one and two chunks, whose data may look like ends of      *)
(* lines and like sizes; they arrive in pieces of every length, ahead of or  *)
(* behind the reads.                                                        *)
EXTENDS ResponseReader

CRLF == <<"CR", "LF">>
Chunk(digit, data) == <<digit>> \o CRLF \o data \o CRLF
Chunked(chunks, starts, content) ==
    [chunked |-> TRUE, length |-> 0, content |-> content, starts |-> starts,
     bytes |-> <<"HEAD">> \o FlattenSeq(chunks) \o Chunk("0", <<>>)]
Plain(data) ==
    [chunked |-> FALSE, length |-> Len(data), content |-> data,
     starts |-> <<>>, bytes |-> <<"HEAD">> \o data]

MCResponse ==
    {Plain(<<>>), Plain(<<"x", "CR", "LF">>), Chunked(<<>>, <<2>>, <<>>),
     Chunked(<<Chunk("1", <<"x">>)>>, <<2, 8>>, <<"x">>),
     Chunked(<<Chunk("2", CRLF), Chunk("1", <<"3">>)>>, <<2, 9, 15>>,
             CRLF \o <<"3">>)}
=============================================================================
