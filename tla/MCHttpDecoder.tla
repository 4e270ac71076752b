--------------------------- MODULE MCHttpDecoder ---------------------------
(***************************************************************************)
(* Messages for HttpDecoder, with the sizes of chunks written in base 2.   *)
(***************************************************************************)
EXTENDS HttpDecoder

Part(role, bytes) == [bytes |-> bytes, role |-> [i \in 1..Len(bytes) |-> role]]

Join(parts) ==
  [bytes |-> FlattenSeq([i \in 1..Len(parts) |-> parts[i].bytes]),
   role |-> FlattenSeq([i \in 1..Len(parts) |-> parts[i].role])]

Header(fields) == Part("head", fields \o <<"end">>)

Size == << <<"1">>, <<"1", "0">>, <<"1", "1">>, <<"1", "0", "0">>,
           <<"1", "0", "1">> >>

Crlf == <<"cr", "lf">>

ChunkOf(bytes) ==
  Join(<<Part("line", Size[Len(bytes)] \o Crlf), Part("data", bytes),
         Part("crlf", Crlf)>>)

LastOne == Join(<<Part("line", <<"0">> \o Crlf), Part("crlf", Crlf)>>)

\* Two chunks of text, one of which looks like a size.
Chunked ==
  Join(<<Header(<<"te">>), ChunkOf(<<"d", "d", "d">>), ChunkOf(<<"1">>), LastOne>>)

\* A size line with an extension.
Extended ==
  Join(<<Header(<<"te">>), Part("line", <<"1">>), Part("ext", <<"x">>),
         Part("line", Crlf), Part("data", <<"d">>), Part("crlf", Crlf), LastOne>>)

Body == <<"m", "n", "z", "z", "z">>

Gzipped == Join(<<Header(<<"gz">>), Part("data", Body)>>)

Zlib == Join(<<Header(<<"df">>), Part("data", Body)>>)

GzippedChunk == Join(<<Header(<<"te", "gz">>), ChunkOf(Body), LastOne>>)

GzippedChunks ==
  Join(<<Header(<<"te", "gz">>), ChunkOf(SubSeq(Body, 1, 2)),
         ChunkOf(SubSeq(Body, 3, 5)), LastOne>>)

AllMessages ==
  {Chunked, Extended, Gzipped, Zlib, GzippedChunk, GzippedChunks}

TextMessage == {Chunked}

\* Nothing, a digit, a header's field or end, a new line and a digit.
SomeBehind == {<<>>, <<"1">>, <<"te">>, <<"end">>, <<"lf", "1">>}

Nothing == {<<>>}

BinaryDigits == <<"0", "1">>
=============================================================================
