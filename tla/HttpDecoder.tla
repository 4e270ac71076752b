---------------------------- MODULE HttpDecoder ----------------------------
(***************************************************************************)
(* HttpDecoder::Proc (http_decoder.cpp) and Gzip (gzip.cpp): the packets   *)
(* of one stream that carries an HTTP message are freed of the framing of  *)
(* "Transfer-Encoding: chunked" and unpacked.  Packets cut the message     *)
(* anywhere, and strtol and strstr read on behind a packet.                *)
(*                                                                         *)
(* A message is a sequence of bytes, each with the role it has for its     *)
(* sender.  "te", "gz" and "df" stand for the header fields that are       *)
(* searched for, "end" for the CR LF CR LF that ends a header; "m" and "n" *)
(* for the two parts of a gzip or zlib header, "z" for deflated data of    *)
(* which each byte unpacks to one byte.                                    *)
(***************************************************************************)
EXTENDS Integers, Sequences, FiniteSets, SequencesExt

CONSTANTS
  Messages,  \* records [bytes, role] of two sequences of one length
  Digits,    \* sequence of the digits of a chunk size; 16 in the code
  Behind     \* what may follow a packet in its block of memory

ASSUME MessagesAssumption ==
  \A m \in Messages :
    /\ m.bytes \in Seq(STRING) /\ m.bytes # <<>>
    /\ m.role \in Seq(STRING) /\ Len(m.role) = Len(m.bytes)
ASSUME MemoryAssumption ==
  /\ Digits \in Seq(STRING) /\ ToSet(Digits) \cap {"nul", "cr", "lf"} = {}
  /\ Behind \subseteq Seq(STRING)

VARIABLES
  message,  \* what the peer sends, and whether the port is 80 or 8080
  sent,     \* bytes of it that are in this and earlier packets
  stream,   \* the Stream's fields
  packet,   \* the Packet's fields; l7 holds positions in the message
  behind,
  pc,       \* where Proc is: "idle", "chunk" (the loop of DecodeChunk), "gzip"
  p,        \* p_content_work - content
  l7_size,  \* the local l7_content_size; p_l7_content_work - l7_content
  fed,      \* positions inflate has unpacked
  wild,     \* inflate was given a negative size: anything may happen
  past      \* what the cuts of the message were like so far

vars == <<message, sent, stream, packet, behind, pc, p, l7_size, fed, wild,
          past>>

Space == {"cr", "lf"}
Marks == {"te", "gz", "df", "end"}  \* what strstr searches for

NewStream ==
  [state |-> "NEW", http_header_size |-> 0, http_chunked |-> FALSE,
   http_compress |-> "NONE", chunk_offset |-> 0, l7_error |-> FALSE,
   gzip_only_http_header |-> 0, gzip_z |-> "NULL"]

NoPacket == [size |-> 0, l7 |-> <<>>, l7_content_size |-> 0, own |-> FALSE]

Init ==
  /\ \E m \in Messages, web \in BOOLEAN :
       message = [bytes |-> m.bytes, role |-> m.role, web |-> web]
  /\ sent = 0
  /\ stream = NewStream
  /\ packet = NoPacket
  /\ behind = <<>>
  /\ pc = "idle"
  /\ p = 0 /\ l7_size = 0
  /\ fed = <<>>
  /\ wild = FALSE
  /\ past = [aligned |-> TRUE, tight |-> TRUE]

-----------------------------------------------------------------------------
(* Reading a packet of n bytes that begins behind the first "from" bytes.  *)

Byte(from, n, mem, i) ==
  IF i < n THEN message.bytes[from + i + 1]
  ELSE IF i - n < Len(mem) THEN mem[i - n + 1] ELSE "nul"

\* What strstr finds: the first place of byte b, or the end of the memory.
Find(from, n, mem, b) ==
  LET all == {i \in 0..(n + Len(mem) - 1) : Byte(from, n, mem, i) = b}
  IN IF all = {} THEN n + Len(mem) ELSE Min(all)

Has(from, n, mem, b) == Find(from, n, mem, b) < n + Len(mem)

\* The current packet.
Content(i) == Byte(sent - packet.size, packet.size, behind, i)

\* The first place from i on with a byte that is not in S.
After(i, S) ==
  Min({j \in i..(Max({i, packet.size + Len(behind)})) : Content(j) \notin S})

DigitValue(b) == CHOOSE v \in 0..(Len(Digits) - 1) : Digits[v + 1] = b

\* strtol at i: the value and where it stops, which is i itself if there is
\* no digit behind the white space.
Strtol(i) ==
  LET first == After(i, Space)
      last == After(first, ToSet(Digits))
      value[k \in first..last] ==
        IF k = first THEN 0
        ELSE value[k - 1] * Len(Digits) + DigitValue(Content(k - 1))
  IN [value |-> value[last], nonnum |-> IF last = first THEN i ELSE last]

-----------------------------------------------------------------------------
(* Proc and AnalyzeHeader. *)

\* The stream after AnalyzeHeader of its first packet.  A header that the
\* packet holds in part is not found, and nobody looks for it again.
AnalyzeHeader(s, n, mem) ==
  LET size == Find(0, n, mem, "end") + 1
      compress == IF Has(0, n, mem, "gz") THEN "GZIP"
                  ELSE IF Has(0, n, mem, "df") THEN "DEFLATE" ELSE "NONE"
  IN IF ~message.web \/ ~Has(0, n, mem, "end") THEN s
     ELSE [s EXCEPT !.http_header_size = size,
                    !.gzip_only_http_header = IF size = n THEN 1 ELSE 0,
                    !.http_chunked = Has(0, n, mem, "te"),
                    !.http_compress = compress]

InLine(k) == message.role[k] = "line" /\ message.role[k + 1] = "line"
InData(k) == message.role[k] = "data" /\ message.role[k + 1] = "data"

\* A packet may end behind byte k without harm to chunk_offset_: it does not
\* cut the header or a line with a chunk's size, sizes have no extension, and
\* what strtol and strstr find behind the packet is no digit and no header.
Aligned(k, mem) ==
  /\ ToSet(mem) \cap (ToSet(Digits) \cup Marks) = {}
  /\ "ext" \notin ToSet(message.role)
  /\ message.role[k] = "head" => message.bytes[k] = "end"
  /\ k = Len(message.bytes) \/ ~InLine(k)

\* The same for l7_content_size_ and inflate: the packet ends inside a chunk
\* or right behind the header, and does not cut the header of gzip.
Tight(k) ==
  \/ k = Len(message.bytes)
  \/ message.bytes[k] = "end"
  \/ InData(k) /\ message.bytes[k] # "m"

\* A packet of the stream arrives with n more bytes of the message.  The
\* stream's state is what StreamRebuild has made it: BEGIN for its first
\* packet, END for one with FIN.
Receive(n, fin, mem) ==
  LET s == [stream EXCEPT !.state =
              IF fin THEN "END" ELSE IF @ = "NEW" THEN "BEGIN" ELSE "CONTINUE"]
  IN /\ pc = "idle" /\ ~wild
     /\ stream.state # "END"
     /\ n > 0 \/ fin \/ stream.state = "NEW"
     /\ sent + n <= Len(message.bytes)
     /\ sent' = sent + n
     /\ stream' = IF s.state = "BEGIN" THEN AnalyzeHeader(s, n, mem) ELSE s
     /\ behind' = mem
     /\ packet' = [size |-> n, l7 |-> [i \in 1..n |-> sent + i],
                   l7_content_size |-> n, own |-> FALSE]
     /\ pc' = "start"
     /\ past' = [aligned |-> past.aligned /\ n > 0 /\ Aligned(sent + n, mem),
                 tight |-> past.tight /\ n > 0 /\ Tight(sent + n)]
     /\ UNCHANGED <<message, p, l7_size, fed, wild>>

\* DecodeChunk is not called, or returns because the stream has ended; by
\* then the packet has a copy of its content as l7_content_.
SkipChunk ==
  /\ pc = "start"
  /\ ~stream.http_chunked \/ stream.state = "END"
  /\ packet' = [packet EXCEPT !.own = stream.http_chunked]
  /\ pc' = "gzip"
  /\ UNCHANGED <<message, sent, stream, behind, p, l7_size, fed, wild, past>>

-----------------------------------------------------------------------------
(* DecodeChunk. *)

Dechunking == pc = "start" /\ stream.http_chunked /\ stream.state # "END"

\* DecodeChunk ends; the chunk offset is left as given.
ChunkDone(offset) ==
  /\ stream' = [stream EXCEPT !.chunk_offset = offset]
  /\ pc' = "gzip"
  /\ p' = 0 /\ l7_size' = 0
  /\ UNCHANGED <<message, sent, behind, fed, wild, past>>

\* The whole packet is part of a large chunk.
LargeChunk ==
  /\ Dechunking
  /\ stream.state = "CONTINUE"
  /\ packet.size < stream.chunk_offset
  /\ packet' = [packet EXCEPT !.own = TRUE]
  /\ ChunkDone(stream.chunk_offset - packet.size)

\* What comes before the first size line in the packet, the header or the
\* rest of a chunk, stays where it is.
DecodeFrom(s) ==
  IF s.state = "BEGIN" THEN s.http_header_size ELSE s.chunk_offset

EnterLoop ==
  /\ Dechunking
  /\ stream.state = "BEGIN" \/ packet.size >= stream.chunk_offset
  /\ packet' = [packet EXCEPT !.own = TRUE]
  /\ p' = DecodeFrom(stream)
  /\ l7_size' = DecodeFrom(stream)
  /\ pc' = "chunk"
  /\ UNCHANGED <<message, sent, stream, behind, fed, wild, past>>

\* Where the loop takes the data to begin.  If the line does not end behind
\* the digits, strstr searches for "" (the literal is moved past its own CR LF)
\* and finds it at once.
AfterLine(nonnum) ==
  IF Content(nonnum) = "cr" /\ Content(nonnum + 1) = "lf" THEN nonnum + 2
  ELSE nonnum

\* memcpy of k bytes from content + from to l7_content + l7_size.
Copied(from, k) ==
  [i \in 1..Len(packet.l7) |->
     IF i \in (l7_size + 1)..(l7_size + k)
     THEN (sent - packet.size) + from + (i - l7_size)
     ELSE packet.l7[i]]

Line == Strtol(p)

InLoop == pc = "chunk" /\ Line.nonnum + 2 < packet.size

\* The packet ends with the size line, or before its end.  The size of the
\* decoded content is not set.
LineAtEnd ==
  /\ pc = "chunk"
  /\ Line.nonnum + 2 >= packet.size
  /\ UNCHANGED packet
  /\ ChunkDone(Line.value)

LastChunk ==
  /\ InLoop
  /\ Line.value = 0
  /\ packet' = [packet EXCEPT !.l7_content_size = l7_size]
  /\ ChunkDone(0)

\* Slips: the offset is what the packet has of the chunk; it is negative.
RestSaved(size, saved) == saved

RestSwapped(size, saved) == saved - size

\* offset_size.
Rest(size, saved) == size - saved

\* Slip: what the packet has in front of the chunk counts to it.
SavedWhole(from) == packet.size

\* save_size.
Saved(from) == packet.size - from

\* The chunk goes on in the next packet.
CutChunk ==
  LET from == AfterLine(Line.nonnum)
      saved == Saved(from)
  IN /\ InLoop
     /\ Line.value > 0
     /\ from + Line.value > packet.size
     /\ packet' = [packet EXCEPT !.l7 = Copied(from, saved),
                                 !.l7_content_size = l7_size + saved]
     /\ ChunkDone(Rest(Line.value, saved))

\* A whole chunk; the next line is behind its CR LF.
WholeChunk ==
  LET from == AfterLine(Line.nonnum)
  IN /\ InLoop
     /\ Line.value > 0
     /\ from + Line.value <= packet.size
     /\ packet' = [packet EXCEPT !.l7 = Copied(from, Line.value)]
     /\ l7_size' = l7_size + Line.value
     /\ p' = from + Line.value + 2
     /\ UNCHANGED <<message, sent, stream, behind, pc, fed, wild, past>>

-----------------------------------------------------------------------------
(* DecodeGzip. *)

\* The positions from a + 1 to b that are in P, in their order.
Select(P, a, b) ==
  LET upTo[i \in a..b] == IF i = a THEN <<>>
                          ELSE IF i \in P THEN Append(upTo[i - 1], i)
                          ELSE upTo[i - 1]
  IN upTo[b]

\* Where the deflated bytes are in the message.
Zs == {i \in 1..Len(message.bytes) : message.bytes[i] = "z"}
Deflated == Select(Zs, 0, Len(message.bytes))

\* inflate of the positions "in": what it unpacks.  Behind the end of the
\* data it unpacks nothing; a byte out of place is an error for good.
Unpacked(in) ==
  SubSeq(in, 1, Min({Len(in), Len(Deflated) - Len(fed)}))

Fits(in) ==
  Unpacked(in) = SubSeq(Deflated, Len(fed) + 1, Len(fed) + Len(Unpacked(in)))

\* Bytes that precede the deflated data, at the front of "in": dec_gzip looks
\* at the first and goes over the others without regard to the length of
\* "in"; dec_zlib always takes 2.  -1 is an error.
HeaderSizes(in) ==
  CASE stream.http_compress = "DEFLATE" -> {2}
    [] in = <<>>                        -> {-1, 2}
    [] message.bytes[in[1]] = "m"       -> {2}
    [] OTHER                            -> {-1}

\* What DecodeGzip reads: the copy if there is one, else the content.
Input ==
  SubSeq(packet.l7, 1,
         IF packet.own THEN packet.l7_content_size ELSE packet.size)

GzipDone(s) ==
  /\ stream' = s
  /\ pc' = "idle"
  /\ behind' = <<>>
  /\ UNCHANGED <<message, sent, p, l7_size, past>>

SkipGzip ==
  /\ pc = "gzip"
  /\ stream.http_compress = "NONE" \/ stream.l7_error
  /\ UNCHANGED <<packet, fed, wild>>
  /\ GzipDone(stream)

Unpacking == pc = "gzip" /\ stream.http_compress # "NONE" /\ ~stream.l7_error

\* Slip: the packets are not counted.
CountedNot(s) == s

\* IncGzipOnlyHttpHeader, which goes on to count; nothing asks for more than 2.
Counted(s) == [s EXCEPT !.gzip_only_http_header = IF @ \in 1..2 THEN @ + 1 ELSE @]

\* The first packet was the header alone: inflate is set up for the second.
GzipHttpHeader ==
  /\ Unpacking
  /\ stream.gzip_only_http_header = 1
  /\ UNCHANGED <<packet, fed, wild>>
  /\ GzipDone(Counted([stream EXCEPT !.gzip_z = "ok"]))

\* dec_deflate of "in", and the packet's new content: the bytes in front that
\* are kept, and what is unpacked.  Nothing is replaced if nothing is.
Inflate(s, in, keep) ==
  IF s.gzip_z = "ok" /\ Fits(in)
  THEN /\ fed' = fed \o Unpacked(in)
       /\ packet' = IF Unpacked(in) = <<>> THEN packet
                    ELSE [packet EXCEPT !.l7 = keep \o Unpacked(in), !.own = TRUE,
                            !.l7_content_size = Len(keep) + Len(Unpacked(in))]
       /\ GzipDone(s)
       /\ UNCHANGED wild
  ELSE /\ UNCHANGED <<fed, packet, wild>>
       /\ GzipDone([s EXCEPT !.gzip_z = "bad"])

\* The size that is left is negative, and unsigned for inflate.
InflateWild(s) ==
  /\ wild' = TRUE
  /\ UNCHANGED <<fed, packet>>
  /\ GzipDone([s EXCEPT !.gzip_z = "bad"])

InflateFrom(s, in, offset, keep) ==
  IF offset > Len(in) THEN InflateWild(s)
  ELSE Inflate(s, SubSeq(in, offset + 1, Len(in)), keep)

\* The first packet of the message, with more than its header.
GzipBegin ==
  LET z == [stream EXCEPT !.gzip_z = "ok"]
      size == stream.http_header_size
      in == SubSeq(Input, size + 1, Len(Input))
  IN /\ Unpacking
     /\ stream.gzip_only_http_header = 0 /\ stream.state = "BEGIN"
     /\ \E offset \in HeaderSizes(in) :
          IF offset = -1
          THEN /\ UNCHANGED <<packet, fed, wild>>
               /\ GzipDone([z EXCEPT !.l7_error = TRUE])
          ELSE InflateFrom(z, in, offset, SubSeq(Input, 1, size))

\* The second packet if the first was the header alone.  An error of dec_gzip
\* makes inflate begin one byte before the packet; of a zlib header nothing is
\* skipped.
GzipSecond ==
  LET s == Counted(stream)
  IN /\ Unpacking
     /\ stream.gzip_only_http_header = 2
     /\ \E offset \in IF stream.http_compress = "GZIP" THEN HeaderSizes(Input)
                      ELSE {0} :
          IF offset = -1
          THEN /\ UNCHANGED <<packet, fed, wild>>
               /\ GzipDone([s EXCEPT !.gzip_z = "bad"])
          ELSE InflateFrom(s, Input, offset, <<>>)

\* Any later packet.
GzipContinue ==
  /\ Unpacking
  /\ \/ stream.gzip_only_http_header = 3
     \/ stream.gzip_only_http_header = 0 /\ stream.state # "BEGIN"
  /\ Inflate(stream, Input, <<>>)

-----------------------------------------------------------------------------
\* ~Stream, and the next stream.
NextStream ==
  /\ pc = "idle" /\ ~wild
  /\ \E m \in Messages, web \in BOOLEAN :
       message' = [bytes |-> m.bytes, role |-> m.role, web |-> web]
  /\ sent' = 0 /\ stream' = NewStream /\ packet' = NoPacket /\ fed' = <<>>
  /\ past' = [aligned |-> TRUE, tight |-> TRUE]
  /\ UNCHANGED <<behind, pc, p, l7_size, wild>>

Chunk == LargeChunk \/ EnterLoop \/ LineAtEnd \/ LastChunk \/ CutChunk \/ WholeChunk

Gzip == SkipGzip \/ GzipHttpHeader \/ GzipBegin \/ GzipSecond \/ GzipContinue

Next ==
  \/ \E n \in 0..Len(message.bytes), fin \in BOOLEAN, mem \in Behind :
       Receive(n, fin, mem)
  \/ SkipChunk
  \/ Chunk
  \/ Gzip
  \/ NextStream

Spec == Init /\ [][Next]_vars

-----------------------------------------------------------------------------
(* What a peer sends: the header, and behind its h bytes a body.  The bytes *)
(* that are searched for stand in the header.                              *)

HasHeader(m, h) ==
  \A k \in 1..Len(m.bytes) :
    /\ m.role[k] = "head" <=> k <= h
    /\ m.bytes[k] = "end" <=> k = h
    /\ m.bytes[k] \in Marks => k <= h

\* The number that the bytes from i + 1 to j stand for.
Number(m, i, j) ==
  LET upTo[k \in i..j] ==
        IF k = i THEN 0
        ELSE upTo[k - 1] * Len(Digits) + DigitValue(m.bytes[k])
  IN upTo[j]

\* The bytes from i + 1 to j are the line of a chunk of n bytes.
IsLine(m, i, j, n) ==
  /\ i + 3 <= j
  /\ \A k \in (i + 1)..j : m.role[k] = "line"
  /\ \A k \in (i + 1)..(j - 2) : m.bytes[k] \in ToSet(Digits)
  /\ m.bytes[j - 1] = "cr" /\ m.bytes[j] = "lf"
  /\ Number(m, i, j - 2) = n

\* Those from i + 1 to k are a chunk, whose line ends with byte j.
IsChunk(m, i, j, k) ==
  /\ j + 2 <= k
  /\ IsLine(m, i, j, k - 2 - j)
  /\ \A l \in (j + 1)..(k - 2) : m.role[l] = "data"
  /\ m.role[k - 1] = "crlf" /\ m.role[k] = "crlf"
  /\ m.bytes[k - 1] = "cr" /\ m.bytes[k] = "lf"

\* Where a chunk begins, or the message ends.
Bounds(m, h) ==
  {h} \cup {k \in (h + 1)..Len(m.bytes) :
             m.role[k] = "crlf" /\ m.bytes[k] = "lf"}

\* Chunks up to the end, of which only the last is empty.
InChunks(m, h) ==
  /\ h < Len(m.bytes) /\ Len(m.bytes) \in Bounds(m, h)
  /\ \A i \in Bounds(m, h) \ {Len(m.bytes)} :
       \E k \in Bounds(m, h) : \E j \in i..k :
         IsChunk(m, i, j, k) /\ (k = j + 2 <=> k = Len(m.bytes))

\* The data is a header of two bytes, "m" and "n", and what is deflated.
IsPacked(m) ==
  LET data == {k \in 1..Len(m.bytes) : m.role[k] = "data"}
  IN /\ \E c, d \in data :
          /\ c < d /\ \A k \in data : k = c \/ k >= d
          /\ m.bytes[c] = "m" /\ m.bytes[d] = "n"
          /\ \A k \in data \ {c, d} : m.bytes[k] = "z"
     /\ \A k \in 1..Len(m.bytes) : m.bytes[k] = "z" => k \in data

ASSUME PeerAssumption ==
  \A m \in Messages : "end" \in ToSet(m.bytes) =>
    \E h \in 1..Len(m.bytes) :
      /\ HasHeader(m, h)
      /\ "te" \in ToSet(m.bytes) /\ "ext" \notin ToSet(m.role) => InChunks(m, h)
      /\ {"gz", "df"} \cap ToSet(m.bytes) # {} =>
           /\ IsPacked(m)
           /\ "te" \notin ToSet(m.bytes) =>
                \A k \in (h + 1)..Len(m.bytes) : m.role[k] = "data"

-----------------------------------------------------------------------------
(* Properties. *)

Positions == 1..Len(message.bytes)

StreamFields ==
  [state : {"NEW", "BEGIN", "CONTINUE", "END"}, http_header_size : Nat,
   http_chunked : BOOLEAN, http_compress : {"NONE", "GZIP", "DEFLATE"},
   chunk_offset : Nat, l7_error : BOOLEAN, gzip_only_http_header : 0..3,
   gzip_z : {"NULL", "ok", "bad"}]

PacketFields ==
  [size : Nat, l7 : Seq(Positions), l7_content_size : Nat, own : BOOLEAN]

TypeOK ==
  /\ stream \in StreamFields /\ packet \in PacketFields
  /\ sent \in 0..Len(message.bytes)
  /\ pc \in {"idle", "start", "chunk", "gzip"}
  /\ p \in Nat /\ l7_size \in Nat
  /\ fed \in Seq(Positions)

\* What is searched and copied lies in the buffer: DecodeChunk writes behind
\* what it reads, and sets no size greater than the buffer's, wherever packets
\* cut the message and whatever strtol reads behind them.
L7InBounds ==
  /\ packet.l7_content_size <= Len(packet.l7)
  /\ pc = "chunk" => l7_size <= p

Ahead == {i \in sent..Len(message.bytes) :
            \A j \in (sent + 1)..i : message.role[j] = "data"}

\* How much of a chunk is still to come.
RestOfChunk == Max(Ahead) - sent

With(roles) == {i \in Positions : message.role[i] \in roles}

\* The bytes of the packet that have one of the roles.
InPacket(roles) == Select(With(roles), sent - packet.size, sent)

Dechunked ==
  pc = "idle" /\ stream.http_chunked /\ stream.state # "END" /\ past.aligned

\* As long as no packet cuts a size line chunk_offset_ is the rest of the
\* chunk: 0 between two chunks, so that the next packet is read from its first
\* byte, and the CR LF in front of a size is skipped by strtol, or by nobody.
OffsetIfAligned == Dechunked => stream.chunk_offset = RestOfChunk

\* Then too, nothing of the data is lost: all of a packet's decoded content,
\* and the header, is at the front of l7_content_, in order.
DataInFront ==
  Dechunked /\ stream.http_compress = "NONE" =>
    LET data == InPacket({"head", "data"})
    IN /\ Len(data) <= packet.l7_content_size
       /\ SubSeq(packet.l7, 1, Len(data)) = data

\* And l7_content_size_ is its size if every packet ends inside a chunk.
SizeIfTight ==
  Dechunked /\ stream.http_compress = "NONE" /\ past.tight =>
    packet.l7_content_size = Len(InPacket({"head", "data"}))

\* A message in chunks is decoded in step with its sender: where the next
\* chunk begins, what is in front of the buffer, and how much of it.
ChunksDecoded == OffsetIfAligned /\ DataInFront /\ SizeIfTight

\* inflate is given the deflated data of the message, all of it and nothing
\* else, and the packet's new content is its header and what is unpacked; if
\* every packet ends inside a chunk (or there are none) and none cuts the
\* gzip header, and no zlib header comes behind a packet with the HTTP header
\* alone.
InflateInOrder ==
  (/\ pc = "idle" /\ past.aligned /\ past.tight
   /\ stream.http_compress # "NONE"
   /\ stream.http_chunked => stream.state # "END"
   /\ stream.http_compress = "DEFLATE" => stream.gzip_only_http_header = 0) =>
    LET new == Select(With({"data"}) \cap Zs, sent - packet.size, sent)
    IN /\ stream.gzip_z = "ok"
       /\ fed = Select(Zs, 0, sent)
       /\ new # <<>> =>
            SubSeq(packet.l7, 1, packet.l7_content_size) =
              InPacket({"head"}) \o new

-----------------------------------------------------------------------------
(* What a comment says of it. *)

\* "Layer 7 content size(with HTTP/1.1 decode, etc)" (packet.h:49): even if no
\* packet cuts a size line.
SizeIsDecoded ==
  Dechunked /\ stream.http_compress = "NONE" =>
    packet.l7_content_size = Len(InPacket({"head", "data"}))
=============================================================================
