------------------------- MODULE HttpDecoderProofs -------------------------
(***************************************************************************)
(* HttpDecoder: proofs for any messages and digits, wherever packets cut   *)
(* the messages and whatever strtol reads behind the packets.              *)
(***************************************************************************)
EXTENDS HttpDecoder, SequenceFacts, TLAPS

(* While Proc is at work l7_content has the size of the content, and what  *)
(* the packet holds has been sent.                                         *)
InWork ==
  /\ packet.size <= sent
  /\ pc # "idle" => Len(packet.l7) = packet.size

IInv ==
  /\ TypeOK /\ L7InBounds /\ InWork
  /\ message.bytes \in Seq(STRING) /\ behind \in Seq(STRING)

-----------------------------------------------------------------------------
(* What strtol reads. *)

LEMMA MinFacts ==
  ASSUME NEW S \in SUBSET Nat, S # {}
  PROVE  Min(S) \in S /\ \A x \in S : Min(S) <= x
<1>1. \E n \in S : \A m \in S : n <= m
  BY Least
<1> QED BY <1>1 DEF Min

(* Both skip over some characters, and stop at the end of the memory.      *)
LEMMA AfterFacts ==
  ASSUME packet.size \in Nat, behind \in Seq(STRING),
         NEW i \in Nat, NEW S, "nul" \notin S
  PROVE  /\ After(i, S) \in Nat /\ After(i, S) >= i
         /\ \A k \in i..(After(i, S) - 1) : Content(k) \in S
<1> DEFINE end == Max({i, packet.size + Len(behind)})
           places == {j \in i..end : Content(j) \notin S}
<1>1. Len(behind) \in Nat
  BY LenProperties
<1>2. end \in Nat /\ end >= i /\ end >= packet.size + Len(behind)
  <2>1. PICK n \in Nat : n = packet.size + Len(behind)
    BY <1>1
  <2>2. Max({i, n}) \in {i, n} /\ Max({i, n}) >= i /\ Max({i, n}) >= n
    <3>1. i \in Int /\ n \in Int
      OBVIOUS
    <3> QED BY <3>1, MaxOfTwo
  <2>3. end = Max({i, n})
    BY <2>1
  <2> HIDE DEF end
  <2> QED BY <2>1, <2>2, <2>3
<1>3. Content(end) = "nul"
  <2> HIDE DEF end
  <2>1. ~(end < packet.size) /\ ~(end - packet.size < Len(behind))
    BY <1>1, <1>2
  <2> QED BY <2>1 DEF Content, Byte
<1> HIDE DEF end
<1>4. places \in SUBSET Nat /\ places # {}
  BY <1>2, <1>3
<1>5. After(i, S) = Min(places)
  BY DEF After, end
<1>6. Min(places) \in places /\ \A x \in places : Min(places) <= x
  BY <1>4, MinFacts
<1>7. PICK m \in places : m = Min(places) /\ \A x \in places : m <= x
  BY <1>6
<1>8. m \in Nat /\ m >= i /\ m <= end
  BY <1>2, <1>7
<1>9. ASSUME NEW k \in i..(m - 1) PROVE Content(k) \in S
  <2>1. k \in i..end /\ ~(m <= k)
    BY <1>2, <1>8
  <2> QED BY <1>7, <2>1
<1> QED BY <1>5, <1>7, <1>8, <1>9

LEMMA DigitValueFacts ==
  ASSUME NEW b \in ToSet(Digits)
  PROVE  DigitValue(b) \in Nat
<1>1. Digits \in Seq(STRING)
  BY MemoryAssumption
<1>2. PICK i \in 1..Len(Digits) : Digits[i] = b
  BY <1>1, LenProperties DEF ToSet
<1>3. i - 1 \in 0..(Len(Digits) - 1) /\ Digits[(i - 1) + 1] = b
  BY <1>1, <1>2, LenProperties
<1>4. DigitValue(b) \in 0..(Len(Digits) - 1)
  BY <1>3 DEF DigitValue
<1> QED BY <1>4

(* The number that digits stand for, one digit after the other; V has the  *)
(* values of the digits.                                                   *)
Adds(f, V, first, last) ==
  /\ f \in [first..last -> Nat] /\ f[first] = 0
  /\ \A k \in (first + 1)..last : f[k] = f[k - 1] * Len(Digits) + V[k]

LEMMA ValueRun ==
  ASSUME NEW first \in Nat, NEW last \in Nat, first <= last,
         NEW V \in [(first + 1)..last -> Nat]
  PROVE  \E f : Adds(f, V, first, last)
<1> DEFINE N == Len(Digits)
           Step == [k \in (first + 1)..last |-> [x \in Nat |-> x * N + V[k]]]
<1>1. N \in Nat
  BY MemoryAssumption, LenProperties
<1> HIDE DEF N
<1>2. ASSUME NEW x \in Nat, NEW k \in (first + 1)..last PROVE x * N + V[k] \in Nat
  <2>1. x * N \in Nat /\ V[k] \in Nat
    BY <1>1
  <2> QED BY <2>1
<1>3. Step \in [(first + 1)..last -> [Nat -> Nat]]
  BY <1>2
<1>4. \A k \in (first + 1)..last : \A x \in Nat : Step[k][x] = x * N + V[k]
  OBVIOUS
<1> HIDE DEF Step
<1>5. PICK f : Runs(f, Nat, 0, Step, first, last)
  <2>1. 0 \in Nat
    OBVIOUS
  <2> QED BY <1>3, <2>1, RunExists
<1>6. f \in [first..last -> Nat] /\ f[first] = 0
  BY <1>5 DEF Runs
<1>7. ASSUME NEW k \in (first + 1)..last PROVE f[k] = f[k - 1] * N + V[k]
  <2>1. f[k - 1] \in Nat
    BY <1>6
  <2>2. f[k] = Step[k][f[k - 1]]
    BY <1>5 DEF Runs, Follows
  <2> QED BY <1>4, <2>1, <2>2
<1> QED BY <1>6, <1>7 DEF N, Adds

(* strtol's value is this number.                                          *)
LEMMA ValueFacts ==
  ASSUME NEW first \in Nat, NEW last \in Nat, first <= last,
         \A k \in (first + 1)..last : DigitValue(Content(k - 1)) \in Nat
  PROVE  LET value[k \in first..last] ==
               IF k = first THEN 0
               ELSE value[k - 1] * Len(Digits) + DigitValue(Content(k - 1))
         IN /\ value \in [first..last -> Nat] /\ value[first] = 0
            /\ \A k \in (first + 1)..last :
                 value[k] = value[k - 1] * Len(Digits) + DigitValue(Content(k - 1))
<1> DEFINE N == Len(Digits)
           V(k) == DigitValue(Content(k - 1))
           W == [k \in (first + 1)..last |-> V(k)]
           value[k \in first..last] ==
             IF k = first THEN 0 ELSE value[k - 1] * N + V(k)
<1> HIDE DEF N, V
<1>1. PICK f : /\ f \in [first..last -> Nat] /\ f[first] = 0
               /\ \A k \in (first + 1)..last : f[k] = f[k - 1] * N + V(k)
  <2>1. W \in [(first + 1)..last -> Nat]
    BY DEF V
  <2>2. \A k \in (first + 1)..last : W[k] = V(k)
    OBVIOUS
  <2> HIDE DEF W
  <2>3. PICK f : Adds(f, W, first, last)
    BY <2>1, ValueRun
  <2> QED BY <2>2, <2>3 DEF Adds, N
<1>2. f = [k \in first..last |-> IF k = first THEN 0 ELSE f[k - 1] * N + V(k)]
  <2>1. ASSUME NEW k \in first..last
        PROVE  f[k] = IF k = first THEN 0 ELSE f[k - 1] * N + V(k)
    BY <1>1
  <2> QED BY <1>1, <2>1
<1>3. value = [k \in first..last |-> IF k = first THEN 0 ELSE value[k - 1] * N + V(k)]
  <2>1. value = CHOOSE g : g = [k \in first..last |->
                  IF k = first THEN 0 ELSE g[k - 1] * N + V(k)]
    OBVIOUS
  <2> HIDE DEF value
  <2> QED BY <1>2, <2>1
<1> HIDE DEF value
<1>4. \A k \in first..last :
        value[k] = IF k = first THEN 0 ELSE value[k - 1] * N + V(k)
  BY <1>3
<1>5. value[first] = 0
        /\ \A k \in (first + 1)..last : value[k] = value[k - 1] * N + V(k)
  <2>1. value[first] = 0
    BY <1>4
  <2>2. ASSUME NEW k \in (first + 1)..last
        PROVE  value[k] = value[k - 1] * N + V(k)
    <3>1. k \in first..last /\ k # first
      OBVIOUS
    <3> QED BY <1>4, <3>1
  <2> QED BY <2>1, <2>2
<1>6. value \in [first..last -> Nat]
  <2> DEFINE Step == [k \in (first + 1)..last |-> [x \in {value[j] : j \in first..last} \cup Nat |-> x * N + V(k)]]
  <2>1. Follows(value, Step, first, last) /\ Follows(f, Step, first, last)
    BY <1>1, <1>5 DEF Follows
  <2> HIDE DEF Step
  <2>2. \A k \in first..last : value[k] = f[k]
    BY <1>1, <1>5, <2>1, RunUnique
  <2>3. ASSUME NEW k \in first..last PROVE value[k] \in Nat
    BY <1>1, <2>2
  <2> QED BY <1>3, <2>3
<1> QED BY <1>5, <1>6 DEF value, N, V

LEMMA StrtolFacts ==
  ASSUME packet.size \in Nat, behind \in Seq(STRING), NEW i \in Nat
  PROVE  /\ Strtol(i).value \in Nat
         /\ Strtol(i).nonnum \in Nat /\ Strtol(i).nonnum >= i
<1> DEFINE first == After(i, Space)
           last == After(first, ToSet(Digits))
           value[k \in first..last] ==
             IF k = first THEN 0
             ELSE value[k - 1] * Len(Digits) + DigitValue(Content(k - 1))
<1>1. first \in Nat /\ first >= i
  <2>1. "nul" \notin Space
    BY DEF Space
  <2> QED BY <2>1, AfterFacts
<1> HIDE DEF first
<1>2. /\ last \in Nat /\ last >= first
      /\ \A k \in first..(last - 1) : Content(k) \in ToSet(Digits)
  <2>1. "nul" \notin ToSet(Digits)
    BY MemoryAssumption
  <2> QED BY <1>1, <2>1, AfterFacts
<1> HIDE DEF last
<1>3. ASSUME NEW k \in (first + 1)..last PROVE DigitValue(Content(k - 1)) \in Nat
  <2>1. k - 1 \in first..(last - 1)
    BY <1>1, <1>2
  <2> QED BY <1>2, <2>1, DigitValueFacts
<1>4. value[last] \in Nat
  <2>1. value \in [first..last -> Nat]
    BY <1>1, <1>2, <1>3, ValueFacts
  <2> HIDE DEF value
  <2> QED BY <1>1, <1>2, <2>1
<1>5. Strtol(i) = [value |-> value[last], nonnum |-> IF last = first THEN i ELSE last]
  BY DEF Strtol, first, last
<1> HIDE DEF value
<1> QED BY <1>1, <1>2, <1>4, <1>5

-----------------------------------------------------------------------------
(* The steps. *)

LEMMA Messages_ ==
  ASSUME NEW m \in Messages
  PROVE  m.bytes \in Seq(STRING) /\ Len(m.bytes) \in Nat
BY MessagesAssumption, LenProperties

LEMMA Init_IInv == Init => IInv
<1> SUFFICES ASSUME Init PROVE IInv
  OBVIOUS
<1>1. PICK m \in Messages, web \in BOOLEAN :
        message = [bytes |-> m.bytes, role |-> m.role, web |-> web]
  BY DEF Init
<1>2. message.bytes \in Seq(STRING) /\ Len(message.bytes) \in Nat
  BY <1>1, Messages_
<1>3. stream \in StreamFields
  BY DEF Init, NewStream, StreamFields
<1>4. packet \in PacketFields /\ packet.size = 0 /\ packet.l7_content_size = 0
        /\ packet.l7 = <<>>
  BY DEF Init, NoPacket, PacketFields
<1>5. /\ sent = 0 /\ pc = "idle" /\ p = 0 /\ l7_size = 0
      /\ fed = <<>> /\ behind = <<>>
  BY DEF Init
<1>6. fed \in Seq(Positions) /\ behind \in Seq(STRING) /\ Len(packet.l7) = 0
  BY <1>4, <1>5
<1>7. TypeOK
  BY <1>2, <1>3, <1>4, <1>5, <1>6 DEF TypeOK
<1>8. L7InBounds /\ InWork
  BY <1>4, <1>5, <1>6 DEF L7InBounds, InWork
<1> QED BY <1>2, <1>6, <1>7, <1>8 DEF IInv

LEMMA AnalyzeHeaderFacts ==
  ASSUME NEW s \in StreamFields, NEW n \in Nat, NEW mem \in Seq(STRING)
  PROVE  AnalyzeHeader(s, n, mem) \in StreamFields
<1> DEFINE all == {i \in 0..(n + Len(mem) - 1) : Byte(0, n, mem, i) = "end"}
<1>1. Len(mem) \in Nat
  BY LenProperties
<1>2. Find(0, n, mem, "end") \in Nat
  <2>1. Find(0, n, mem, "end") = IF all = {} THEN n + Len(mem) ELSE Min(all)
    BY DEF Find
  <2>2. all \in SUBSET Nat
    BY <1>1
  <2> HIDE DEF all
  <2>3. all # {} => Min(all) \in Nat
    BY <2>2, MinFacts
  <2> QED BY <1>1, <2>1, <2>3
<1>3. PICK size \in Nat : size = Find(0, n, mem, "end") + 1
  BY <1>2
<1>4. PICK chunked \in BOOLEAN : chunked = Has(0, n, mem, "te")
  <2>1. Has(0, n, mem, "te") \in BOOLEAN
    BY DEF Has
  <2> QED BY <2>1
<1>5. PICK compress \in {"NONE", "GZIP", "DEFLATE"} :
        compress = IF Has(0, n, mem, "gz") THEN "GZIP"
                   ELSE IF Has(0, n, mem, "df") THEN "DEFLATE" ELSE "NONE"
  OBVIOUS
<1>6. PICK only \in 0..3 : only = IF size = n THEN 1 ELSE 0
  OBVIOUS
<1>7. AnalyzeHeader(s, n, mem) =
        IF ~message.web \/ ~Has(0, n, mem, "end") THEN s
        ELSE [s EXCEPT !.http_header_size = size,
                       !.gzip_only_http_header = only,
                       !.http_chunked = chunked,
                       !.http_compress = compress]
  BY <1>3, <1>4, <1>5, <1>6 DEF AnalyzeHeader
<1>8. [s EXCEPT !.http_header_size = size, !.gzip_only_http_header = only,
                !.http_chunked = chunked, !.http_compress = compress]
        \in StreamFields
  BY DEF StreamFields
<1> QED BY <1>7, <1>8

(* The parts of a stream's fields that a step looks at.                    *)
LEMMA StreamTypes ==
  ASSUME TypeOK
  PROVE  /\ stream.http_header_size \in Nat /\ stream.chunk_offset \in Nat
         /\ packet.size \in Nat /\ packet.l7 \in Seq(Positions)
         /\ packet.l7_content_size \in Nat /\ Len(packet.l7) \in Nat
         /\ packet.own \in BOOLEAN
         /\ p \in Nat /\ l7_size \in Nat
         /\ sent \in Nat /\ sent <= Len(message.bytes) /\ Len(message.bytes) \in Nat
<1>1. stream \in StreamFields /\ packet \in PacketFields
  BY DEF TypeOK
<1>2. packet.l7 \in Seq(Positions)
  BY <1>1 DEF PacketFields
<1>3. Len(packet.l7) \in Nat
  BY <1>2, LenProperties
<1>4. sent \in 0..Len(message.bytes) /\ p \in Nat /\ l7_size \in Nat
  BY DEF TypeOK
<1> QED BY <1>1, <1>2, <1>3, <1>4 DEF StreamFields, PacketFields

LEMMA ReceiveStep ==
  ASSUME IInv, NEW n \in 0..Len(message.bytes), NEW fin \in BOOLEAN,
         NEW mem \in Behind, Receive(n, fin, mem)
  PROVE  IInv'
<1>0. TypeOK /\ L7InBounds /\ InWork /\ message.bytes \in Seq(STRING)
  BY DEF IInv
<1>1. sent \in Nat /\ Len(message.bytes) \in Nat /\ p \in Nat /\ l7_size \in Nat
  BY <1>0, StreamTypes
<1>2. mem \in Seq(STRING) /\ n \in Nat
  BY <1>1, MemoryAssumption
<1> DEFINE s == [stream EXCEPT !.state =
                   IF fin THEN "END"
                   ELSE IF stream.state = "NEW" THEN "BEGIN" ELSE "CONTINUE"]
           l7 == [i \in 1..n |-> sent + i]
<1>3. s \in StreamFields
  BY <1>0 DEF TypeOK, StreamFields
<1>4. /\ sent + n <= Len(message.bytes) /\ sent' = sent + n
      /\ stream' = IF s.state = "BEGIN" THEN AnalyzeHeader(s, n, mem) ELSE s
      /\ behind' = mem /\ pc' = "start"
      /\ packet' = [size |-> n, l7 |-> l7, l7_content_size |-> n, own |-> FALSE]
      /\ message' = message /\ p' = p /\ l7_size' = l7_size /\ fed' = fed
  BY DEF Receive
<1>5. l7 \in Seq(Positions) /\ Len(l7) = n
  <2>1. \A i \in 1..n : sent + i \in Positions
    BY <1>1, <1>2, <1>4 DEF Positions
  <2> QED BY <1>2, <2>1
<1> HIDE DEF s, l7
<1>6. stream' \in StreamFields
  BY <1>2, <1>3, <1>4, AnalyzeHeaderFacts
<1>7. /\ packet' \in PacketFields /\ packet'.l7 = l7
      /\ packet'.size = n /\ packet'.l7_content_size = n
  BY <1>2, <1>4, <1>5 DEF PacketFields
<1>8. sent' \in 0..Len(message.bytes)
  BY <1>1, <1>2, <1>4
<1>9. TypeOK'
  BY <1>0, <1>4, <1>6, <1>7, <1>8 DEF TypeOK, PacketFields, Positions
<1>10. L7InBounds' /\ InWork'
  BY <1>1, <1>2, <1>4, <1>5, <1>7 DEF L7InBounds, InWork
<1> QED BY <1>0, <1>2, <1>4, <1>9, <1>10 DEF IInv

(* DecodeChunk has ended.                                                  *)
LEMMA ChunkDoneStep ==
  ASSUME IInv, pc # "idle", NEW offset \in Nat, ChunkDone(offset),
         packet' \in PacketFields, packet'.size = packet.size,
         Len(packet'.l7) = packet.size,
         packet'.l7_content_size <= Len(packet'.l7)
  PROVE  IInv'
<1>0. TypeOK /\ L7InBounds /\ InWork /\ message.bytes \in Seq(STRING)
        /\ behind \in Seq(STRING)
  BY DEF IInv
<1>1. /\ stream' = [stream EXCEPT !.chunk_offset = offset]
      /\ pc' = "gzip" /\ p' = 0 /\ l7_size' = 0
      /\ message' = message /\ sent' = sent /\ behind' = behind /\ fed' = fed
  BY DEF ChunkDone
<1>2. stream' \in StreamFields
  BY <1>0, <1>1 DEF TypeOK, StreamFields
<1>3. TypeOK'
  BY <1>0, <1>1, <1>2 DEF TypeOK, PacketFields, Positions
<1>4. L7InBounds' /\ InWork'
  BY <1>0, <1>1 DEF L7InBounds, InWork
<1> QED BY <1>0, <1>1, <1>3, <1>4 DEF IInv

(* memcpy of a part of a chunk that is behind its place in l7_content.     *)
LEMMA CopiedFacts ==
  ASSUME IInv, pc = "chunk", NEW from \in Nat, NEW k \in Nat,
         p <= from, from + k <= packet.size
  PROVE  Copied(from, k) \in Seq(Positions) /\ Len(Copied(from, k)) = packet.size
<1>0. TypeOK /\ L7InBounds /\ InWork
  BY DEF IInv
<1>1. /\ packet.size \in Nat /\ packet.l7 \in Seq(Positions)
      /\ sent \in Nat /\ sent <= Len(message.bytes) /\ Len(message.bytes) \in Nat
      /\ p \in Nat /\ l7_size \in Nat
  BY <1>0, StreamTypes
<1>2. Len(packet.l7) = packet.size /\ packet.size <= sent /\ l7_size <= p
  BY <1>0 DEF InWork, L7InBounds
<1>3. ASSUME NEW i \in 1..packet.size
      PROVE  (IF i \in (l7_size + 1)..(l7_size + k)
              THEN (sent - packet.size) + from + (i - l7_size)
              ELSE packet.l7[i]) \in Positions
  <2>1. CASE i \in (l7_size + 1)..(l7_size + k)
    <3>1. PICK j \in 1..k : j = i - l7_size
      BY <1>1, <2>1
    <3>2. PICK e \in Nat : e = from + j /\ 1 <= e /\ e <= packet.size
      BY <1>1
    <3>3. PICK d \in Nat : d = sent - packet.size /\ d + packet.size = sent
      BY <1>1, <1>2
    <3>4. d + from + j = d + e
      BY <3>2
    <3>5. d + e \in 1..sent
      <4>1. d + e <= sent /\ 1 <= d + e
        BY <1>1, <3>2, <3>3
      <4> QED BY <1>1, <4>1
    <3>6. 1..sent \subseteq 1..Len(message.bytes)
      BY <1>1
    <3> QED BY <2>1, <3>1, <3>3, <3>4, <3>5, <3>6 DEF Positions
  <2>2. CASE i \notin (l7_size + 1)..(l7_size + k)
    <3>1. packet.l7[i] \in Positions
      BY <1>1, <1>2, ElementOfSeq
    <3> QED BY <2>2, <3>1
  <2> QED BY <2>1, <2>2
<1>4. Copied(from, k) =
        [i \in 1..packet.size |->
           IF i \in (l7_size + 1)..(l7_size + k)
           THEN (sent - packet.size) + from + (i - l7_size)
           ELSE packet.l7[i]]
  BY <1>2 DEF Copied
<1>5. Copied(from, k) \in [1..packet.size -> Positions]
  BY <1>3, <1>4
<1> QED BY <1>1, <1>5

(* Where the loop stands: behind p, and so behind what has been copied.    *)
LEMMA LoopFacts ==
  ASSUME IInv, pc = "chunk"
  PROVE  /\ Line.value \in Nat /\ Line.nonnum \in Nat /\ p <= Line.nonnum
         /\ AfterLine(Line.nonnum) \in Nat
         /\ AfterLine(Line.nonnum) >= Line.nonnum
         /\ AfterLine(Line.nonnum) <= Line.nonnum + 2
         /\ l7_size <= p /\ p \in Nat /\ l7_size \in Nat /\ packet.size \in Nat
<1>0. TypeOK /\ L7InBounds /\ behind \in Seq(STRING)
  BY DEF IInv
<1>1. packet.size \in Nat /\ p \in Nat /\ l7_size \in Nat
  BY <1>0, StreamTypes
<1>2. Line.value \in Nat /\ Line.nonnum \in Nat /\ Line.nonnum >= p
  BY <1>0, <1>1, StrtolFacts DEF Line
<1>3. l7_size <= p
  BY <1>0 DEF L7InBounds
<1> QED BY <1>1, <1>2, <1>3 DEF AfterLine

LEMMA ChunkStep ==
  ASSUME IInv, Chunk
  PROVE  IInv'
<1>0. /\ TypeOK /\ L7InBounds /\ InWork /\ message.bytes \in Seq(STRING)
      /\ behind \in Seq(STRING) /\ packet \in PacketFields
      /\ packet.l7_content_size <= Len(packet.l7)
  BY DEF IInv, TypeOK, L7InBounds
<1>1. /\ stream.http_header_size \in Nat /\ stream.chunk_offset \in Nat
      /\ packet.size \in Nat /\ packet.l7 \in Seq(Positions)
      /\ sent \in Nat
  BY <1>0, StreamTypes
<1>2. pc # "idle" => Len(packet.l7) = packet.size /\ packet.size <= sent
  BY <1>0 DEF InWork
<1>3. CASE LargeChunk
  <2>1. /\ pc = "start" /\ packet.size < stream.chunk_offset
        /\ packet' = [packet EXCEPT !.own = TRUE]
        /\ ChunkDone(stream.chunk_offset - packet.size)
    BY <1>3 DEF LargeChunk, Dechunking
  <2>2. PICK offset \in Nat : offset = stream.chunk_offset - packet.size
    BY <1>1, <2>1
  <2>3. /\ packet' \in PacketFields /\ packet'.size = packet.size
        /\ packet'.l7 = packet.l7
        /\ packet'.l7_content_size = packet.l7_content_size
    BY <1>0, <2>1 DEF PacketFields
  <2> QED BY <1>0, <1>2, <2>1, <2>2, <2>3, ChunkDoneStep
<1>4. CASE EnterLoop
  <2>1. /\ pc = "start" /\ pc' = "chunk"
        /\ packet' = [packet EXCEPT !.own = TRUE]
        /\ p' = DecodeFrom(stream) /\ l7_size' = DecodeFrom(stream)
        /\ message' = message /\ sent' = sent /\ stream' = stream
        /\ behind' = behind /\ fed' = fed
    BY <1>4 DEF EnterLoop, Dechunking
  <2>2. DecodeFrom(stream) \in Nat
    BY <1>1 DEF DecodeFrom
  <2>3. /\ packet' \in PacketFields /\ packet'.size = packet.size
        /\ packet'.l7 = packet.l7
        /\ packet'.l7_content_size = packet.l7_content_size
    BY <1>0, <2>1 DEF PacketFields
  <2>4. TypeOK'
    BY <1>0, <2>1, <2>2, <2>3 DEF TypeOK, PacketFields, Positions
  <2>5. L7InBounds' /\ InWork'
    BY <1>0, <1>2, <2>1, <2>2, <2>3 DEF L7InBounds, InWork
  <2> QED BY <1>0, <2>1, <2>4, <2>5 DEF IInv
<1>5. CASE LineAtEnd
  <2>1. pc = "chunk" /\ packet' = packet /\ ChunkDone(Line.value)
    BY <1>5 DEF LineAtEnd
  <2>2. PICK offset \in Nat : offset = Line.value
    BY <2>1, LoopFacts
  <2> QED BY <1>0, <1>2, <2>1, <2>2, ChunkDoneStep
<1>6. CASE LastChunk
  <2>1. /\ pc = "chunk" /\ Line.nonnum + 2 < packet.size
        /\ packet' = [packet EXCEPT !.l7_content_size = l7_size] /\ ChunkDone(0)
    BY <1>6 DEF LastChunk, InLoop
  <2>2. l7_size \in Nat /\ l7_size <= packet.size
    BY <2>1, LoopFacts
  <2>3. /\ packet' \in PacketFields /\ packet'.size = packet.size
        /\ packet'.l7 = packet.l7 /\ packet'.l7_content_size = l7_size
    BY <1>0, <2>1, <2>2 DEF PacketFields
  <2> QED BY <1>2, <2>1, <2>2, <2>3, ChunkDoneStep
<1>7. CASE CutChunk
  <2> DEFINE from == AfterLine(Line.nonnum)
  <2>1. /\ pc = "chunk" /\ Line.nonnum + 2 < packet.size
        /\ from + Line.value > packet.size
        /\ packet' = [packet EXCEPT !.l7 = Copied(from, Saved(from)),
                                    !.l7_content_size = l7_size + Saved(from)]
        /\ ChunkDone(Rest(Line.value, Saved(from)))
    BY <1>7 DEF CutChunk, InLoop
  <2>2. /\ Line.value \in Nat /\ from \in Nat /\ p <= from /\ from <= packet.size
        /\ l7_size \in Nat /\ l7_size <= p /\ p \in Nat
    BY <2>1, LoopFacts
  <2> HIDE DEF from
  <2>3. PICK k \in Nat : k = Saved(from)
    BY <1>1, <2>2 DEF Saved
  <2>4. from + k = packet.size
    BY <1>1, <2>2, <2>3 DEF Saved
  <2>5. Copied(from, k) \in Seq(Positions) /\ Len(Copied(from, k)) = packet.size
    BY <2>1, <2>2, <2>4, CopiedFacts
  <2>6. PICK size \in Nat : size = l7_size + k /\ size <= packet.size
    BY <1>1, <2>2, <2>4
  <2>7. PICK offset \in Nat : offset = Rest(Line.value, k)
    BY <1>1, <2>1, <2>2, <2>4 DEF Rest
  <2>8. packet' = [packet EXCEPT !.l7 = Copied(from, k), !.l7_content_size = size]
    BY <2>1, <2>3, <2>6
  <2>9. /\ packet' \in PacketFields /\ packet'.size = packet.size
        /\ packet'.l7 = Copied(from, k) /\ packet'.l7_content_size = size
    BY <1>0, <2>5, <2>8 DEF PacketFields
  <2>10. ChunkDone(offset)
    BY <2>1, <2>3, <2>7
  <2> QED BY <2>1, <2>5, <2>6, <2>9, <2>10, ChunkDoneStep
<1>8. CASE WholeChunk
  <2> DEFINE from == AfterLine(Line.nonnum)
  <2>1. /\ pc = "chunk" /\ from + Line.value <= packet.size
        /\ packet' = [packet EXCEPT !.l7 = Copied(from, Line.value)]
        /\ l7_size' = l7_size + Line.value /\ p' = from + Line.value + 2
        /\ message' = message /\ sent' = sent /\ stream' = stream
        /\ behind' = behind /\ pc' = pc /\ fed' = fed
    BY <1>8 DEF WholeChunk, InLoop
  <2>2. /\ Line.value \in Nat /\ from \in Nat /\ p <= from
        /\ l7_size \in Nat /\ l7_size <= p /\ p \in Nat
    BY <2>1, LoopFacts
  <2> HIDE DEF from
  <2>3. PICK k \in Nat : k = Line.value
    BY <2>2
  <2>4. Copied(from, k) \in Seq(Positions) /\ Len(Copied(from, k)) = packet.size
    BY <2>1, <2>2, <2>3, CopiedFacts
  <2>5. /\ packet' \in PacketFields /\ packet'.size = packet.size
        /\ packet'.l7 = Copied(from, k)
        /\ packet'.l7_content_size = packet.l7_content_size
    BY <1>0, <2>1, <2>3, <2>4 DEF PacketFields
  <2>6. p' \in Nat /\ l7_size' \in Nat /\ l7_size' <= p'
    BY <2>1, <2>2
  <2>7. TypeOK'
    BY <1>0, <2>1, <2>5, <2>6 DEF TypeOK, PacketFields, Positions
  <2>8. L7InBounds' /\ InWork'
    BY <1>0, <1>2, <2>1, <2>4, <2>5, <2>6 DEF L7InBounds, InWork
  <2> QED BY <1>0, <2>1, <2>7, <2>8 DEF IInv
<1> QED
  BY <1>3, <1>4, <1>5, <1>6, <1>7, <1>8 DEF Chunk

LEMMA SkipChunkStep ==
  ASSUME IInv, SkipChunk
  PROVE  IInv'
<1>0. /\ TypeOK /\ L7InBounds /\ InWork /\ packet \in PacketFields
      /\ stream \in StreamFields
  BY DEF IInv, TypeOK
<1>1. /\ pc = "start" /\ pc' = "gzip"
      /\ packet' = [packet EXCEPT !.own = stream.http_chunked]
      /\ message' = message /\ sent' = sent /\ stream' = stream
      /\ behind' = behind /\ fed' = fed /\ p' = p /\ l7_size' = l7_size
  BY DEF SkipChunk
<1>2. stream.http_chunked \in BOOLEAN
  BY <1>0 DEF StreamFields
<1>3. /\ packet' \in PacketFields /\ packet'.size = packet.size
      /\ packet'.l7 = packet.l7
      /\ packet'.l7_content_size = packet.l7_content_size
  BY <1>0, <1>1, <1>2 DEF PacketFields
<1>4. TypeOK'
  BY <1>0, <1>1, <1>3 DEF TypeOK, PacketFields, Positions
<1>5. L7InBounds' /\ InWork'
  BY <1>0, <1>1, <1>3 DEF L7InBounds, InWork
<1> QED BY <1>1, <1>4, <1>5 DEF IInv

(* DecodeGzip has ended, and with it Proc.                                 *)
LEMMA GzipDoneStep ==
  ASSUME IInv, NEW s \in StreamFields, GzipDone(s),
         packet' \in PacketFields, packet'.size = packet.size,
         packet'.l7_content_size <= Len(packet'.l7),
         fed' \in Seq(Positions)
  PROVE  IInv'
<1>0. TypeOK /\ L7InBounds /\ InWork /\ message.bytes \in Seq(STRING)
  BY DEF IInv
<1>1. /\ stream' = s /\ pc' = "idle" /\ behind' = <<>>
      /\ message' = message /\ sent' = sent /\ p' = p /\ l7_size' = l7_size
  BY DEF GzipDone
<1>2. TypeOK'
  BY <1>0, <1>1 DEF TypeOK, PacketFields, Positions
<1>3. L7InBounds' /\ InWork'
  BY <1>0, <1>1 DEF L7InBounds, InWork
<1>4. behind' \in Seq(STRING)
  BY <1>1
<1> QED BY <1>0, <1>1, <1>2, <1>3, <1>4 DEF IInv

LEMMA GzipQuiet ==
  ASSUME IInv, NEW s \in StreamFields, GzipDone(s), packet' = packet, fed' = fed
  PROVE  IInv'
<1>1. /\ packet' \in PacketFields /\ packet'.size = packet.size
      /\ packet'.l7_content_size <= Len(packet'.l7)
      /\ fed' \in Seq(Positions)
  BY DEF IInv, TypeOK, L7InBounds
<1> QED BY <1>1, GzipDoneStep

(* The front of a sequence, also where it is not as long as asked for, and *)
(* what is left behind it.                                                 *)
LEMMA PartsFacts ==
  ASSUME NEW S, NEW q \in Seq(S), NEW n \in Nat
  PROVE  /\ n <= Len(q) => SubSeq(q, 1, n) \in Seq(S) /\ Len(SubSeq(q, 1, n)) = n
         /\ SubSeq(q, n + 1, Len(q)) \in Seq(S)
<1>1. Len(q) \in Nat
  BY LenProperties
<1>2. ASSUME n <= Len(q)
      PROVE  SubSeq(q, 1, n) \in Seq(S) /\ Len(SubSeq(q, 1, n)) = n
  <2>1. 1 \in 1..Len(q) + 1 /\ n \in 0..Len(q)
    BY <1>1, <1>2
  <2>2. \A i \in 1..n : q[i] \in S
    BY <1>1, <1>2, ElementOfSeq
  <2> QED BY <2>1, <2>2, SubSeqProperties
<1>3. SubSeq(q, n + 1, Len(q)) \in Seq(S)
  <2>1. \A i \in (n + 1)..Len(q) : q[i] \in S
    BY <1>1, ElementOfSeq
  <2> QED BY <1>1, <2>1
<1> QED BY <1>2, <1>3

(* Positions in their order. *)

(* One position after the other is selected.                               *)
Selects(f, P, a, b) ==
  /\ f \in [a..b -> Seq(Nat)] /\ f[a] = <<>>
  /\ \A k \in (a + 1)..b : f[k] = IF k \in P THEN Append(f[k - 1], k) ELSE f[k - 1]

LEMMA SelectRun ==
  ASSUME NEW P, NEW a \in Nat, NEW b \in Nat, a <= b
  PROVE  \E f : Selects(f, P, a, b) /\ Select(P, a, b) = f[b]
<1> DEFINE Step == [k \in (a + 1)..b |-> [q \in Seq(Nat) |->
                      IF k \in P THEN Append(q, k) ELSE q]]
           upTo[k \in a..b] == IF k = a THEN <<>>
                               ELSE IF k \in P THEN Append(upTo[k - 1], k)
                               ELSE upTo[k - 1]
<1>1. Step \in [(a + 1)..b -> [Seq(Nat) -> Seq(Nat)]]
  <2>1. ASSUME NEW k \in (a + 1)..b, NEW q \in Seq(Nat)
        PROVE  (IF k \in P THEN Append(q, k) ELSE q) \in Seq(Nat)
    BY AppendFacts
  <2> QED BY <2>1
<1>2. \A k \in (a + 1)..b : \A q \in Seq(Nat) :
        Step[k][q] = IF k \in P THEN Append(q, k) ELSE q
  OBVIOUS
<1> HIDE DEF Step
<1>3. PICK f : /\ f \in [a..b -> Seq(Nat)] /\ f[a] = <<>>
               /\ \A k \in (a + 1)..b : f[k] = Step[k][f[k - 1]]
  <2>1. <<>> \in Seq(Nat)
    OBVIOUS
  <2>2. PICK f : Runs(f, Seq(Nat), <<>>, Step, a, b)
    BY <1>1, <2>1, RunExists
  <2> QED BY <2>2 DEF Runs, Follows
<1>4. ASSUME NEW k \in (a + 1)..b
      PROVE  f[k] = IF k \in P THEN Append(f[k - 1], k) ELSE f[k - 1]
  <2>1. f[k - 1] \in Seq(Nat) /\ f[k] = Step[k][f[k - 1]]
    BY <1>3
  <2> QED BY <1>2, <2>1
<1>5. f = [k \in a..b |-> IF k = a THEN <<>>
                          ELSE IF k \in P THEN Append(f[k - 1], k) ELSE f[k - 1]]
  <2>1. ASSUME NEW k \in a..b
        PROVE  f[k] = IF k = a THEN <<>>
                      ELSE IF k \in P THEN Append(f[k - 1], k) ELSE f[k - 1]
    <3>1. k = a \/ k \in (a + 1)..b
      OBVIOUS
    <3>2. k \in (a + 1)..b => k # a
      OBVIOUS
    <3>3. CASE k = a
      BY <1>3, <3>3
    <3>4. CASE k \in (a + 1)..b
      BY <1>4, <3>2, <3>4, Zenon
    <3> QED BY <3>1, <3>3, <3>4
  <2> QED BY <1>3, <2>1
<1>6. upTo = [k \in a..b |-> IF k = a THEN <<>>
                             ELSE IF k \in P THEN Append(upTo[k - 1], k)
                             ELSE upTo[k - 1]]
  <2>1. upTo = CHOOSE g : g = [k \in a..b |-> IF k = a THEN <<>>
                 ELSE IF k \in P THEN Append(g[k - 1], k) ELSE g[k - 1]]
    OBVIOUS
  <2> HIDE DEF upTo
  <2> QED BY <1>5, <2>1
<1>7. Select(P, a, b) = upTo[b]
  BY DEF Select
<1> HIDE DEF upTo
<1>8. \A k \in a..b : upTo[k] = IF k = a THEN <<>>
                                ELSE IF k \in P THEN Append(upTo[k - 1], k)
                                ELSE upTo[k - 1]
  BY <1>6
<1> DEFINE Go == [k \in (a + 1)..b |->
             [q \in {upTo[j] : j \in a..b} \cup Seq(Nat) |->
                IF k \in P THEN Append(q, k) ELSE q]]
<1>9. Follows(upTo, Go, a, b)
  <2> SUFFICES ASSUME NEW k \in (a + 1)..b PROVE upTo[k] = Go[k][upTo[k - 1]]
    BY DEF Follows
  <2>1. k \in a..b /\ k - 1 \in a..b /\ k # a
    OBVIOUS
  <2> QED BY <1>8, <2>1
<1>10. Follows(f, Go, a, b)
  BY <1>3, <1>4 DEF Follows
<1> HIDE DEF Go
<1>11. upTo[a] = f[a]
  BY <1>3, <1>8
<1>12. upTo[b] = f[b]
  BY <1>9, <1>10, <1>11, RunUnique
<1>13. Selects(f, P, a, b)
  BY <1>3, <1>4 DEF Selects
<1> QED BY <1>7, <1>12, <1>13

LEMMA SelectNone ==
  ASSUME NEW P, NEW a \in Nat
  PROVE  Select(P, a, a) = <<>>
<1>1. PICK f : Selects(f, P, a, a) /\ Select(P, a, a) = f[a]
  BY SelectRun
<1> QED BY <1>1 DEF Selects

LEMMA SelectNext ==
  ASSUME NEW P, NEW a \in Nat, NEW b \in Nat, a <= b
  PROVE  /\ Select(P, a, b) \in Seq(Nat)
         /\ b + 1 \in P => Select(P, a, b + 1) = Append(Select(P, a, b), b + 1)
         /\ b + 1 \notin P => Select(P, a, b + 1) = Select(P, a, b)
<1>1. PICK f : Selects(f, P, a, b) /\ Select(P, a, b) = f[b]
  BY SelectRun
<1>2. PICK g : Selects(g, P, a, b + 1) /\ Select(P, a, b + 1) = g[b + 1]
  <2>1. b + 1 \in Nat /\ a <= b + 1
    OBVIOUS
  <2> QED BY <2>1, SelectRun
<1> DEFINE Go == [k \in (a + 1)..b |-> [q \in Seq(Nat) |->
                    IF k \in P THEN Append(q, k) ELSE q]]
<1>3. Follows(f, Go, a, b)
  BY <1>1 DEF Selects, Follows
<1>4. Follows(g, Go, a, b)
  BY <1>2 DEF Selects, Follows
<1> HIDE DEF Go
<1>5. f[a] = g[a]
  BY <1>1, <1>2 DEF Selects
<1>6. f[b] = g[b] /\ f[b] \in Seq(Nat)
  <2>1. \A k \in a..b : f[k] = g[k]
    BY <1>3, <1>4, <1>5, RunUnique
  <2>2. f \in [a..b -> Seq(Nat)] /\ b \in a..b
    BY <1>1 DEF Selects
  <2> QED BY <2>1, <2>2
<1>7. g[b + 1] = IF b + 1 \in P THEN Append(g[b], b + 1) ELSE g[b]
  <2>1. b + 1 \in (a + 1)..(b + 1) /\ (b + 1) - 1 = b
    OBVIOUS
  <2> QED BY <1>2, <2>1 DEF Selects
<1> QED BY <1>1, <1>2, <1>6, <1>7

AppendsToBoth(q, r, x) == Append(q \o r, x) = q \o Append(r, x)

LEMMA AppendAssociative ==
  ASSUME NEW S, NEW q \in Seq(S), NEW r \in Seq(S), NEW x \in S
  PROVE  AppendsToBoth(q, r, x)
BY DEF AppendsToBoth

LEMMA SelectType ==
  ASSUME NEW P, NEW a \in Nat, NEW b \in Nat, a <= b
  PROVE  /\ Select(P, a, b) \in Seq((a + 1)..b)
         /\ Len(Select(P, a, b)) \in Nat /\ Len(Select(P, a, b)) <= b - a
<1> DEFINE Holds == {n \in Nat : /\ Select(P, a, a + n) \in Seq((a + 1)..(a + n))
                                /\ Len(Select(P, a, a + n)) <= n}
<1>1. 0 \in Holds
  <2>1. a + 0 = a /\ <<>> \in Seq((a + 1)..a) /\ Len(<<>>) = 0
    OBVIOUS
  <2>2. Select(P, a, a) = <<>>
    BY SelectNone
  <2> QED BY <2>1, <2>2
<1>2. ASSUME NEW n \in Nat, n \in Holds PROVE n + 1 \in Holds
  <2>1. PICK c \in Nat : c = a + n /\ a <= c /\ c + 1 = a + (n + 1)
    OBVIOUS
  <2>2. PICK q \in Seq((a + 1)..c) : q = Select(P, a, c) /\ Len(q) <= n
    BY <1>2, <2>1
  <2>3. q \in Seq((a + 1)..(c + 1)) /\ Len(q) \in Nat
    <3>1. (a + 1)..c \subseteq (a + 1)..(c + 1)
      BY <2>1
    <3>2. \A i \in 1..Len(q) : q[i] \in (a + 1)..(c + 1)
      BY <3>1, ElementOfSeq
    <3>3. Len(q) \in Nat
      BY LenProperties
    <3> HIDE DEF Holds
    <3> QED BY <3>2, <3>3
  <2>4. /\ Append(q, c + 1) \in Seq((a + 1)..(c + 1))
        /\ Len(Append(q, c + 1)) = Len(q) + 1
    <3>1. c + 1 \in (a + 1)..(c + 1)
      BY <2>1
    <3> QED BY <2>3, <3>1, AppendFacts
  <2>5. Select(P, a, c + 1) = Append(q, c + 1) \/ Select(P, a, c + 1) = q
    BY <2>1, <2>2, SelectNext
  <2> DEFINE r == Select(P, a, c + 1)
  <2> HIDE DEF r, Holds
  <2>6. r \in Seq((a + 1)..(c + 1)) /\ Len(r) <= n + 1
    <3>1. CASE r = q
      BY <2>2, <2>3, <3>1
    <3>2. CASE r = Append(q, c + 1)
      BY <2>2, <2>3, <2>4, <3>2
    <3> QED BY <2>5, <3>1, <3>2 DEF r
  <2> USE DEF r, Holds
  <2> QED BY <2>1, <2>6
<1>3. b - a \in Nat /\ a + (b - a) = b
  OBVIOUS
<1>4. b - a \in Holds
  <2> HIDE DEF Holds
  <2> QED BY <1>1, <1>2, <1>3, Induct
<1> QED BY <1>3, <1>4, LenProperties

(* The positions of two parts, and of parts with all or none.              *)
Joins(P, a, b, c) == Select(P, a, c) = Select(P, a, b) \o Select(P, b, c)

LEMMA SelectJoin ==
  ASSUME NEW P, NEW a \in Nat, NEW b \in Nat, NEW c \in Nat, a <= b, b <= c
  PROVE  Joins(P, a, b, c)
<1> DEFINE Holds == {n \in Nat : Select(P, a, b + n) =
                                  Select(P, a, b) \o Select(P, b, b + n)}
<1>0. Select(P, a, b) \in Seq(Nat)
  BY SelectNext
<1>1. 0 \in Holds
  <2>1. b + 0 = b /\ Select(P, a, b) = Select(P, a, b) \o <<>>
    BY <1>0
  <2> QED BY <2>1, SelectNone
<1>2. ASSUME NEW n \in Nat, n \in Holds PROVE n + 1 \in Holds
  <2>1. PICK d \in Nat : d = b + n /\ a <= d /\ b <= d /\ d + 1 = b + (n + 1)
    OBVIOUS
  <2>2. PICK q \in Seq(Nat) : q = Select(P, b, d)
    BY <2>1, SelectNext
  <2>3. PICK r \in Seq(Nat) : r = Select(P, a, b)
    BY <1>0
  <2>4. Select(P, a, d) = r \o q
    BY <1>2, <2>1, <2>2, <2>3
  <2>5. Append(r \o q, d + 1) = r \o Append(q, d + 1)
    <3>1. d + 1 \in Nat
      BY <2>1
    <3> HIDE DEF Holds
    <3>2. PICK x \in Nat : x = d + 1
      BY <3>1
    <3>3. AppendsToBoth(r, q, x)
      BY <3>2, AppendAssociative
    <3> QED BY <3>2, <3>3, Zenon DEF AppendsToBoth
  <2>6. CASE d + 1 \in P
    <3>1. Select(P, a, d + 1) = Append(Select(P, a, d), d + 1)
      BY <2>1, <2>6, SelectNext
    <3>2. Select(P, b, d + 1) = Append(Select(P, b, d), d + 1)
      BY <2>1, <2>6, SelectNext
    <3>3. Select(P, a, d + 1) = r \o Select(P, b, d + 1)
      BY <2>2, <2>4, <2>5, <3>1, <3>2, Zenon
    <3> QED BY <2>1, <2>3, <3>3
  <2>7. CASE d + 1 \notin P
    <3>1. Select(P, a, d + 1) = Select(P, a, d)
      BY <2>1, <2>7, SelectNext
    <3>2. Select(P, b, d + 1) = Select(P, b, d)
      BY <2>1, <2>7, SelectNext
    <3>3. Select(P, a, d + 1) = r \o Select(P, b, d + 1)
      BY <2>2, <2>4, <3>1, <3>2, Zenon
    <3> QED BY <2>1, <2>3, <3>3
  <2> QED BY <2>6, <2>7
<1>3. c - b \in Nat /\ b + (c - b) = c
  OBVIOUS
<1>4. c - b \in Holds
  <2> HIDE DEF Holds
  <2> QED BY <1>1, <1>2, <1>3, Induct
<1> QED BY <1>3, <1>4 DEF Joins

LEMMA SelectAll ==
  ASSUME NEW P, NEW a \in Nat, NEW b \in Nat, a <= b,
         \A x \in (a + 1)..b : x \in P
  PROVE  Select(P, a, b) = [i \in 1..(b - a) |-> a + i]
<1> DEFINE Holds == {n \in Nat : a + n <= b =>
                       Select(P, a, a + n) = [i \in 1..n |-> a + i]}
<1>1. 0 \in Holds
  <2>1. a + 0 = a /\ [i \in 1..0 |-> a + i] = <<>>
    OBVIOUS
  <2> QED BY <2>1, SelectNone
<1>2. ASSUME NEW n \in Nat, n \in Holds PROVE n + 1 \in Holds
  <2> SUFFICES ASSUME a + (n + 1) <= b
               PROVE  Select(P, a, a + (n + 1)) = [i \in 1..(n + 1) |-> a + i]
    OBVIOUS
  <2>1. PICK c \in Nat : c = a + n /\ a <= c /\ c + 1 = a + (n + 1) /\ c + 1 \in (a + 1)..b
    OBVIOUS
  <2>2. Select(P, a, c) = [i \in 1..n |-> a + i]
    BY <1>2, <2>1
  <2>3. Select(P, a, c + 1) = Append(Select(P, a, c), c + 1)
    BY <2>1, SelectNext
  <2>4. Append([i \in 1..n |-> a + i], c + 1) = [i \in 1..(n + 1) |-> a + i]
    BY <2>1
  <2>5. Select(P, a, c + 1) = [i \in 1..(n + 1) |-> a + i]
    BY <2>2, <2>3, <2>4, Zenon
  <2> QED BY <2>1, <2>5
<1>3. b - a \in Nat /\ a + (b - a) = b
  OBVIOUS
<1>4. b - a \in Holds
  <2> HIDE DEF Holds
  <2> QED BY <1>1, <1>2, <1>3, Induct
<1> QED BY <1>3, <1>4

LEMMA SelectNothing ==
  ASSUME NEW P, NEW a \in Nat, NEW b \in Nat, a <= b,
         \A x \in (a + 1)..b : x \notin P
  PROVE  Select(P, a, b) = <<>>
<1> DEFINE Holds == {n \in Nat : a + n <= b => Select(P, a, a + n) = <<>>}
<1>1. 0 \in Holds
  <2>1. a + 0 = a
    OBVIOUS
  <2> QED BY <2>1, SelectNone
<1>2. ASSUME NEW n \in Nat, n \in Holds PROVE n + 1 \in Holds
  <2> SUFFICES ASSUME a + (n + 1) <= b PROVE Select(P, a, a + (n + 1)) = <<>>
    OBVIOUS
  <2>1. PICK c \in Nat : c = a + n /\ a <= c /\ c + 1 = a + (n + 1) /\ c + 1 \in (a + 1)..b
    OBVIOUS
  <2>2. Select(P, a, c + 1) = Select(P, a, c)
    BY <2>1, SelectNext
  <2> QED BY <1>2, <2>1, <2>2
<1>3. b - a \in Nat /\ a + (b - a) = b
  OBVIOUS
<1>4. b - a \in Holds
  <2> HIDE DEF Holds
  <2> QED BY <1>1, <1>2, <1>3, Induct
<1> QED BY <1>3, <1>4

(* What is selected depends on the part alone.                             *)
LEMMA SelectSame ==
  ASSUME NEW P, NEW Q, NEW a \in Nat, NEW b \in Nat, a <= b,
         \A x \in (a + 1)..b : x \in P <=> x \in Q
  PROVE  Select(P, a, b) = Select(Q, a, b)
<1> DEFINE Holds == {n \in Nat : a + n <= b => Select(P, a, a + n) = Select(Q, a, a + n)}
<1>1. 0 \in Holds
  <2>1. a + 0 = a
    OBVIOUS
  <2> QED BY <2>1, SelectNone
<1>2. ASSUME NEW n \in Nat, n \in Holds PROVE n + 1 \in Holds
  <2> SUFFICES ASSUME a + (n + 1) <= b
               PROVE  Select(P, a, a + (n + 1)) = Select(Q, a, a + (n + 1))
    OBVIOUS
  <2>1. PICK c \in Nat : c = a + n /\ a <= c /\ c + 1 = a + (n + 1) /\ c + 1 \in (a + 1)..b
    OBVIOUS
  <2>2. Select(P, a, c) = Select(Q, a, c)
    BY <1>2, <2>1
  <2>3. CASE c + 1 \in P
    <3>1. Select(P, a, c + 1) = Append(Select(P, a, c), c + 1)
      BY <2>1, <2>3, SelectNext
    <3>2. c + 1 \in Q
      BY <2>1, <2>3
    <3>3. Select(Q, a, c + 1) = Append(Select(Q, a, c), c + 1)
      BY <2>1, <3>2, SelectNext
    <3>4. Select(P, a, c + 1) = Select(Q, a, c + 1)
      BY <2>2, <3>1, <3>3, Zenon
    <3> QED BY <2>1, <3>4
  <2>4. CASE c + 1 \notin P
    <3>1. Select(P, a, c + 1) = Select(P, a, c)
      BY <2>1, <2>4, SelectNext
    <3>2. c + 1 \notin Q
      BY <2>1, <2>4
    <3>3. Select(Q, a, c + 1) = Select(Q, a, c)
      BY <2>1, <3>2, SelectNext
    <3>4. Select(P, a, c + 1) = Select(Q, a, c + 1)
      BY <2>2, <3>1, <3>3, Zenon
    <3> QED BY <2>1, <3>4
  <2> QED BY <2>3, <2>4
<1>3. b - a \in Nat /\ a + (b - a) = b
  OBVIOUS
<1>4. b - a \in Holds
  <2> HIDE DEF Holds
  <2> QED BY <1>1, <1>2, <1>3, Induct
<1> QED BY <1>3, <1>4

(* Nothing is selected in the first part, or all that is is in it.         *)
LEMMA SelectFrom ==
  ASSUME NEW P, NEW a \in Nat, NEW b \in Nat, NEW c \in Nat, a <= b, b <= c,
         \A x \in (a + 1)..b : x \notin P
  PROVE  Select(P, a, c) = Select(P, b, c)
<1>1. Select(P, a, b) = <<>>
  BY SelectNothing
<1>2. Joins(P, a, b, c)
  BY SelectJoin
<1>3. Select(P, b, c) \in Seq(Nat)
  BY SelectNext
<1>4. <<>> \o Select(P, b, c) = Select(P, b, c)
  BY <1>3, ConcatEmptySeq
<1> QED BY <1>1, <1>2, <1>4, Zenon DEF Joins

(* What inflate unpacks of its input is a front of it.                     *)
LEMMA UnpackedFacts ==
  ASSUME TypeOK, NEW in \in Seq(Positions)
  PROVE  Unpacked(in) \in Seq(Positions)
<1>1. Len(in) \in Nat /\ Len(fed) \in Nat /\ Len(message.bytes) \in Nat
  BY StreamTypes, LenProperties DEF TypeOK
<1>2. Len(Deflated) \in Nat
  BY <1>1, SelectNext, LenProperties DEF Deflated
<1>3. PICK a \in Int : a = Len(in)
  BY <1>1
<1>4. PICK b \in Int : b = Len(Deflated) - Len(fed)
  BY <1>1, <1>2
<1>5. Unpacked(in) = SubSeq(in, 1, Min({a, b}))
  BY <1>3, <1>4 DEF Unpacked
<1>6. PICK m \in Int : m = Min({a, b}) /\ m <= a
  <2>1. Min({a, b}) \in {a, b} /\ Min({a, b}) <= a
    BY MinOfTwo
  <2> QED BY <2>1
<1>7. CASE m \in Nat
  BY <1>1, <1>3, <1>5, <1>6, <1>7, PartsFacts
<1>8. CASE m \notin Nat
  <2>1. 1..m = {}
    BY <1>8
  <2>2. SubSeq(in, 1, m) = <<>>
    BY <1>8, <2>1
  <2>3. <<>> \in Seq(Positions)
    OBVIOUS
  <2>4. Unpacked(in) = SubSeq(in, 1, m)
    BY <1>5, <1>6
  <2> QED BY <2>2, <2>3, <2>4, Zenon
<1> QED BY <1>7, <1>8

LEMMA InflateStep ==
  ASSUME IInv, NEW s \in StreamFields, NEW in \in Seq(Positions),
         NEW keep \in Seq(Positions), Inflate(s, in, keep)
  PROVE  IInv'
<1>0. TypeOK /\ packet \in PacketFields /\ fed \in Seq(Positions)
  BY DEF IInv, TypeOK
<1>1. CASE s.gzip_z = "ok" /\ Fits(in)
  <2>1. PICK new \in Seq(Positions) : new = Unpacked(in)
    BY <1>0, UnpackedFacts
  <2>2. /\ fed' = fed \o new
        /\ packet' = IF new = <<>> THEN packet
                     ELSE [packet EXCEPT !.l7 = keep \o new, !.own = TRUE,
                             !.l7_content_size = Len(keep) + Len(new)]
        /\ GzipDone(s)
    BY <1>1, <2>1 DEF Inflate
  <2>3. fed' \in Seq(Positions)
    BY <1>0, <2>2
  <2>4. /\ keep \o new \in Seq(Positions)
        /\ Len(keep \o new) = Len(keep) + Len(new)
        /\ Len(keep) + Len(new) \in Nat
    OBVIOUS
  <2>5. CASE new = <<>>
    <3>1. packet' \in PacketFields /\ packet'.size = packet.size
            /\ packet'.l7_content_size <= Len(packet'.l7)
      BY <1>0, <2>2, <2>5 DEF IInv, L7InBounds
    <3> QED BY <2>2, <2>3, <3>1, GzipDoneStep
  <2>6. CASE new # <<>>
    <3>1. PICK l7 \in Seq(Positions), size \in Nat :
            l7 = keep \o new /\ size = Len(keep) + Len(new) /\ Len(l7) = size
      BY <2>4
    <3>2. packet' = [packet EXCEPT !.l7 = l7, !.own = TRUE, !.l7_content_size = size]
      BY <2>2, <2>6, <3>1
    <3>3. /\ packet' \in PacketFields /\ packet'.size = packet.size
          /\ packet'.l7 = l7 /\ packet'.l7_content_size = size
      BY <1>0, <3>2 DEF PacketFields
    <3> QED BY <2>2, <2>3, <3>1, <3>3, GzipDoneStep
  <2> QED BY <2>5, <2>6
<1>2. CASE ~(s.gzip_z = "ok" /\ Fits(in))
  <2> DEFINE t == [s EXCEPT !.gzip_z = "bad"]
  <2>1. GzipDone(t) /\ packet' = packet /\ fed' = fed
    BY <1>2 DEF Inflate
  <2>2. t \in StreamFields
    BY DEF StreamFields
  <2> HIDE DEF t
  <2> QED BY <2>1, <2>2, GzipQuiet
<1> QED BY <1>1, <1>2

LEMMA InflateFromStep ==
  ASSUME IInv, NEW s \in StreamFields, NEW in \in Seq(Positions),
         NEW offset \in Nat, NEW keep,
         offset <= Len(in) => keep \in Seq(Positions),
         InflateFrom(s, in, offset, keep)
  PROVE  IInv'
<1>1. CASE offset > Len(in)
  <2> DEFINE t == [s EXCEPT !.gzip_z = "bad"]
  <2>1. GzipDone(t) /\ packet' = packet /\ fed' = fed
    BY <1>1 DEF InflateFrom, InflateWild
  <2>2. t \in StreamFields
    BY DEF StreamFields
  <2> HIDE DEF t
  <2> QED BY <2>1, <2>2, GzipQuiet
<1>2. CASE ~(offset > Len(in))
  <2>1. Inflate(s, SubSeq(in, offset + 1, Len(in)), keep)
    BY <1>2 DEF InflateFrom
  <2>2. PICK rest \in Seq(Positions) : rest = SubSeq(in, offset + 1, Len(in))
    BY PartsFacts
  <2>3. keep \in Seq(Positions)
    <3>1. Len(in) \in Nat
      BY LenProperties
    <3> QED BY <1>2, <3>1
  <2> QED BY <2>1, <2>2, <2>3, InflateStep
<1> QED BY <1>1, <1>2

LEMMA InputFacts ==
  ASSUME IInv, pc = "gzip"
  PROVE  Input \in Seq(Positions)
<1>0. TypeOK /\ L7InBounds /\ InWork
  BY DEF IInv
<1>1. /\ packet.size \in Nat /\ packet.l7 \in Seq(Positions)
      /\ packet.l7_content_size \in Nat /\ Len(packet.l7) \in Nat
  BY <1>0, StreamTypes
<1>2. /\ packet.size <= Len(packet.l7)
      /\ packet.l7_content_size <= Len(packet.l7)
  BY <1>0, <1>1 DEF InWork, L7InBounds
<1>3. PICK n \in Nat :
        /\ n = IF packet.own THEN packet.l7_content_size ELSE packet.size
        /\ n <= Len(packet.l7)
  BY <1>1, <1>2
<1>4. Input = SubSeq(packet.l7, 1, n)
  BY <1>3 DEF Input
<1> QED BY <1>1, <1>3, <1>4, PartsFacts

LEMMA GzipStep ==
  ASSUME IInv, Gzip
  PROVE  IInv'
<1>0. stream \in StreamFields /\ stream.http_header_size \in Nat
  BY StreamTypes DEF IInv, TypeOK
<1>1. ASSUME NEW s \in StreamFields
      PROVE  /\ Counted(s) \in StreamFields
             /\ [s EXCEPT !.gzip_z = "ok"] \in StreamFields
             /\ [s EXCEPT !.gzip_z = "bad"] \in StreamFields
             /\ [s EXCEPT !.l7_error = TRUE] \in StreamFields
  <2>1. PICK n \in 0..3 :
          n = IF s.gzip_only_http_header \in 1..2 THEN s.gzip_only_http_header + 1
              ELSE s.gzip_only_http_header
    BY DEF StreamFields
  <2>2. Counted(s) = [s EXCEPT !.gzip_only_http_header = n]
    BY <2>1 DEF Counted
  <2> QED BY <2>2 DEF StreamFields
<1>2. CASE SkipGzip
  BY <1>0, <1>2, GzipQuiet DEF SkipGzip
<1>3. CASE GzipHttpHeader
  <2>1. PICK s \in StreamFields : s = Counted([stream EXCEPT !.gzip_z = "ok"])
    BY <1>0, <1>1
  <2>2. GzipDone(s) /\ packet' = packet /\ fed' = fed
    BY <1>3, <2>1 DEF GzipHttpHeader
  <2> QED BY <2>2, GzipQuiet
<1>4. CASE GzipBegin
  <2>1. PICK z \in StreamFields : z = [stream EXCEPT !.gzip_z = "ok"]
    BY <1>0, <1>1
  <2>2. PICK size \in Nat : size = stream.http_header_size
    BY <1>0
  <2>3. pc = "gzip" /\ Input \in Seq(Positions)
    BY <1>4, InputFacts DEF GzipBegin, Unpacking
  <2>4. PICK in \in Seq(Positions) : in = SubSeq(Input, size + 1, Len(Input))
    BY <2>3, PartsFacts
  <2>5. PICK offset \in HeaderSizes(in) :
          IF offset = -1
          THEN /\ UNCHANGED <<packet, fed, wild>>
               /\ GzipDone([z EXCEPT !.l7_error = TRUE])
          ELSE InflateFrom(z, in, offset, SubSeq(Input, 1, size))
    BY <1>4, <2>1, <2>2, <2>4 DEF GzipBegin
  <2>6. CASE offset = -1
    <3>1. PICK s \in StreamFields : s = [z EXCEPT !.l7_error = TRUE]
      BY <1>1
    <3> QED BY <2>5, <2>6, <3>1, GzipQuiet
  <2>7. CASE offset # -1
    <3>1. offset = 2
      BY <2>5, <2>7 DEF HeaderSizes
    <3>2. 2 <= Len(in) => SubSeq(Input, 1, size) \in Seq(Positions)
      <4> SUFFICES ASSUME 2 <= Len(in), Len(Input) < size PROVE FALSE
        BY <2>3, PartsFacts, LenProperties
      <4>1. Len(Input) \in Nat
        BY <2>3, LenProperties
      <4>2. in = <<>>
        BY <2>3, <2>4, <4>1
      <4> QED BY <4>2
    <3> QED BY <2>5, <2>7, <3>1, <3>2, InflateFromStep
  <2> QED BY <2>6, <2>7
<1>5. CASE GzipSecond
  <2>1. PICK s \in StreamFields : s = Counted(stream)
    BY <1>0, <1>1
  <2>2. pc = "gzip" /\ Input \in Seq(Positions)
    BY <1>5, InputFacts DEF GzipSecond, Unpacking
  <2>3. PICK offset \in IF stream.http_compress = "GZIP" THEN HeaderSizes(Input)
                        ELSE {0} :
          IF offset = -1
          THEN /\ UNCHANGED <<packet, fed, wild>>
               /\ GzipDone([s EXCEPT !.gzip_z = "bad"])
          ELSE InflateFrom(s, Input, offset, <<>>)
    BY <1>5, <2>1 DEF GzipSecond
  <2>4. CASE offset = -1
    <3>1. PICK t \in StreamFields : t = [s EXCEPT !.gzip_z = "bad"]
      BY <1>1
    <3> QED BY <2>3, <2>4, <3>1, GzipQuiet
  <2>5. CASE offset # -1
    <3>1. offset \in Nat
      BY <2>3, <2>5 DEF HeaderSizes
    <3>2. <<>> \in Seq(Positions)
      OBVIOUS
    <3> QED BY <2>2, <2>3, <2>5, <3>1, <3>2, InflateFromStep
  <2> QED BY <2>4, <2>5
<1>6. CASE GzipContinue
  <2>1. pc = "gzip" /\ Input \in Seq(Positions) /\ Inflate(stream, Input, <<>>)
    BY <1>6, InputFacts DEF GzipContinue, Unpacking
  <2>2. <<>> \in Seq(Positions)
    OBVIOUS
  <2> QED BY <1>0, <2>1, <2>2, InflateStep
<1> QED
  BY <1>2, <1>3, <1>4, <1>5, <1>6 DEF Gzip

LEMMA NextStreamStep ==
  ASSUME IInv, NextStream
  PROVE  IInv'
<1>1. PICK m \in Messages, web \in BOOLEAN :
        message' = [bytes |-> m.bytes, role |-> m.role, web |-> web]
  BY DEF NextStream
<1>2. message'.bytes \in Seq(STRING) /\ Len(message'.bytes) \in Nat
  BY <1>1, Messages_
<1>3. /\ pc = "idle" /\ pc' = pc /\ sent' = 0 /\ stream' = NewStream
      /\ packet' = NoPacket /\ fed' = <<>>
      /\ behind' = behind /\ p' = p /\ l7_size' = l7_size
  BY DEF NextStream
<1>4. stream' \in StreamFields
  BY <1>3 DEF NewStream, StreamFields
<1>5. packet' \in PacketFields' /\ packet'.size = 0 /\ packet'.l7_content_size = 0
        /\ packet'.l7 = <<>> /\ Len(packet'.l7) = 0
  BY <1>3 DEF NoPacket, PacketFields
<1>6. fed' \in Seq(Positions')
  BY <1>3
<1>7. TypeOK'
  BY <1>2, <1>3, <1>4, <1>5, <1>6 DEF IInv, TypeOK, StreamFields
<1>8. L7InBounds' /\ InWork'
  BY <1>3, <1>5 DEF L7InBounds, InWork
<1>9. behind' \in Seq(STRING)
  BY <1>3 DEF IInv
<1> QED BY <1>2, <1>7, <1>8, <1>9 DEF IInv

LEMMA IInvIsInductive == IInv /\ [Next]_vars => IInv'
<1> SUFFICES ASSUME IInv, [Next]_vars PROVE IInv'
  OBVIOUS
<1>1. ASSUME NEW n \in 0..Len(message.bytes), NEW fin \in BOOLEAN,
             NEW mem \in Behind, Receive(n, fin, mem)
      PROVE  IInv'
  BY <1>1, ReceiveStep
<1>2. CASE SkipChunk
  BY <1>2, SkipChunkStep
<1>3. CASE Chunk
  BY <1>3, ChunkStep
<1>4. CASE Gzip
  BY <1>4, GzipStep
<1>5. CASE NextStream
  BY <1>5, NextStreamStep
<1>6. CASE UNCHANGED vars
  BY <1>6 DEF vars, IInv, TypeOK, L7InBounds, InWork, PacketFields, Positions
<1> QED
  BY <1>1, <1>2, <1>3, <1>4, <1>5, <1>6 DEF Next

-----------------------------------------------------------------------------
(* How DecodeChunk keeps in step with a message in chunks. *)

Total == Len(message.bytes)
Base == sent - packet.size  \* bytes in earlier packets

(* The message has a header of h bytes, which has been sent, and chunks.   *)
ChunksFrom(h) ==
  /\ h \in 1..sent
  /\ HasHeader(message, h) /\ InChunks(message, h)

(* There are r more bytes of data behind byte a, and then something else.  *)
IsRest(r, a) ==
  /\ r \in Nat /\ a + r <= Total
  /\ \A x \in (a + 1)..(a + r) : message.role[x] = "data"
  /\ a + r = Total \/ message.role[a + r + 1] # "data"

(* Between a and e there is at most the line end behind a chunk.           *)
Gap(a, e) ==
  /\ a <= e /\ e <= a + 2
  /\ \A x \in (a + 1)..e : message.role[x] = "crlf" /\ message.bytes[x] \in Space

(* A chunk from i to k, with the end of its line at j; the last is empty.  *)
Chunk_(i, j, k) ==
  /\ IsChunk(message, i, j, k)
  /\ k = j + 2 <=> k = Total

LEMMA ChunkFacts ==
  ASSUME NEW i \in Nat, NEW j \in Nat, NEW k \in Nat, Chunk_(i, j, k)
  PROVE  /\ i + 3 <= j /\ j + 2 <= k
         /\ IsLine(message, i, j, k - 2 - j)
         /\ \A x \in (i + 1)..j : message.role[x] = "line"
         /\ \A x \in (j + 1)..(k - 2) : message.role[x] = "data"
         /\ message.role[k - 1] = "crlf" /\ message.role[k] = "crlf"
         /\ message.bytes[k - 1] = "cr" /\ message.bytes[k] = "lf"
         /\ k = j + 2 <=> k = Total
BY DEF Chunk_, IsChunk, IsLine

(* The place behind any byte of the body is in a chunk, or the end.        *)
LEMMA ChunkAt ==
  ASSUME Total \in Nat, NEW h \in Nat \ {0}, h <= Total, InChunks(message, h),
         NEW a \in Nat, h <= a, a < Total
  PROVE  \E i \in Bounds(message, h), k \in Bounds(message, h), j \in Nat :
           i <= a /\ a < k /\ Chunk_(i, j, k)
<1> DEFINE B == Bounds(message, h)
           below == {b \in B : b <= a}
<1>1. B \subseteq h..Total /\ h \in B
  BY DEF Bounds, Total
<1> HIDE DEF B
<1>2. below \in SUBSET (1..Total) /\ h \in below
  <2>1. h..Total \subseteq 1..Total
    OBVIOUS
  <2>2. \A b \in below : b \in h..Total
    BY <1>1
  <2>3. h \in below
    BY <1>1
  <2> HIDE DEF below
  <2> QED BY <2>1, <2>2, <2>3
<1> HIDE DEF below
<1>3. Max(below) \in below /\ \A y \in below : Max(below) >= y
  BY <1>2, MaxOf
<1>4. PICK i \in B : i <= a /\ i \in Nat /\ \A y \in below : i >= y
  <2>1. PICK i \in below : \A y \in below : i >= y
    BY <1>3
  <2>2. i \in B /\ i <= a
    BY <2>1 DEF below
  <2> QED BY <1>1, <2>1, <2>2
<1>5. i \in B \ {Total}
  BY <1>4
<1>6. PICK k \in B : \E j \in i..k : Chunk_(i, j, k)
  BY <1>5 DEF InChunks, B, Total, Chunk_
<1>7. PICK j \in i..k : Chunk_(i, j, k)
  BY <1>6
<1>8. k \in Nat /\ j \in Nat
  BY <1>1, <1>4
<1>9. i < k
  BY <1>4, <1>7, <1>8, ChunkFacts
<1>10. a < k
  <2>1. SUFFICES ASSUME k <= a PROVE FALSE
    BY <1>8
  <2>2. k \in below
    BY <2>1 DEF below
  <2> QED BY <1>4, <1>8, <1>9, <2>2
<1> QED BY <1>4, <1>7, <1>8, <1>10 DEF B

(* A packet that does not cut a line leaves chunk_offset_ bytes, and then  *)
(* perhaps the end of a chunk.  If what it leaves is in a chunk with data  *)
(* or behind the header, the end of that chunk is not yet the last.        *)
LEMMA RestAt ==
  ASSUME Total \in Nat, NEW h \in Nat \ {0}, h <= Total, InChunks(message, h),
         HasHeader(message, h),
         NEW a \in Nat, h <= a, a < Total, ~InLine(a), NEW r, IsRest(r, a)
  PROVE  /\ r \in Nat
         /\ \E e \in Bounds(message, h) :
              /\ Gap(a + r, e)
              /\ (message.bytes[a] = "end" \/ InData(a)) => e # Total
<1>1. PICK i \in Bounds(message, h), k \in Bounds(message, h), j \in Nat :
        i <= a /\ a < k /\ Chunk_(i, j, k)
  BY ChunkAt
<1>2. /\ i \in Nat /\ h <= i /\ k \in Nat /\ k <= Total
  BY <1>1 DEF Bounds, Total
<1>3. /\ i + 3 <= j /\ j + 2 <= k
      /\ \A x \in (i + 1)..j : message.role[x] = "line"
      /\ \A x \in (j + 1)..(k - 2) : message.role[x] = "data"
      /\ message.role[k - 1] = "crlf" /\ message.role[k] = "crlf"
      /\ message.bytes[k - 1] = "cr" /\ message.bytes[k] = "lf"
      /\ k = j + 2 <=> k = Total
  BY <1>1, <1>2, ChunkFacts
<1>4. /\ r \in Nat /\ a + r <= Total
      /\ \A x \in (a + 1)..(a + r) : message.role[x] = "data"
      /\ a + r = Total \/ message.role[a + r + 1] # "data"
  BY DEF IsRest
<1>5. a > h => message.bytes[a] # "end"
  BY DEF HasHeader, Total
<1>6. CASE a = i
  <2>1. message.role[a + 1] = "line"
    BY <1>2, <1>3, <1>6
  <2>2. r = 0
    BY <1>4, <2>1
  <2>3. Gap(a + r, i) /\ i # Total
    BY <1>1, <1>2, <1>6, <2>2 DEF Gap
  <2> QED BY <1>1, <1>4, <2>3
<1>7. CASE a # i
  <2>1. j <= a
    <3> SUFFICES ASSUME a < j PROVE FALSE
      BY <1>1, <1>2
    <3>1. a \in (i + 1)..j /\ a + 1 \in (i + 1)..j
      BY <1>1, <1>2, <1>7
    <3> QED BY <1>3, <3>1 DEF InLine
  <2>2. a > h
    BY <1>2, <1>3, <2>1
  <2>3. CASE a <= k - 2
    <3>1. r = k - 2 - a
      <4>1. ~(r > k - 2 - a)
        <5> SUFFICES ASSUME r > k - 2 - a PROVE FALSE
          OBVIOUS
        <5>1. k - 1 \in (a + 1)..(a + r)
          BY <1>2, <1>4, <2>3
        <5> QED BY <1>3, <1>4, <5>1
      <4>2. ~(r < k - 2 - a)
        <5> SUFFICES ASSUME r < k - 2 - a PROVE FALSE
          OBVIOUS
        <5>1. a + r + 1 \in (j + 1)..(k - 2) /\ a + r # Total
          BY <1>2, <1>4, <2>1
        <5> QED BY <1>3, <1>4, <5>1
      <4> QED BY <1>2, <1>4, <4>1, <4>2
    <3>2. Gap(a + r, k)
      <4>1. a + r = k - 2
        BY <1>2, <1>4, <3>1
      <4>2. \A x \in (k - 1)..k : x = k - 1 \/ x = k
        BY <1>2
      <4> QED BY <1>2, <1>3, <4>1, <4>2 DEF Gap, Space
    <3>3. InData(a) => k # Total
      <4> SUFFICES ASSUME InData(a), k = Total PROVE FALSE
        OBVIOUS
      <4>1. a = j /\ a + 1 = k - 1
        BY <1>2, <1>3, <2>1, <2>3
      <4> QED BY <1>3, <4>1 DEF InData
    <3> QED BY <1>1, <1>4, <1>5, <2>2, <3>2, <3>3
  <2>4. CASE a = k - 1
    <3>1. message.role[a + 1] = "crlf"
      BY <1>2, <1>3, <2>4
    <3>2. r = 0
      BY <1>4, <3>1
    <3>3. \A x \in (a + 1)..k : x = k
      BY <1>2, <2>4
    <3>4. Gap(a + r, k)
      BY <1>2, <1>3, <2>4, <3>2, <3>3 DEF Gap, Space
    <3>5. ~InData(a)
      BY <3>1 DEF InData
    <3> QED BY <1>1, <1>4, <1>5, <2>2, <3>4, <3>5
  <2> QED BY <1>1, <1>2, <2>3, <2>4
<1> QED BY <1>6, <1>7

(* What strtol and the loop read of a line that is all in the packet. *)

LEMMA ContentIs ==
  ASSUME packet.size \in Nat, sent \in Nat, packet.size <= sent,
         NEW c \in Nat, c < packet.size
  PROVE  Content(c) = message.bytes[Base + c + 1]
<1>1. (sent - packet.size) + c + 1 = Base + c + 1
  BY DEF Base
<1> QED BY <1>1 DEF Content, Byte

LEMMA AfterIs ==
  ASSUME packet.size \in Nat, behind \in Seq(STRING), NEW i \in Nat, NEW S,
         NEW x \in Nat, i <= x, x = i \/ x <= packet.size,
         \A c \in i..(x - 1) : Content(c) \in S, Content(x) \notin S
  PROVE  After(i, S) = x
<1> DEFINE end == Max({i, packet.size + Len(behind)})
           places == {c \in i..end : Content(c) \notin S}
<1>1. end \in Nat /\ x <= end
  <2>1. PICK n \in Nat : n = packet.size + Len(behind) /\ n >= packet.size
    BY LenProperties
  <2>2. Max({i, n}) \in {i, n} /\ Max({i, n}) >= i /\ Max({i, n}) >= n
    <3>1. i \in Int /\ n \in Int
      OBVIOUS
    <3> QED BY <3>1, MaxOfTwo
  <2>3. end = Max({i, n})
    BY <2>1
  <2> HIDE DEF end
  <2>4. end \in Nat /\ end >= i /\ end >= n
    BY <2>2, <2>3
  <2> QED BY <2>1, <2>4
<1>2. After(i, S) = Min(places)
  BY DEF After
<1> HIDE DEF end
<1>3. places \in SUBSET Nat /\ x \in places
  BY <1>1
<1>4. \A c \in places : c >= x
  BY <1>1
<1> HIDE DEF places
<1>5. Min(places) \in places /\ \A c \in places : Min(places) <= c
  BY <1>3, MinFacts
<1>6. PICK c \in places : c = Min(places) /\ c <= x
  BY <1>3, <1>5
<1>7. c \in Nat /\ c >= x
  BY <1>3, <1>4
<1> QED BY <1>2, <1>6, <1>7

(* The number of a line's digits, one after the other.                     *)
IsNumber(f, m, i, j) ==
  /\ f \in [i..j -> Nat] /\ f[i] = 0
  /\ \A k \in (i + 1)..j : f[k] = f[k - 1] * Len(Digits) + DigitValue(m.bytes[k])

LEMMA NumberRun ==
  ASSUME NEW m, NEW i \in Nat, NEW j \in Nat, i <= j,
         \A k \in (i + 1)..j : DigitValue(m.bytes[k]) \in Nat
  PROVE  \E f : IsNumber(f, m, i, j) /\ Number(m, i, j) = f[j]
<1> DEFINE N == Len(Digits)
           V(k) == DigitValue(m.bytes[k])
           W == [k \in (i + 1)..j |-> V(k)]
           upTo[k \in i..j] == IF k = i THEN 0 ELSE upTo[k - 1] * N + V(k)
<1>0. Number(m, i, j) = upTo[j]
  BY DEF Number
<1> HIDE DEF N, V
<1>1. PICK f : /\ f \in [i..j -> Nat] /\ f[i] = 0
               /\ \A k \in (i + 1)..j : f[k] = f[k - 1] * N + V(k)
  <2>1. W \in [(i + 1)..j -> Nat]
    BY DEF V
  <2>2. \A k \in (i + 1)..j : W[k] = V(k)
    OBVIOUS
  <2> HIDE DEF W
  <2>3. PICK f : Adds(f, W, i, j)
    BY <2>1, ValueRun
  <2> QED BY <2>2, <2>3 DEF Adds, N
<1>2. f = [k \in i..j |-> IF k = i THEN 0 ELSE f[k - 1] * N + V(k)]
  <2>1. ASSUME NEW k \in i..j
        PROVE  f[k] = IF k = i THEN 0 ELSE f[k - 1] * N + V(k)
    BY <1>1
  <2> QED BY <1>1, <2>1
<1>3. upTo = [k \in i..j |-> IF k = i THEN 0 ELSE upTo[k - 1] * N + V(k)]
  <2>1. upTo = CHOOSE g : g = [k \in i..j |-> IF k = i THEN 0 ELSE g[k - 1] * N + V(k)]
    OBVIOUS
  <2> HIDE DEF upTo
  <2> QED BY <1>2, <2>1
<1> HIDE DEF upTo
<1>4. \A k \in i..j : upTo[k] = IF k = i THEN 0 ELSE upTo[k - 1] * N + V(k)
  BY <1>3
<1> DEFINE Step == [k \in (i + 1)..j |->
                      [x \in {upTo[l] : l \in i..j} \cup Nat |-> x * N + V(k)]]
<1>5. Follows(upTo, Step, i, j)
  <2> SUFFICES ASSUME NEW k \in (i + 1)..j PROVE upTo[k] = Step[k][upTo[k - 1]]
    BY DEF Follows
  <2>1. k \in i..j /\ k # i /\ k - 1 \in i..j
    OBVIOUS
  <2> QED BY <1>4, <2>1
<1>6. Follows(f, Step, i, j)
  BY <1>1 DEF Follows
<1> HIDE DEF Step
<1>7. upTo[j] = f[j]
  <2>1. upTo[i] = f[i]
    BY <1>1, <1>4
  <2>2. \A k \in i..j : upTo[k] = f[k]
    BY <1>5, <1>6, <2>1, RunUnique
  <2> QED BY <2>2
<1>8. IsNumber(f, m, i, j)
  BY <1>1 DEF IsNumber, N, V
<1> QED BY <1>0, <1>7, <1>8

LEMMA ReadLine ==
  ASSUME IInv, pc = "chunk", NEW e \in Nat, NEW j \in Nat, NEW n,
         Gap(Base + p, e), IsLine(message, e, j, n), j <= sent
  PROVE  /\ Line.value = n /\ Line.nonnum = j - 2 - Base
         /\ AfterLine(Line.nonnum) = j - Base
<1>0. /\ packet.size \in Nat /\ packet.size <= sent /\ sent \in Nat
      /\ behind \in Seq(STRING) /\ p \in Nat
  <2>1. TypeOK /\ InWork /\ behind \in Seq(STRING)
    BY DEF IInv
  <2> QED BY <2>1, StreamTypes DEF InWork
<1>1. PICK b \in Nat : b = Base /\ b + packet.size = sent
  BY <1>0 DEF Base
<1>2. /\ e + 3 <= j
      /\ \A k \in (e + 1)..(j - 2) : message.bytes[k] \in ToSet(Digits)
      /\ message.bytes[j - 1] = "cr" /\ message.bytes[j] = "lf"
      /\ Number(message, e, j - 2) = n
  BY DEF IsLine
<1>3. /\ b + p <= e
      /\ \A x \in (b + p + 1)..e : message.bytes[x] \in Space
  BY <1>1 DEF Gap
<1>4. ASSUME NEW c \in Nat, c < packet.size PROVE Content(c) = message.bytes[b + c + 1]
  BY <1>0, <1>1, <1>4, ContentIs
<1>5. PICK first \in Nat : first = e - b /\ p <= first
  BY <1>0, <1>1, <1>3
<1>6. PICK last \in Nat : last = j - 2 - b /\ first < last
  BY <1>1, <1>2, <1>5
<1>7. first < last /\ last + 2 <= packet.size /\ p <= first
  BY <1>0, <1>1, <1>5, <1>6
<1>8. ToSet(Digits) \cap {"nul", "cr", "lf"} = {}
  BY MemoryAssumption
<1>9. \A c \in first..(last - 1) : Content(c) \in ToSet(Digits)
  <2> TAKE c \in first..(last - 1)
  <2>1. b + c + 1 \in (e + 1)..(j - 2)
    BY <1>1, <1>5, <1>6, <1>7
  <2>2. c \in Nat /\ c < packet.size
    BY <1>0, <1>7
  <2> QED BY <1>2, <1>4, <2>1, <2>2
<1>10. After(p, Space) = first
  <2>1. \A c \in p..(first - 1) : Content(c) \in Space
    <3> TAKE c \in p..(first - 1)
    <3>1. b + c + 1 \in (b + p + 1)..e
      BY <1>0, <1>1, <1>5
    <3>2. c \in Nat /\ c < packet.size
      BY <1>0, <1>7
    <3> QED BY <1>3, <1>4, <3>1, <3>2
  <2>2. Content(first) \notin Space
    <3>1. first \in first..(last - 1)
      BY <1>7
    <3> QED BY <1>8, <1>9, <3>1 DEF Space
  <2>3. p <= first /\ first <= packet.size
    BY <1>0, <1>7
  <2> QED BY <1>0, <2>1, <2>2, <2>3, AfterIs
<1>11. After(first, ToSet(Digits)) = last
  <2>1. Content(last) = "cr"
    <3>1. b + last + 1 = j - 1
      BY <1>1, <1>2, <1>6
    <3>2. last < packet.size
      BY <1>0, <1>7
    <3> QED BY <1>2, <1>4, <3>1, <3>2
  <2>2. Content(last) \notin ToSet(Digits) /\ first <= last /\ last <= packet.size
    BY <1>0, <1>7, <1>8, <2>1
  <2> QED BY <1>0, <1>9, <2>2, AfterIs
<1> DEFINE value[k \in first..last] ==
             IF k = first THEN 0
             ELSE value[k - 1] * Len(Digits) + DigitValue(Content(k - 1))
<1>12. Line = [value |-> value[last], nonnum |-> IF last = first THEN p ELSE last]
  BY <1>10, <1>11, Zenon DEF Line, Strtol
<1>13. \A k \in (first + 1)..last :
         /\ DigitValue(Content(k - 1)) \in Nat
         /\ Content(k - 1) = message.bytes[b + k]
  <2> TAKE k \in (first + 1)..last
  <2>1. k - 1 \in first..(last - 1) /\ k - 1 \in Nat /\ k - 1 < packet.size
    BY <1>0, <1>7
  <2>2. b + (k - 1) + 1 = b + k
    BY <1>1
  <2> QED BY <1>4, <1>9, <2>1, <2>2, DigitValueFacts
<1>14. /\ value \in [first..last -> Nat] /\ value[first] = 0
       /\ \A k \in (first + 1)..last :
            value[k] = value[k - 1] * Len(Digits) + DigitValue(Content(k - 1))
  <2>1. first <= last
    BY <1>7
  <2>2. \A k \in (first + 1)..last : DigitValue(Content(k - 1)) \in Nat
    BY <1>13
  <2> QED BY ONLY first \in Nat, last \in Nat, <2>1, <2>2, ValueFacts
<1> HIDE DEF value
<1>15. PICK f : IsNumber(f, message, e, j - 2) /\ n = f[j - 2]
  <2>1. e <= j - 2 /\ j - 2 \in Nat
    BY <1>2
  <2>2. \A k \in (e + 1)..(j - 2) : DigitValue(message.bytes[k]) \in Nat
    BY <1>2, DigitValueFacts
  <2>3. PICK f : IsNumber(f, message, e, j - 2) /\ Number(message, e, j - 2) = f[j - 2]
    BY <2>1, <2>2, NumberRun
  <2> QED BY <1>2, <2>3
<1>16. value[last] = n
  <2> DEFINE N == Len(Digits)
             V(k) == DigitValue(Content(k - 1))
             Step == [k \in (first + 1)..last |-> [x \in Nat |-> x * N + V(k)]]
             g == [k \in first..last |-> f[b + k]]
  <2> HIDE DEF N
  <2>1. /\ f \in [e..(j - 2) -> Nat] /\ f[e] = 0
        /\ \A k \in (e + 1)..(j - 2) :
             f[k] = f[k - 1] * N + DigitValue(message.bytes[k])
    BY <1>15 DEF IsNumber, N
  <2>2. g[first] = 0 /\ g[last] = n
    <3>1. b + first = e /\ b + last = j - 2
      BY <1>1, <1>3, <1>5, <1>6
    <3>2. first \in first..last /\ last \in first..last
      BY <1>7
    <3>3. g[first] = f[e] /\ g[last] = f[j - 2]
      BY <3>1, <3>2
    <3> QED BY <1>15, <2>1, <3>3
  <2>3. ASSUME NEW k \in (first + 1)..last
        PROVE  g[k - 1] \in Nat /\ g[k] = g[k - 1] * N + V(k)
    <3>1. PICK l \in Nat : l = b + k /\ l - 1 = b + (k - 1)
      BY <1>1
    <3>2. l \in (e + 1)..(j - 2) /\ l - 1 \in e..(j - 2)
      BY <1>1, <1>5, <1>6, <3>1
    <3>3. g[k] = f[l] /\ g[k - 1] = f[l - 1]
      BY <3>1
    <3>4. V(k) = DigitValue(message.bytes[l])
      BY <1>13, <3>1
    <3> HIDE DEF g, V
    <3> QED BY <2>1, <3>2, <3>3, <3>4
  <2>4. Follows(g, Step, first, last)
    <3> SUFFICES ASSUME NEW k \in (first + 1)..last PROVE g[k] = Step[k][g[k - 1]]
      BY DEF Follows
    <3> HIDE DEF g, V
    <3> QED BY <2>3
  <2>5. Follows(value, Step, first, last)
    <3> SUFFICES ASSUME NEW k \in (first + 1)..last PROVE value[k] = Step[k][value[k - 1]]
      BY DEF Follows
    <3>1. value[k - 1] \in Nat /\ value[k] = value[k - 1] * N + V(k)
      BY <1>14 DEF N
    <3> HIDE DEF V
    <3> QED BY <3>1
  <2> HIDE DEF g, Step
  <2>6. value[first] = g[first]
    BY <1>14, <2>2
  <2>7. \A k \in first..last : value[k] = g[k]
    BY <2>4, <2>5, <2>6, RunUnique
  <2> QED BY <1>7, <2>2, <2>7
<1>17. Line.value = n /\ Line.nonnum = last
  BY <1>7, <1>12, <1>16
<1>18. Content(last) = "cr" /\ Content(last + 1) = "lf"
  <2>1. b + last + 1 = j - 1 /\ b + (last + 1) + 1 = j
    BY <1>1, <1>2, <1>6
  <2>2. last < packet.size /\ last + 1 < packet.size /\ last + 1 \in Nat
    BY <1>0, <1>7
  <2> QED BY <1>2, <1>4, <2>1, <2>2
<1>19. AfterLine(last) = last + 2
  BY <1>18 DEF AfterLine
<1> QED BY <1>1, <1>6, <1>17, <1>19

(* Nothing is read behind the last chunk line that begins in the packet.   *)
LEMMA ReadNothing ==
  ASSUME IInv, pc = "chunk", NEW e \in Nat, Gap(Base + p, e), sent <= e,
         ToSet(behind) \cap ToSet(Digits) = {}
  PROVE  Line.value = 0 /\ Line.nonnum = p
<1>0. /\ packet.size \in Nat /\ packet.size <= sent /\ sent \in Nat
      /\ behind \in Seq(STRING) /\ p \in Nat
  <2>1. TypeOK /\ InWork /\ behind \in Seq(STRING)
    BY DEF IInv
  <2> QED BY <2>1, StreamTypes DEF InWork
<1>1. PICK b \in Nat : b = Base /\ b + packet.size = sent
  BY <1>0 DEF Base
<1>2. \A x \in (b + p + 1)..e : message.bytes[x] \in Space
  BY <1>1 DEF Gap
<1>3. ToSet(Digits) \cap {"nul", "cr", "lf"} = {}
  BY MemoryAssumption
<1>4. ASSUME NEW c \in Nat, p <= c PROVE Content(c) \notin ToSet(Digits)
  <2>1. CASE c < packet.size
    <3>1. Content(c) = message.bytes[b + c + 1]
      BY <1>0, <1>1, <2>1, ContentIs
    <3>2. b + c + 1 \in (b + p + 1)..e
      BY <1>0, <1>1, <1>4, <2>1
    <3> QED BY <1>2, <1>3, <3>1, <3>2 DEF Space
  <2>2. CASE c - packet.size < Len(behind) /\ ~(c < packet.size)
    <3>1. Content(c) = behind[c - packet.size + 1]
      BY <2>2 DEF Content, Byte
    <3>2. c - packet.size + 1 \in 1..Len(behind)
      BY <1>0, <2>2, LenProperties
    <3>3. Content(c) \in ToSet(behind)
      BY <3>1, <3>2 DEF ToSet
    <3> QED BY <3>3
  <2>3. CASE ~(c - packet.size < Len(behind)) /\ ~(c < packet.size)
    <3>1. Content(c) = "nul"
      BY <2>3 DEF Content, Byte
    <3> QED BY <1>3, <3>1
  <2> QED BY <2>1, <2>2, <2>3
<1>5. PICK first \in Nat : first = After(p, Space) /\ p <= first
  <2>1. "nul" \notin Space
    BY DEF Space
  <2> QED BY <1>0, <2>1, AfterFacts
<1>6. After(first, ToSet(Digits)) = first
  <2>1. Content(first) \notin ToSet(Digits)
    BY <1>4, <1>5
  <2>2. first..(first - 1) = {}
    OBVIOUS
  <2> QED BY <1>0, <2>1, <2>2, AfterIs
<1> DEFINE value[k \in first..first] ==
             IF k = first THEN 0
             ELSE value[k - 1] * Len(Digits) + DigitValue(Content(k - 1))
<1>7. Line = [value |-> value[first], nonnum |-> IF first = first THEN p ELSE first]
  BY <1>5, <1>6, Zenon DEF Line, Strtol
<1>8. value[first] = 0
  <2>1. (first + 1)..first = {} /\ first <= first
    OBVIOUS
  <2> QED BY <2>1, ValueFacts
<1> HIDE DEF value
<1> QED BY <1>7, <1>8

-----------------------------------------------------------------------------
(* What is in front of the buffer. *)

Decoded == With({"head", "data"})

(* The first n are the positions of the header and of data up to a.        *)
Filled(n, a) == SubSeq(packet.l7, 1, n) = Select(Decoded, Base, a)

LEMMA DecodedIs ==
  ASSUME NEW x \in Nat, 1 <= x, x <= Total, Total \in Nat
  PROVE  x \in Decoded <=> message.role[x] \in {"head", "data"}
BY DEF Decoded, With, Positions, Total

(* Between two chunks there is nothing to decode.                          *)
LEMMA NothingBetween ==
  ASSUME NEW a \in Nat, NEW b \in Nat, a <= b, b <= Total, Total \in Nat,
         NEW c \in Nat, c <= a,
         \A x \in (a + 1)..b : message.role[x] \in {"line", "crlf"}
  PROVE  Select(Decoded, c, b) = Select(Decoded, c, a)
<1>1. \A x \in (a + 1)..b : x \notin Decoded
  <2> TAKE x \in (a + 1)..b
  <2>1. x \in Nat /\ 1 <= x /\ x <= Total
    OBVIOUS
  <2> QED BY <2>1, DecodedIs
<1>2. Select(Decoded, a, b) = <<>>
  BY <1>1, SelectNothing
<1>3. Joins(Decoded, c, a, b)
  BY SelectJoin
<1>4. Select(Decoded, c, a) \in Seq(Nat)
  BY SelectNext
<1>5. Select(Decoded, c, a) \o <<>> = Select(Decoded, c, a)
  BY <1>4, ConcatEmptySeq
<1> QED BY <1>2, <1>3, <1>5, Zenon DEF Joins

(* Within the header or a chunk everything is decoded.                     *)
LEMMA AllWithin ==
  ASSUME NEW a \in Nat, NEW b \in Nat, a <= b, b <= Total, Total \in Nat,
         \A x \in (a + 1)..b : message.role[x] \in {"head", "data"}
  PROVE  Select(Decoded, a, b) = [i \in 1..(b - a) |-> a + i]
<1>1. \A x \in (a + 1)..b : x \in Decoded
  <2> TAKE x \in (a + 1)..b
  <2>1. x \in Nat /\ 1 <= x /\ x <= Total
    OBVIOUS
  <2> QED BY <2>1, DecodedIs
<1> QED BY <1>1, SelectAll

LEMMA CopiedFront ==
  ASSUME IInv, pc = "chunk", NEW from \in Nat, NEW k \in Nat,
         p <= from, from + k <= packet.size
  PROVE  SubSeq(Copied(from, k), 1, l7_size + k) =
           SubSeq(packet.l7, 1, l7_size) \o [i \in 1..k |-> (Base + from) + i]
<1>0. TypeOK /\ L7InBounds /\ InWork
  BY DEF IInv
<1>1. /\ packet.size \in Nat /\ packet.l7 \in Seq(Positions)
      /\ sent \in Nat /\ sent <= Len(message.bytes) /\ Len(message.bytes) \in Nat
      /\ p \in Nat /\ l7_size \in Nat
  BY <1>0, StreamTypes
<1>2. Len(packet.l7) = packet.size /\ packet.size <= sent /\ l7_size <= p
  BY <1>0 DEF InWork, L7InBounds
<1>3. PICK b \in Nat : b = Base /\ b = sent - packet.size
  BY <1>1, <1>2 DEF Base
<1>4. PICK n \in Nat : n = l7_size + k /\ n <= packet.size /\ l7_size <= n
  BY <1>1, <1>2
<1>5. PICK old \in Seq(Positions) : old = packet.l7 /\ Len(old) = packet.size
  BY <1>1, <1>2
<1>6. PICK new \in Seq(Positions) : new = Copied(from, k) /\ Len(new) = packet.size
  BY CopiedFacts
<1>7. \A i \in 1..packet.size :
        new[i] = IF i \in (l7_size + 1)..(l7_size + k)
                 THEN b + from + (i - l7_size) ELSE old[i]
  BY <1>2, <1>3, <1>5, <1>6 DEF Copied
<1> DEFINE added == [i \in 1..k |-> (b + from) + i]
           q == SubSeq(new, 1, n)
           r == SubSeq(old, 1, l7_size)
<1>8. /\ q \in Seq(Positions) /\ Len(q) = n
      /\ \A i \in 1..n : q[i] = new[i]
  BY <1>4, <1>6, FrontFacts
<1>9. /\ r \in Seq(Positions) /\ Len(r) = l7_size
      /\ \A i \in 1..l7_size : r[i] = old[i]
  BY <1>1, <1>4, <1>5, FrontFacts
<1>10. added \in Seq(Positions) /\ Len(added) = k
         /\ \A i \in 1..k : added[i] = (b + from) + i
  <2>1. ASSUME NEW i \in 1..k PROVE (b + from) + i \in Positions
    <3>0. b + packet.size = sent
      BY <1>1, <1>3
    <3>1. (b + from) + i <= sent /\ 1 <= (b + from) + i /\ (b + from) + i \in Nat
      BY <1>1, <3>0
    <3> QED BY <1>1, <3>1 DEF Positions
  <2> QED BY <2>1
<1> HIDE DEF added, q, r
<1>11. /\ r \o added \in Seq(Positions) /\ Len(r \o added) = n
       /\ \A i \in 1..n : (r \o added)[i] = IF i <= l7_size THEN r[i] ELSE added[i - l7_size]
  <2>1. /\ r \o added \in Seq(Positions)
        /\ Len(r \o added) = Len(r) + Len(added)
        /\ \A i \in 1..(Len(r) + Len(added)) : (r \o added)[i] =
              IF i <= Len(r) THEN r[i] ELSE added[i - Len(r)]
    BY <1>9, <1>10, ConcatProperties
  <2> QED BY <1>4, <1>9, <1>10, <2>1
<1> DEFINE t == r \o added
<1> HIDE DEF t
<1>12. ASSUME NEW i \in 1..n PROVE q[i] = t[i]
  <2>1. i \in 1..packet.size
    BY <1>1, <1>4
  <2>2. CASE i <= l7_size
    <3>1. i \in 1..l7_size /\ i \notin (l7_size + 1)..(l7_size + k)
      BY <1>1, <1>4, <2>2
    <3>2. q[i] = old[i] /\ t[i] = r[i] /\ r[i] = old[i]
      BY <1>7, <1>8, <1>9, <1>11, <2>1, <2>2, <3>1 DEF t
    <3> QED BY <3>2
  <2>3. CASE ~(i <= l7_size)
    <3>1. i \in (l7_size + 1)..(l7_size + k)
      BY <1>1, <1>4, <2>3
    <3>2. PICK l \in 1..k : l = i - l7_size
      BY <1>1, <3>1
    <3>3. q[i] = b + from + l
      BY <1>7, <1>8, <2>1, <3>1, <3>2
    <3>4. t[i] = added[l]
      BY <1>11, <2>3, <3>2 DEF t
    <3> QED BY <1>10, <3>3, <3>4
  <2> QED BY <2>2, <2>3
<1>13. q = t
  <2>1. t \in Seq(Positions) /\ Len(q) = Len(t) /\ \A i \in 1..Len(q) : q[i] = t[i]
    BY <1>8, <1>11, <1>12 DEF t
  <2> QED BY <1>8, <2>1, SeqEqual
<1> QED BY <1>3, <1>4, <1>5, <1>6, <1>13, Zenon DEF q, r, t, added

(* A copy of k bytes of a chunk, which begin behind byte c, is appended.   *)
LEMMA CopiedFilled ==
  ASSUME IInv, pc = "chunk", NEW from \in Nat, NEW k \in Nat,
         p <= from, from + k <= packet.size, Filled(l7_size, Base + p),
         \A x \in (Base + p + 1)..(Base + from) : message.role[x] \in {"line", "crlf"},
         \A x \in (Base + from + 1)..(Base + from + k) : message.role[x] = "data"
  PROVE  SubSeq(Copied(from, k), 1, l7_size + k) =
           Select(Decoded, Base, Base + from + k)
<1>0. TypeOK /\ L7InBounds /\ InWork
  BY DEF IInv
<1>1. /\ packet.size \in Nat /\ sent \in Nat /\ sent <= Total /\ Total \in Nat
      /\ p \in Nat /\ l7_size \in Nat /\ packet.size <= sent
  BY <1>0, StreamTypes DEF InWork, Total
<1>2. PICK b \in Nat : b = Base /\ b + packet.size = sent
  BY <1>1 DEF Base
<1>3. PICK a \in Nat : a = b + p /\ b <= a
  BY <1>1
<1>4. PICK c \in Nat : c = b + from /\ a <= c /\ b <= c
  BY <1>1, <1>3
<1>5. PICK d \in Nat : d = b + from + k /\ c <= d /\ d <= Total /\ d - c = k
  BY <1>1, <1>2, <1>4
<1>6. Select(Decoded, b, c) = Select(Decoded, b, a)
  <2>1. \A x \in (a + 1)..c : message.role[x] \in {"line", "crlf"}
    BY <1>2, <1>3, <1>4
  <2>2. c <= Total
    BY <1>1, <1>5
  <2> QED BY <1>1, <1>3, <1>4, <2>1, <2>2, NothingBetween
<1>7. Select(Decoded, c, d) = [i \in 1..(d - c) |-> c + i]
  <2>1. \A x \in (c + 1)..d : message.role[x] \in {"head", "data"}
    BY <1>2, <1>4, <1>5
  <2> QED BY <1>1, <1>5, <2>1, AllWithin
<1>8. Joins(Decoded, b, c, d)
  BY <1>4, <1>5, SelectJoin
<1>9. SubSeq(Copied(from, k), 1, l7_size + k) =
        SubSeq(packet.l7, 1, l7_size) \o [i \in 1..k |-> (Base + from) + i]
  BY CopiedFront
<1>10. SubSeq(packet.l7, 1, l7_size) = Select(Decoded, b, a)
  BY <1>2, <1>3 DEF Filled
<1>11. SubSeq(Copied(from, k), 1, l7_size + k) =
         Select(Decoded, b, a) \o [i \in 1..k |-> c + i]
  BY <1>2, <1>4, <1>9, <1>10, Zenon
<1>12. Select(Decoded, c, d) = [i \in 1..k |-> c + i]
  BY <1>5, <1>7, Zenon
<1>13. Select(Decoded, b, d) = Select(Decoded, b, a) \o [i \in 1..k |-> c + i]
  BY <1>6, <1>8, <1>12, Zenon DEF Joins
<1> QED BY <1>2, <1>5, <1>11, <1>13, Zenon

-----------------------------------------------------------------------------
(* The invariant. *)

(* DecodeChunk is to begin: it goes on at chunk_offset_, or the header.    *)
AtStart(h) ==
  /\ packet.size > 0
  /\ packet.l7 = [i \in 1..packet.size |-> Base + i]
  /\ packet.l7_content_size = packet.size
  /\ stream.state = "BEGIN" => Base = 0 /\ stream.http_header_size = h
  /\ stream.state # "BEGIN" =>
       /\ stream.state = "CONTINUE" /\ h <= Base /\ ~InLine(Base)
       /\ IsRest(stream.chunk_offset, Base)
       /\ past.tight = TRUE => message.bytes[Base] = "end" \/ InData(Base)

(* The loop is at byte a of the message: the line of a chunk begins there  *)
(* or behind the end of a chunk, which may be the last only if the packet  *)
(* ends between chunks.                                                    *)
AtChunk(h, a) ==
  /\ packet.l7_content_size = packet.size /\ l7_size <= packet.size
  /\ \E e \in Bounds(message, h) : Gap(a, e) /\ (past.tight = TRUE => e # Total)
  /\ sent < a => Gap(sent, a)
  /\ Filled(l7_size, a)

(* DecodeChunk has ended; unless the content has been unpacked, what is    *)
(* decoded is in front of the buffer.                                      *)
AtEnd ==
  /\ IsRest(stream.chunk_offset, sent)
  /\ pc = "gzip" \/ stream.http_compress = "NONE" =>
       \E n \in Nat :
         /\ n <= packet.l7_content_size /\ Filled(n, sent)
         /\ past.tight = TRUE => n = packet.l7_content_size

NoDigitBehind == ToSet(behind) \cap ToSet(Digits) = {}

InStep(h) ==
  /\ ChunksFrom(h)
  /\ sent = Total \/ ~InLine(sent)
  /\ past.tight = TRUE => Tight(sent)
  /\ pc # "idle" => NoDigitBehind
  /\ pc = "start" => AtStart(h)
  /\ pc = "chunk" => AtChunk(h, Base + p)
  /\ pc \in {"idle", "gzip"} => AtEnd

(* The decoder claims to be in step.                                       *)
Live == stream.http_chunked = TRUE /\ stream.state # "END" /\ past.aligned = TRUE

ChunkInv ==
  /\ \E m \in Messages, web \in BOOLEAN :
       message = [bytes |-> m.bytes, role |-> m.role, web |-> web]
  /\ stream.state = "NEW" => sent = 0 /\ pc = "idle" /\ stream = NewStream
  /\ past.aligned \in BOOLEAN /\ past.tight \in BOOLEAN
  /\ Live => \E h \in Nat : InStep(h)

(* What the loop finds: nothing, and what is decoded is all there is; or   *)
(* the line of a chunk, which is in the packet as a whole.                 *)
NoLine ==
  /\ Line.value = 0 /\ p + 2 >= packet.size /\ Line.nonnum = p
  /\ IsRest(0, sent) /\ Filled(l7_size, sent)
  /\ past.tight = TRUE => l7_size = packet.size

LineOf(h, e, j, k) ==
  /\ Gap(Base + p, e) /\ Chunk_(e, j, k) /\ k \in Bounds(message, h)
  /\ h <= e /\ e < sent /\ j <= sent
  /\ Line.value = k - 2 - j /\ Line.nonnum = j - 2 - Base
  /\ AfterLine(Line.nonnum) = j - Base

(* The sizes and positions that all of the steps use.                      *)
LEMMA Sizes ==
  ASSUME IInv
  PROVE  /\ packet.size \in Nat /\ sent \in Nat /\ sent <= Total /\ Total \in Nat
         /\ packet.size <= sent /\ p \in Nat /\ l7_size \in Nat
         /\ packet.l7 \in Seq(Positions) /\ packet.l7_content_size \in Nat
         /\ pc # "idle" => Len(packet.l7) = packet.size
         /\ Base \in Nat /\ Base + packet.size = sent
         /\ stream.chunk_offset \in Nat
<1>1. TypeOK /\ InWork
  BY DEF IInv
<1>2. /\ packet.size \in Nat /\ sent \in Nat /\ sent <= Total /\ Total \in Nat
      /\ packet.size <= sent /\ p \in Nat /\ l7_size \in Nat
      /\ packet.l7 \in Seq(Positions) /\ packet.l7_content_size \in Nat
      /\ pc # "idle" => Len(packet.l7) = packet.size
      /\ stream.chunk_offset \in Nat
  BY <1>1, StreamTypes DEF InWork, Total
<1> QED BY <1>2 DEF Base

LEMMA BoundsFacts ==
  ASSUME NEW h \in Nat, ChunksFrom(h), sent \in Nat, sent <= Total, Total \in Nat
  PROVE  /\ h \in Nat \ {0} /\ h <= sent /\ h < Total
         /\ HasHeader(message, h) /\ InChunks(message, h)
         /\ \A e \in Bounds(message, h) : e \in Nat /\ h <= e /\ e <= Total
BY DEF ChunksFrom, InChunks, Bounds, Total

LEMMA LinePlace ==
  ASSUME IInv, pc = "chunk", NEW h \in Nat, InStep(h)
  PROVE  NoLine \/ \E e, j, k \in Nat : LineOf(h, e, j, k)
<1>0. /\ packet.size \in Nat /\ sent \in Nat /\ sent <= Total /\ Total \in Nat
      /\ p \in Nat /\ l7_size \in Nat /\ packet.l7 \in Seq(Positions)
      /\ Len(packet.l7) = packet.size /\ Base \in Nat /\ Base + packet.size = sent
  BY Sizes
<1>1. /\ ChunksFrom(h) /\ AtChunk(h, Base + p) /\ NoDigitBehind
      /\ sent = Total \/ ~InLine(sent)
      /\ past.tight = TRUE => Tight(sent)
  BY DEF InStep
<1>2. /\ h \in Nat \ {0} /\ h <= sent /\ h < Total
      /\ HasHeader(message, h) /\ InChunks(message, h)
      /\ \A e \in Bounds(message, h) : e \in Nat /\ h <= e /\ e <= Total
  BY <1>0, <1>1, BoundsFacts
<1>3. PICK e \in Bounds(message, h) :
        Gap(Base + p, e) /\ (past.tight = TRUE => e # Total)
  BY <1>1 DEF AtChunk
<1>4. e \in Nat /\ h <= e /\ e <= Total
  BY <1>2
<1>5. PICK a \in Nat : a = Base + p
  BY <1>0
<1>6. /\ a <= e /\ e <= a + 2 /\ l7_size <= packet.size
      /\ \A x \in (a + 1)..e : message.role[x] = "crlf"
      /\ sent < a => sent <= a /\ \A x \in (sent + 1)..a : message.role[x] = "crlf"
      /\ Filled(l7_size, a)
  BY <1>1, <1>3, <1>5 DEF Gap, AtChunk
<1>7. e < Total =>
        \E k \in Bounds(message, h), j \in Nat : Chunk_(e, j, k) /\ k \in Nat
  <2> SUFFICES ASSUME e < Total
               PROVE  \E k \in Bounds(message, h), j \in Nat : Chunk_(e, j, k) /\ k \in Nat
    OBVIOUS
  <2>1. PICK k \in Bounds(message, h) : \E j \in e..k : Chunk_(e, j, k)
    BY <1>2, <1>3 DEF InChunks, Total, Chunk_
  <2>2. PICK j \in e..k : Chunk_(e, j, k)
    BY <2>1
  <2>3. k \in Nat /\ j \in Nat
    BY <1>2, <1>4
  <2> QED BY <2>2, <2>3
<1>8. CASE sent <= e
  <2>1. Line.value = 0 /\ Line.nonnum = p
    BY <1>1, <1>3, <1>4, <1>8, ReadNothing DEF NoDigitBehind
  <2>2. p + 2 >= packet.size
    BY <1>0, <1>4, <1>5, <1>6, <1>8
  <2>3. sent = Total \/ message.role[sent + 1] # "data"
    <3>1. CASE sent = e /\ e < Total
      <4>1. PICK k \in Bounds(message, h), j \in Nat : Chunk_(e, j, k) /\ k \in Nat
        BY <1>7, <3>1
      <4>2. message.role[e + 1] = "line"
        BY <1>4, <4>1, ChunkFacts
      <4> QED BY <3>1, <4>2
    <3>2. CASE sent < e /\ a <= sent
      <4>1. sent + 1 \in (a + 1)..e
        BY <1>0, <1>4, <3>2
      <4> QED BY <1>6, <4>1
    <3>3. CASE sent < a
      <4>1. sent + 1 \in (sent + 1)..a
        BY <1>0, <3>3
      <4> QED BY <1>6, <3>3, <4>1
    <3> QED BY <1>0, <1>4, <1>8, <3>1, <3>2, <3>3
  <2>4. IsRest(0, sent)
    BY <1>0, <2>3 DEF IsRest
  <2>5. Select(Decoded, Base, sent) = Select(Decoded, Base, a)
    <3>1. CASE a <= sent
      <4>1. \A x \in (a + 1)..sent : message.role[x] \in {"line", "crlf"}
        BY <1>0, <1>4, <1>6, <1>8
      <4>2. Base <= a
        BY <1>0, <1>5
      <4> QED BY <1>0, <3>1, <4>1, <4>2, NothingBetween
    <3>2. CASE sent < a
      <4>1. \A x \in (sent + 1)..a : message.role[x] \in {"line", "crlf"}
        BY <1>6, <3>2
      <4>2. Base <= sent /\ a <= Total
        BY <1>0, <1>4, <1>6
      <4> QED BY <1>0, <3>2, <4>1, <4>2, NothingBetween
    <3> QED BY <1>0, <3>1, <3>2
  <2>6. Filled(l7_size, sent)
    BY <1>6, <2>5, Zenon DEF Filled
  <2>7. ASSUME past.tight = TRUE PROVE l7_size = packet.size
    <3>1. sent # Total
      BY <1>0, <1>3, <1>4, <1>8, <2>7
    <3>2. message.bytes[sent] = "end"
      BY <1>1, <2>3, <2>7, <3>1 DEF Tight, InData, Total
    <3>3. sent = h
      BY <1>0, <1>2, <3>2 DEF HasHeader, Total
    <3>4. \A x \in (Base + 1)..sent : message.role[x] \in {"head", "data"}
      BY <1>0, <1>2, <3>3 DEF HasHeader, Total
    <3>5. Select(Decoded, Base, sent) = [i \in 1..(sent - Base) |-> Base + i]
      <4>1. Base <= sent
        BY <1>0
      <4> QED BY <1>0, <3>4, <4>1, AllWithin
    <3>6. Len([i \in 1..(sent - Base) |-> Base + i]) = packet.size
      <4>1. sent - Base = packet.size
        BY <1>0
      <4> QED BY <1>0, <4>1
    <3>7. Len(SubSeq(packet.l7, 1, l7_size)) = l7_size
      BY <1>0, <1>6, FrontFacts
    <3>8. SubSeq(packet.l7, 1, l7_size) = Select(Decoded, Base, sent)
      BY <2>6 DEF Filled
    <3> QED BY <3>5, <3>6, <3>7, <3>8, Zenon
  <2> QED BY <2>1, <2>2, <2>4, <2>6, <2>7 DEF NoLine
<1>9. CASE e < sent
  <2>1. PICK k \in Bounds(message, h), j \in Nat : Chunk_(e, j, k) /\ k \in Nat
    BY <1>0, <1>4, <1>7, <1>9
  <2>2. /\ e + 3 <= j /\ j + 2 <= k /\ k <= Total
        /\ IsLine(message, e, j, k - 2 - j)
        /\ \A x \in (e + 1)..j : message.role[x] = "line"
    BY <1>2, <1>4, <2>1, ChunkFacts
  <2>3. j <= sent
    <3> SUFFICES ASSUME sent < j PROVE FALSE
      BY <1>0
    <3>1. sent \in (e + 1)..j /\ sent + 1 \in (e + 1)..j
      BY <1>0, <1>4, <1>9
    <3>2. InLine(sent)
      BY <2>2, <3>1 DEF InLine
    <3> QED BY <1>0, <1>1, <2>1, <2>2, <3>2
  <2>4. /\ Line.value = k - 2 - j /\ Line.nonnum = j - 2 - Base
        /\ AfterLine(Line.nonnum) = j - Base
    BY <1>3, <1>4, <2>2, <2>3, ReadLine
  <2>5. LineOf(h, e, j, k)
    BY <1>3, <1>4, <1>9, <2>1, <2>3, <2>4 DEF LineOf
  <2> QED BY <1>4, <2>1, <2>5
<1> QED BY <1>0, <1>4, <1>8, <1>9

(* Nothing that the invariant is about changes while a packet is decoded.  *)
Still ==
  /\ message' = message /\ sent' = sent /\ past' = past
  /\ packet'.size = packet.size
  /\ stream'.http_chunked = stream.http_chunked /\ stream'.state = stream.state

LEMMA StillFacts ==
  ASSUME Still
  PROVE  /\ Base' = Base /\ Total' = Total /\ Decoded' = Decoded
         /\ \A h \in Nat : ChunksFrom(h) => ChunksFrom(h)'
         /\ sent = Total \/ ~InLine(sent) => (sent = Total \/ ~InLine(sent))'
         /\ Tight(sent) => Tight(sent)'
         /\ \A r, a \in Nat : IsRest(r, a) => IsRest(r, a)'
         /\ \A a, e \in Nat : Gap(a, e) => Gap(a, e)'
         /\ \A h \in Nat : Bounds(message, h)' = Bounds(message, h)
<1> USE DEF Still
<1>1. Base' = Base /\ Total' = Total
  BY DEF Base, Total
<1>2. Decoded' = Decoded
  BY DEF Decoded, With, Positions
<1>3. \A h \in Nat : ChunksFrom(h) => ChunksFrom(h)'
  BY DEF ChunksFrom
<1>4. sent = Total \/ ~InLine(sent) => (sent = Total \/ ~InLine(sent))'
  BY <1>1 DEF InLine
<1>5. Tight(sent) => Tight(sent)'
  BY DEF Tight, InData
<1>6. \A r, a \in Nat : IsRest(r, a) => IsRest(r, a)'
  BY <1>1 DEF IsRest
<1>7. \A a, e \in Nat : Gap(a, e) => Gap(a, e)'
  BY DEF Gap
<1> QED BY <1>1, <1>2, <1>3, <1>4, <1>5, <1>6, <1>7

(* Steps that leave a live decoder in step keep the invariant.             *)
LEMMA StillInv ==
  ASSUME IInv, ChunkInv, pc # "idle", Still,
         \A h \in Nat : Live /\ InStep(h) => InStep(h)'
  PROVE  ChunkInv'
<1>1. /\ stream.state # "NEW"
      /\ past.aligned \in BOOLEAN /\ past.tight \in BOOLEAN
      /\ Live => \E h \in Nat : InStep(h)
  BY DEF ChunkInv
<1>2. (\E m \in Messages, web \in BOOLEAN :
         message = [bytes |-> m.bytes, role |-> m.role, web |-> web])'
  BY DEF ChunkInv, Still
<1>3. Live' => Live
  BY DEF Live, Still
<1>4. Live' => (\E h \in Nat : InStep(h)')
  BY <1>1, <1>3
<1>5. /\ stream'.state # "NEW"
      /\ past'.aligned \in BOOLEAN /\ past'.tight \in BOOLEAN
  BY <1>1 DEF Still
<1> QED BY <1>2, <1>4, <1>5 DEF ChunkInv

(* DecodeChunk ends with the rest of a chunk as offset, and all that is    *)
(* decoded in front.                                                       *)
LEMMA DoneInStep ==
  ASSUME IInv, NEW h \in Nat, InStep(h), pc # "idle", Still,
         pc' = "gzip", behind' = behind, NEW n \in Nat,
         n <= packet'.l7_content_size,
         SubSeq(packet'.l7, 1, n) = Select(Decoded, Base, sent),
         past.tight = TRUE => n = packet'.l7_content_size,
         stream'.chunk_offset \in Nat, IsRest(stream'.chunk_offset, sent)
  PROVE  InStep(h)'
<1>0. sent \in Nat
  BY Sizes
<1>1. /\ Base' = Base /\ Total' = Total /\ Decoded' = Decoded
      /\ ChunksFrom(h) => ChunksFrom(h)'
      /\ sent = Total \/ ~InLine(sent) => (sent = Total \/ ~InLine(sent))'
      /\ Tight(sent) => Tight(sent)'
      /\ \A r, a \in Nat : IsRest(r, a) => IsRest(r, a)'
  BY StillFacts
<1>2. message' = message /\ sent' = sent /\ past' = past
  BY DEF Still
<1>3. IsRest(stream.chunk_offset, sent)'
  <2>1. PICK r \in Nat : r = stream'.chunk_offset
    OBVIOUS
  <2>2. Total' = Total
    BY <1>1
  <2> QED BY <1>2, <2>2 DEF IsRest
<1>4. Filled(n, sent)'
  <2>1. Select(Decoded, Base, sent)' = Select(Decoded, Base, sent)
    BY <1>1, <1>2
  <2> QED BY <2>1 DEF Filled
<1>5. AtEnd'
  BY <1>2, <1>3, <1>4 DEF AtEnd
<1>6. /\ ChunksFrom(h) /\ (sent = Total \/ ~InLine(sent))
      /\ past.tight = TRUE => Tight(sent)
      /\ NoDigitBehind
  BY DEF InStep
<1>7. NoDigitBehind'
  BY <1>6 DEF NoDigitBehind
<1> QED BY <1>1, <1>2, <1>5, <1>6, <1>7 DEF InStep

(* A line in the packet, and what it is the line of.                       *)
LEMMA LineFacts ==
  ASSUME IInv, pc = "chunk", NEW h \in Nat, InStep(h),
         NEW e \in Nat, NEW j \in Nat, NEW k \in Nat, LineOf(h, e, j, k)
  PROVE  /\ Base + p <= e /\ h <= e /\ e + 3 <= j /\ j <= sent /\ j + 2 <= k /\ k <= Total
         /\ Line.value = k - 2 - j /\ Line.nonnum = j - 2 - Base
         /\ AfterLine(Line.nonnum) = j - Base
         /\ k = j + 2 <=> k = Total
         /\ \A x \in (Base + p + 1)..j : message.role[x] \in {"line", "crlf"}
         /\ message.role[j] = "line"
         /\ \A x \in (j + 1)..(k - 2) : message.role[x] = "data"
         /\ message.role[k - 1] = "crlf" /\ message.role[k] = "crlf"
         /\ message.bytes[k - 1] = "cr" /\ message.bytes[k] = "lf"
         /\ packet.l7_content_size = packet.size /\ l7_size <= packet.size
         /\ Filled(l7_size, Base + p) /\ Filled(l7_size, j)
<1>0. /\ sent \in Nat /\ sent <= Total /\ Total \in Nat
      /\ p \in Nat /\ l7_size \in Nat /\ Base \in Nat
  BY Sizes
<1>1. /\ ChunksFrom(h) /\ AtChunk(h, Base + p)
  BY DEF InStep
<1>2. /\ Gap(Base + p, e) /\ Chunk_(e, j, k) /\ k \in Bounds(message, h)
      /\ h <= e /\ j <= sent
      /\ Line.value = k - 2 - j /\ Line.nonnum = j - 2 - Base
      /\ AfterLine(Line.nonnum) = j - Base
  BY DEF LineOf
<1>3. k <= Total
  BY <1>0, <1>1, <1>2, BoundsFacts
<1>4. /\ e + 3 <= j /\ j + 2 <= k
      /\ \A x \in (e + 1)..j : message.role[x] = "line"
      /\ \A x \in (j + 1)..(k - 2) : message.role[x] = "data"
      /\ message.role[k - 1] = "crlf" /\ message.role[k] = "crlf"
      /\ message.bytes[k - 1] = "cr" /\ message.bytes[k] = "lf"
      /\ k = j + 2 <=> k = Total
  BY <1>2, ChunkFacts
<1>5. PICK a \in Nat : a = Base + p
  BY <1>0
<1>6. a <= e /\ \A x \in (a + 1)..e : message.role[x] = "crlf"
  BY <1>2, <1>5 DEF Gap
<1>7. \A x \in (a + 1)..j : message.role[x] \in {"line", "crlf"}
  <2> TAKE x \in (a + 1)..j
  <2>1. x \in (a + 1)..e \/ x \in (e + 1)..j
    OBVIOUS
  <2> QED BY <1>4, <1>6, <2>1
<1>8. message.role[j] = "line"
  <2>1. j \in (e + 1)..j
    BY <1>4
  <2> QED BY <1>4, <2>1
<1>9. Select(Decoded, Base, j) = Select(Decoded, Base, a)
  <2>1. a <= j /\ j <= Total /\ Base <= a
    BY <1>0, <1>2, <1>4, <1>5, <1>6
  <2> QED BY <1>0, <1>7, <2>1, NothingBetween
<1>10. /\ packet.l7_content_size = packet.size /\ l7_size <= packet.size
       /\ Filled(l7_size, a)
  BY <1>1, <1>5 DEF AtChunk
<1>11. Filled(l7_size, j)
  BY <1>9, <1>10, Zenon DEF Filled
<1> QED BY <1>2, <1>3, <1>4, <1>5, <1>6, <1>7, <1>8, <1>10, <1>11

LEMMA LineAtEndInStep ==
  ASSUME IInv, LineAtEnd, NEW h \in Nat, InStep(h)
  PROVE  InStep(h)'
<1>0. /\ sent \in Nat /\ sent <= Total /\ Total \in Nat /\ packet.size \in Nat
      /\ p \in Nat /\ l7_size \in Nat /\ Base \in Nat /\ Base + packet.size = sent
  BY Sizes
<1>1. /\ pc = "chunk" /\ Line.nonnum + 2 >= packet.size /\ packet' = packet
      /\ stream' = [stream EXCEPT !.chunk_offset = Line.value]
      /\ pc' = "gzip" /\ behind' = behind
      /\ message' = message /\ sent' = sent /\ past' = past
  BY DEF LineAtEnd, ChunkDone
<1>2. Still /\ stream'.chunk_offset = Line.value
  BY <1>1 DEF Still, IInv, TypeOK, StreamFields
<1>3. packet'.l7 = packet.l7 /\ packet'.l7_content_size = packet.size
        /\ l7_size <= packet.size
  BY <1>1 DEF InStep, AtChunk
<1>4. ASSUME Filled(l7_size, sent), past.tight = TRUE => l7_size = packet.size,
             NEW r \in Nat, r = Line.value, IsRest(r, sent)
      PROVE  InStep(h)'
  <2>1. SubSeq(packet'.l7, 1, l7_size) = Select(Decoded, Base, sent)
    BY <1>3, <1>4 DEF Filled
  <2>2. stream'.chunk_offset \in Nat /\ IsRest(stream'.chunk_offset, sent)
    BY <1>2, <1>4
  <2> QED BY <1>0, <1>1, <1>2, <1>3, <1>4, <2>1, <2>2, DoneInStep
<1>5. CASE NoLine
  <2>1. PICK r \in Nat : r = 0
    OBVIOUS
  <2>2. /\ r = Line.value /\ IsRest(r, sent) /\ Filled(l7_size, sent)
        /\ past.tight = TRUE => l7_size = packet.size
    BY <1>5, <2>1 DEF NoLine
  <2> QED BY <1>4, <2>2
<1>6. CASE ~NoLine
  <2>1. PICK e \in Nat, j \in Nat, k \in Nat : LineOf(h, e, j, k)
    BY <1>1, <1>6, LinePlace
  <2>2. /\ h <= e /\ e + 3 <= j /\ j <= sent /\ j + 2 <= k /\ k <= Total
        /\ Line.value = k - 2 - j /\ Line.nonnum = j - 2 - Base
        /\ message.role[j] = "line"
        /\ \A x \in (j + 1)..(k - 2) : message.role[x] = "data"
        /\ message.role[k - 1] = "crlf"
        /\ Filled(l7_size, j)
    BY <1>1, <2>1, LineFacts
  <2>3. j = sent
    BY <1>0, <1>1, <2>2
  <2>4. PICK r \in Nat : r = k - 2 - j
    BY <2>2
  <2>5. IsRest(r, sent)
    <3>1. sent + r = k - 2 /\ sent + r + 1 = k - 1
      BY <1>0, <2>3, <2>4
    <3> QED BY <1>0, <2>2, <2>3, <2>4, <3>1 DEF IsRest
  <2>6. past.tight # TRUE
    <3>1. past.tight = TRUE => Tight(sent)
      BY DEF InStep
    <3>2. sent # Total /\ sent > h
      BY <1>0, <2>2, <2>3
    <3>3. message.bytes[sent] # "end"
      <4>1. HasHeader(message, h)
        BY DEF InStep, ChunksFrom
      <4> QED BY <1>0, <3>2, <4>1 DEF HasHeader, Total
    <3>4. ~InData(sent)
      BY <2>2, <2>3 DEF InData
    <3> QED BY <3>1, <3>2, <3>3, <3>4 DEF Tight, Total
  <2> QED BY <1>4, <2>2, <2>3, <2>4, <2>5, <2>6
<1> QED BY <1>5, <1>6

LEMMA LastChunkInStep ==
  ASSUME IInv, LastChunk, NEW h \in Nat, InStep(h)
  PROVE  InStep(h)'
<1>0. /\ sent \in Nat /\ sent <= Total /\ Total \in Nat /\ packet.size \in Nat
      /\ p \in Nat /\ l7_size \in Nat /\ Base \in Nat /\ Base + packet.size = sent
  BY Sizes
<1>1. /\ pc = "chunk" /\ Line.nonnum + 2 < packet.size /\ Line.value = 0
      /\ packet' = [packet EXCEPT !.l7_content_size = l7_size]
      /\ stream' = [stream EXCEPT !.chunk_offset = 0]
      /\ pc' = "gzip" /\ behind' = behind
      /\ message' = message /\ sent' = sent /\ past' = past
  BY DEF LastChunk, InLoop, ChunkDone
<1>2. Still /\ stream'.chunk_offset = 0
  BY <1>1 DEF Still, IInv, TypeOK, StreamFields, PacketFields
<1>3. packet'.l7 = packet.l7 /\ packet'.l7_content_size = l7_size
  BY <1>1 DEF IInv, TypeOK, PacketFields
<1>4. ~NoLine
  BY <1>0, <1>1 DEF NoLine
<1>5. PICK e \in Nat, j \in Nat, k \in Nat : LineOf(h, e, j, k)
  BY <1>1, <1>4, LinePlace
<1>6. /\ e + 3 <= j /\ j + 2 <= k /\ k <= Total
      /\ Line.value = k - 2 - j /\ Line.nonnum = j - 2 - Base
      /\ k = j + 2 <=> k = Total
      /\ message.role[k - 1] = "crlf" /\ message.role[k] = "crlf"
      /\ Filled(l7_size, j) /\ Base + p <= e
  BY <1>1, <1>5, LineFacts
<1>7. k = j + 2 /\ k = Total /\ (sent = j + 1 \/ sent = j + 2)
  BY <1>0, <1>1, <1>6
<1>8. IsRest(0, sent)
  <2>1. sent = Total \/ sent + 1 = k
    BY <1>7
  <2> QED BY <1>0, <1>6, <2>1 DEF IsRest
<1>9. Select(Decoded, Base, sent) = Select(Decoded, Base, j)
  <2>1. \A x \in (j + 1)..sent : x = k - 1 \/ x = k
    BY <1>7
  <2>2. \A x \in (j + 1)..sent : message.role[x] \in {"line", "crlf"}
    BY <1>6, <2>1
  <2>3. j <= sent /\ Base <= j
    BY <1>0, <1>6, <1>7
  <2> QED BY <1>0, <2>2, <2>3, NothingBetween
<1>10. SubSeq(packet'.l7, 1, l7_size) = Select(Decoded, Base, sent)
  BY <1>3, <1>6, <1>9, Zenon DEF Filled
<1>11. l7_size <= packet'.l7_content_size /\ l7_size = packet'.l7_content_size
  BY <1>0, <1>3
<1>12. stream'.chunk_offset \in Nat /\ IsRest(stream'.chunk_offset, sent)
  BY <1>2, <1>8
<1> QED BY <1>0, <1>1, <1>2, <1>10, <1>11, <1>12, DoneInStep

LEMMA CutChunkInStep ==
  ASSUME IInv, CutChunk, NEW h \in Nat, InStep(h)
  PROVE  InStep(h)'
<1>0. /\ sent \in Nat /\ sent <= Total /\ Total \in Nat /\ packet.size \in Nat
      /\ p \in Nat /\ l7_size \in Nat /\ Base \in Nat /\ Base + packet.size = sent
  BY Sizes
<1> DEFINE from == AfterLine(Line.nonnum)
<1>1. /\ pc = "chunk" /\ Line.nonnum + 2 < packet.size /\ Line.value > 0
      /\ from + Line.value > packet.size
      /\ packet' = [packet EXCEPT !.l7 = Copied(from, Saved(from)),
                                  !.l7_content_size = l7_size + Saved(from)]
      /\ stream' = [stream EXCEPT !.chunk_offset = Rest(Line.value, Saved(from))]
      /\ pc' = "gzip" /\ behind' = behind
      /\ message' = message /\ sent' = sent /\ past' = past
  BY DEF CutChunk, InLoop, ChunkDone
<1> HIDE DEF from
<1>2. Still /\ stream'.chunk_offset = Rest(Line.value, Saved(from))
  BY <1>1 DEF Still, IInv, TypeOK, StreamFields, PacketFields
<1>3. /\ packet'.l7 = Copied(from, Saved(from))
      /\ packet'.l7_content_size = l7_size + Saved(from)
  BY <1>1 DEF IInv, TypeOK, PacketFields
<1>4. ~NoLine
  BY <1>0, <1>1 DEF NoLine
<1>5. PICK e \in Nat, j \in Nat, k \in Nat : LineOf(h, e, j, k)
  BY <1>1, <1>4, LinePlace
<1>6. /\ e + 3 <= j /\ j <= sent /\ j + 2 <= k /\ k <= Total /\ Base + p <= e
      /\ Line.value = k - 2 - j /\ from = j - Base
      /\ \A x \in (Base + p + 1)..j : message.role[x] \in {"line", "crlf"}
      /\ \A x \in (j + 1)..(k - 2) : message.role[x] = "data"
      /\ message.role[k - 1] = "crlf"
      /\ Filled(l7_size, Base + p)
  BY <1>1, <1>5, LineFacts DEF from
<1>7. PICK f \in Nat : f = from /\ Base + f = j /\ p <= f /\ f <= packet.size
  BY <1>0, <1>6
<1>8. PICK s \in Nat : s = Saved(from) /\ f + s = packet.size /\ j + s = sent
  BY <1>0, <1>7 DEF Saved
<1>9. PICK r \in Nat : r = Rest(Line.value, Saved(from)) /\ sent + r = k - 2
  BY <1>0, <1>1, <1>6, <1>7, <1>8 DEF Rest
<1>10. IsRest(r, sent)
  <2>1. sent + r + 1 = k - 1
    BY <1>0, <1>9
  <2> QED BY <1>0, <1>6, <1>9, <2>1 DEF IsRest
<1>11. SubSeq(Copied(f, s), 1, l7_size + s) = Select(Decoded, Base, Base + f + s)
  <2>1. \A x \in (Base + p + 1)..(Base + f) : message.role[x] \in {"line", "crlf"}
    BY <1>6, <1>7
  <2>2. \A x \in (Base + f + 1)..(Base + f + s) : message.role[x] = "data"
    BY <1>0, <1>6, <1>7, <1>8, <1>9
  <2>3. f + s <= packet.size
    BY <1>0, <1>8
  <2> QED BY <1>1, <1>6, <1>7, <2>1, <2>2, <2>3, CopiedFilled
<1>12. Base + f + s = sent
  BY <1>0, <1>7, <1>8
<1>13. PICK n \in Nat : n = l7_size + s
  BY <1>0
<1>14. /\ SubSeq(packet'.l7, 1, n) = Select(Decoded, Base, sent)
       /\ n = packet'.l7_content_size
  BY <1>3, <1>7, <1>8, <1>11, <1>12, <1>13, Zenon
<1>15. stream'.chunk_offset \in Nat /\ IsRest(stream'.chunk_offset, sent)
  BY <1>2, <1>9, <1>10
<1>16. n <= packet'.l7_content_size /\ pc # "idle"
  BY <1>1, <1>13, <1>14
<1> QED BY <1>1, <1>2, <1>14, <1>15, <1>16, DoneInStep

(* The loop is to go on at byte a.                                         *)
LEMMA LoopInStep ==
  ASSUME IInv, NEW h \in Nat, InStep(h), pc # "idle", Still,
         pc' = "chunk", behind' = behind, NEW a \in Nat, Base + p' = a,
         packet'.l7_content_size = packet.size, l7_size' <= packet.size,
         NEW e \in Bounds(message, h), Gap(a, e), past.tight = TRUE => e # Total,
         sent < a => Gap(sent, a),
         SubSeq(packet'.l7, 1, l7_size') = Select(Decoded, Base, a)
  PROVE  InStep(h)'
<1>0. sent \in Nat /\ sent <= Total /\ Total \in Nat
  BY Sizes
<1>1. /\ Base' = Base /\ Total' = Total /\ Decoded' = Decoded
      /\ ChunksFrom(h) => ChunksFrom(h)'
      /\ sent = Total \/ ~InLine(sent) => (sent = Total \/ ~InLine(sent))'
      /\ Tight(sent) => Tight(sent)'
      /\ \A x, y \in Nat : Gap(x, y) => Gap(x, y)'
      /\ Bounds(message, h)' = Bounds(message, h)
  BY StillFacts
<1>2. message' = message /\ sent' = sent /\ past' = past /\ packet'.size = packet.size
  BY DEF Still
<1>3. /\ ChunksFrom(h) /\ (sent = Total \/ ~InLine(sent))
      /\ past.tight = TRUE => Tight(sent)
      /\ NoDigitBehind
  BY DEF InStep
<1>4. e \in Nat
  BY <1>0, <1>3, BoundsFacts
<1>5. (Base + p)' = a
  BY <1>1
<1>6. Gap(a, e)' /\ (past'.tight = TRUE => e # Total')
  BY <1>1, <1>2, <1>4
<1>7. sent' < a => Gap(sent, a)'
  <2>1. Gap(sent, a) => Gap(sent, a)'
    BY <1>2 DEF Gap
  <2> QED BY <1>2, <2>1
<1>8. SubSeq(packet'.l7, 1, l7_size') = Select(Decoded', Base', a)
  BY <1>1
<1>9. AtChunk(h, Base + p)'
  <2>1. e \in Bounds(message, h)'
    BY <1>1
  <2>2. packet'.l7_content_size = packet'.size /\ l7_size' <= packet'.size
    BY <1>2
  <2> QED BY <1>5, <1>6, <1>7, <1>8, <2>1, <2>2 DEF AtChunk, Filled
<1>10. NoDigitBehind'
  BY <1>3 DEF NoDigitBehind
<1> QED BY <1>1, <1>2, <1>3, <1>9, <1>10 DEF InStep

LEMMA WholeChunkInStep ==
  ASSUME IInv, WholeChunk, NEW h \in Nat, InStep(h)
  PROVE  InStep(h)'
<1>0. /\ sent \in Nat /\ sent <= Total /\ Total \in Nat /\ packet.size \in Nat
      /\ p \in Nat /\ l7_size \in Nat /\ Base \in Nat /\ Base + packet.size = sent
  BY Sizes
<1> DEFINE from == AfterLine(Line.nonnum)
<1>1. /\ pc = "chunk" /\ Line.nonnum + 2 < packet.size /\ Line.value > 0
      /\ from + Line.value <= packet.size
      /\ packet' = [packet EXCEPT !.l7 = Copied(from, Line.value)]
      /\ l7_size' = l7_size + Line.value /\ p' = from + Line.value + 2
      /\ stream' = stream /\ pc' = pc /\ behind' = behind
      /\ message' = message /\ sent' = sent /\ past' = past
  BY DEF WholeChunk, InLoop
<1> HIDE DEF from
<1>2. Still
  BY <1>1 DEF Still, IInv, TypeOK, StreamFields, PacketFields
<1>3. /\ packet'.l7 = Copied(from, Line.value)
      /\ packet'.l7_content_size = packet.l7_content_size
  BY <1>1 DEF IInv, TypeOK, PacketFields
<1>4. ~NoLine
  BY <1>0, <1>1 DEF NoLine
<1>5. PICK e \in Nat, j \in Nat, k \in Nat : LineOf(h, e, j, k)
  BY <1>1, <1>4, LinePlace
<1>6. /\ e + 3 <= j /\ j <= sent /\ j + 2 <= k /\ k <= Total /\ Base + p <= e
      /\ Line.value = k - 2 - j /\ from = j - Base
      /\ k = j + 2 <=> k = Total
      /\ \A x \in (Base + p + 1)..j : message.role[x] \in {"line", "crlf"}
      /\ \A x \in (j + 1)..(k - 2) : message.role[x] = "data"
      /\ message.role[k - 1] = "crlf" /\ message.role[k] = "crlf"
      /\ message.bytes[k - 1] = "cr" /\ message.bytes[k] = "lf"
      /\ packet.l7_content_size = packet.size
      /\ Filled(l7_size, Base + p)
  BY <1>1, <1>5, LineFacts DEF from
<1>7. PICK f \in Nat : f = from /\ Base + f = j /\ p <= f /\ f <= packet.size
  BY <1>0, <1>6
<1>8. PICK n \in Nat : n = Line.value /\ n = k - 2 - j /\ n > 0
  BY <1>1, <1>6
<1>9. f + n <= packet.size /\ Base + f + n = k - 2 /\ k - 2 <= sent /\ Base + p' = k
  BY <1>0, <1>1, <1>6, <1>7, <1>8
<1>10. l7_size <= p
  BY DEF IInv, L7InBounds, WholeChunk, InLoop
<1>11. l7_size' <= packet.size /\ l7_size' = l7_size + n
  BY <1>0, <1>1, <1>7, <1>8, <1>9, <1>10
<1>12. SubSeq(Copied(f, n), 1, l7_size + n) = Select(Decoded, Base, Base + f + n)
  <2>1. \A x \in (Base + p + 1)..(Base + f) : message.role[x] \in {"line", "crlf"}
    BY <1>6, <1>7
  <2>2. \A x \in (Base + f + 1)..(Base + f + n) : message.role[x] = "data"
    BY <1>6, <1>7, <1>9
  <2> QED BY <1>1, <1>6, <1>7, <1>9, <2>1, <2>2, CopiedFilled
<1>13. \A x \in (k - 1)..k : x = k - 1 \/ x = k
  OBVIOUS
<1>14. Select(Decoded, Base, k) = Select(Decoded, Base, k - 2)
  <2>1. PICK c \in Nat : c = k - 2 /\ c + 1 = k - 1 /\ c <= k /\ Base <= c
    BY <1>0, <1>6, <1>7, <1>9
  <2>2. \A x \in (c + 1)..k : message.role[x] \in {"line", "crlf"}
    BY <1>6, <1>13, <2>1
  <2>3. Select(Decoded, Base, k) = Select(Decoded, Base, c)
    BY <1>0, <1>6, <2>1, <2>2, NothingBetween
  <2> QED BY <2>1, <2>3
<1>15. SubSeq(packet'.l7, 1, l7_size') = Select(Decoded, Base, k)
  BY <1>3, <1>7, <1>8, <1>9, <1>11, <1>12, <1>14, Zenon
<1>16. Gap(k, k) /\ (sent < k => Gap(sent, k))
  <2>1. Gap(k, k)
    BY DEF Gap
  <2>2. ASSUME sent < k PROVE Gap(sent, k)
    <3>1. \A x \in (sent + 1)..k : x = k - 1 \/ x = k
      BY <1>0, <1>9
    <3> QED BY <1>0, <1>6, <1>9, <2>2, <3>1 DEF Gap, Space
  <2> QED BY <2>1, <2>2
<1>17. k \in Bounds(message, h) /\ k # Total
  BY <1>5, <1>6, <1>8 DEF LineOf
<1>18. pc # "idle" /\ pc' = "chunk" /\ packet'.l7_content_size = packet.size
  BY <1>1, <1>3, <1>6
<1> QED BY <1>1, <1>2, <1>9, <1>11, <1>15, <1>16, <1>17, <1>18, LoopInStep

LEMMA LargeChunkInStep ==
  ASSUME IInv, LargeChunk, NEW h \in Nat, InStep(h)
  PROVE  InStep(h)'
<1>0. /\ sent \in Nat /\ sent <= Total /\ Total \in Nat /\ packet.size \in Nat
      /\ Base \in Nat /\ Base + packet.size = sent
      /\ packet.l7 \in Seq(Positions) /\ stream.chunk_offset \in Nat
      /\ pc # "idle" => Len(packet.l7) = packet.size
  BY Sizes
<1>1. /\ pc = "start" /\ stream.state = "CONTINUE" /\ packet.size < stream.chunk_offset
      /\ packet' = [packet EXCEPT !.own = TRUE]
      /\ stream' = [stream EXCEPT !.chunk_offset = stream.chunk_offset - packet.size]
      /\ pc' = "gzip" /\ behind' = behind
      /\ message' = message /\ sent' = sent /\ past' = past
  BY DEF LargeChunk, Dechunking, ChunkDone
<1>2. Still /\ stream'.chunk_offset = stream.chunk_offset - packet.size
  BY <1>1 DEF Still, IInv, TypeOK, StreamFields, PacketFields
<1>3. /\ packet'.l7 = packet.l7
      /\ packet'.l7_content_size = packet.l7_content_size
  BY <1>1 DEF IInv, TypeOK, PacketFields
<1>4. /\ packet.l7 = [i \in 1..packet.size |-> Base + i]
      /\ packet.l7_content_size = packet.size
      /\ IsRest(stream.chunk_offset, Base)
  BY <1>1 DEF InStep, AtStart
<1>5. PICK r \in Nat, o \in Nat :
        o = stream.chunk_offset /\ r = o - packet.size /\ Base + o = sent + r
  <2>1. PICK o \in Nat : o = stream.chunk_offset /\ packet.size < o
    BY <1>0, <1>1
  <2>2. PICK r \in Nat : r = o - packet.size
    BY <1>0, <2>1
  <2>3. Base + o = sent + r
    BY <1>0, <2>2
  <2> QED BY <2>1, <2>2, <2>3
<1>6. /\ Base + o <= Total
      /\ \A x \in (Base + 1)..(Base + o) : message.role[x] = "data"
      /\ Base + o = Total \/ message.role[Base + o + 1] # "data"
  BY <1>4, <1>5 DEF IsRest
<1>7. IsRest(r, sent)
  <2>1. \A x \in (sent + 1)..(sent + r) : x \in (Base + 1)..(Base + o)
    BY <1>0, <1>5
  <2>2. sent + r + 1 = Base + o + 1
    BY <1>0, <1>5
  <2> QED BY <1>5, <1>6, <2>1, <2>2 DEF IsRest
<1>8. Select(Decoded, Base, sent) = [i \in 1..(sent - Base) |-> Base + i]
  <2>1. \A x \in (Base + 1)..sent : message.role[x] \in {"head", "data"}
    <3>1. \A x \in (Base + 1)..sent : x \in (Base + 1)..(Base + o)
      BY <1>0, <1>5
    <3> QED BY <1>6, <3>1
  <2>2. Base <= sent
    BY <1>0
  <2> QED BY <1>0, <2>1, <2>2, AllWithin
<1>9. SubSeq(packet.l7, 1, packet.size) = packet.l7
  BY <1>0, <1>1, SubSeqFull
<1>10. sent - Base = packet.size
  BY <1>0
<1>11. SubSeq(packet'.l7, 1, packet.size) = Select(Decoded, Base, sent)
  BY <1>3, <1>4, <1>8, <1>9, <1>10, Zenon
<1>12. packet.size <= packet'.l7_content_size /\ packet.size = packet'.l7_content_size
  BY <1>0, <1>3, <1>4
<1>13. stream'.chunk_offset \in Nat /\ IsRest(stream'.chunk_offset, sent)
  BY <1>2, <1>5, <1>7
<1> QED BY <1>0, <1>1, <1>2, <1>11, <1>12, <1>13, DoneInStep

(* The front of the buffer before anything is moved.                       *)
LEMMA FrontOfAll ==
  ASSUME NEW b \in Nat, NEW n \in Nat, NEW q \in Nat, q <= n
  PROVE  SubSeq([i \in 1..n |-> b + i], 1, q) = [i \in 1..q |-> b + i]
<1> DEFINE s == [i \in 1..n |-> b + i]
           t == [i \in 1..q |-> b + i]
<1>1. s \in Seq(Nat) /\ Len(s) = n /\ \A i \in 1..n : s[i] = b + i
  OBVIOUS
<1>2. t \in Seq(Nat) /\ Len(t) = q /\ \A i \in 1..q : t[i] = b + i
  OBVIOUS
<1> HIDE DEF s, t
<1>3. /\ SubSeq(s, 1, q) \in Seq(Nat) /\ Len(SubSeq(s, 1, q)) = q
      /\ \A i \in 1..q : SubSeq(s, 1, q)[i] = s[i]
  BY <1>1, FrontFacts
<1>4. \A i \in 1..q : SubSeq(s, 1, q)[i] = t[i]
  BY <1>1, <1>2, <1>3
<1>5. SubSeq(s, 1, q) = t
  BY <1>2, <1>3, <1>4, SeqEqual
<1> QED BY <1>5 DEF s, t

LEMMA EnterLoopInStep ==
  ASSUME IInv, EnterLoop, NEW h \in Nat, InStep(h)
  PROVE  InStep(h)'
<1>0. /\ sent \in Nat /\ sent <= Total /\ Total \in Nat /\ packet.size \in Nat
      /\ Base \in Nat /\ Base + packet.size = sent /\ stream.chunk_offset \in Nat
  BY Sizes
<1>1. /\ pc = "start" /\ stream' = stream
      /\ packet' = [packet EXCEPT !.own = TRUE]
      /\ stream.state = "BEGIN" \/ packet.size >= stream.chunk_offset
      /\ p' = DecodeFrom(stream) /\ l7_size' = DecodeFrom(stream)
      /\ pc' = "chunk" /\ behind' = behind
      /\ message' = message /\ sent' = sent /\ past' = past
  BY DEF EnterLoop, Dechunking
<1>2. Still
  BY <1>1 DEF Still, IInv, TypeOK, StreamFields, PacketFields
<1>3. /\ packet'.l7 = packet.l7
      /\ packet'.l7_content_size = packet.l7_content_size
  BY <1>1 DEF IInv, TypeOK, PacketFields
<1>4. AtStart(h) /\ ChunksFrom(h)
  BY <1>1 DEF InStep
<1>5. /\ packet.l7 = [i \in 1..packet.size |-> Base + i]
      /\ packet.l7_content_size = packet.size /\ packet.size > 0
  BY <1>4 DEF AtStart
<1>6. /\ h \in Nat \ {0} /\ h <= sent /\ h < Total
      /\ HasHeader(message, h) /\ InChunks(message, h)
      /\ \A e \in Bounds(message, h) : e \in Nat /\ h <= e /\ e <= Total
  BY <1>0, <1>4, BoundsFacts
<1>7. \E q \in Nat :
        /\ q = DecodeFrom(stream) /\ q <= packet.size
        /\ \E e \in Bounds(message, h) :
             Gap(Base + q, e) /\ (past.tight = TRUE => e # Total)
        /\ \A x \in (Base + 1)..(Base + q) : message.role[x] \in {"head", "data"}
  <2>1. CASE stream.state = "BEGIN"
    <3>1. Base = 0 /\ DecodeFrom(stream) = h
      BY <1>4, <2>1 DEF AtStart, DecodeFrom
    <3>2. Base + h = h /\ h <= packet.size
      BY <1>0, <1>6, <3>1
    <3>3. h \in Bounds(message, h) /\ Gap(h, h) /\ h # Total
      BY <1>6 DEF Bounds, Gap
    <3>4. \A x \in (Base + 1)..(Base + h) : message.role[x] \in {"head", "data"}
      BY <1>6, <3>1 DEF HasHeader, Total
    <3> QED BY <3>1, <3>2, <3>3, <3>4
  <2>2. CASE stream.state # "BEGIN"
    <3>1. PICK q \in Nat : q = stream.chunk_offset
      BY <1>0
    <3>2. /\ h <= Base /\ ~InLine(Base) /\ IsRest(q, Base)
          /\ past.tight = TRUE => message.bytes[Base] = "end" \/ InData(Base)
      BY <1>4, <2>2, <3>1 DEF AtStart
    <3>3. q = DecodeFrom(stream) /\ q <= packet.size
      BY <1>0, <1>1, <2>2, <3>1 DEF DecodeFrom
    <3>4. Base < Total /\ h <= Total
      BY <1>0, <1>5, <1>6
    <3>5. PICK e \in Bounds(message, h) :
            /\ Gap(Base + q, e)
            /\ (message.bytes[Base] = "end" \/ InData(Base)) => e # Total
      BY <1>0, <1>6, <3>2, <3>4, RestAt
    <3>6. \A x \in (Base + 1)..(Base + q) : message.role[x] \in {"head", "data"}
      BY <3>2 DEF IsRest
    <3> QED BY <3>2, <3>3, <3>5, <3>6
  <2> QED BY <2>1, <2>2
<1>8. PICK q \in Nat :
        /\ q = DecodeFrom(stream) /\ q <= packet.size
        /\ \E e \in Bounds(message, h) :
             Gap(Base + q, e) /\ (past.tight = TRUE => e # Total)
        /\ \A x \in (Base + 1)..(Base + q) : message.role[x] \in {"head", "data"}
  BY <1>7
<1>9. PICK e \in Bounds(message, h) :
        Gap(Base + q, e) /\ (past.tight = TRUE => e # Total)
  BY <1>8
<1>10. PICK a \in Nat : a = Base + q /\ a - Base = q /\ Base <= a /\ a <= sent
  BY <1>0, <1>8
<1>11. Select(Decoded, Base, a) = [i \in 1..(a - Base) |-> Base + i]
  <2>1. \A x \in (Base + 1)..a : message.role[x] \in {"head", "data"}
    BY <1>8, <1>10
  <2>2. a <= Total
    BY <1>0, <1>10
  <2> QED BY <1>0, <1>10, <2>1, <2>2, AllWithin
<1>12. SubSeq([i \in 1..packet.size |-> Base + i], 1, q) = [i \in 1..q |-> Base + i]
  BY <1>0, <1>8, FrontOfAll
<1>13. p' = q /\ l7_size' = q
  BY <1>1, <1>8
<1>14. SubSeq(packet'.l7, 1, l7_size') = Select(Decoded, Base, a)
  BY <1>3, <1>5, <1>10, <1>11, <1>12, <1>13, Zenon
<1>15. Base + p' = a /\ Gap(a, e) /\ ~(sent < a) /\ l7_size' <= packet.size
  BY <1>0, <1>8, <1>9, <1>10, <1>13
<1>16. packet'.l7_content_size = packet.size /\ pc # "idle"
  BY <1>1, <1>3, <1>5
<1> QED BY <1>1, <1>2, <1>9, <1>14, <1>15, <1>16, LoopInStep

LEMMA SkipChunkInv ==
  ASSUME IInv, ChunkInv, SkipChunk
  PROVE  ChunkInv'
<1>1. /\ pc = "start" /\ stream' = stream /\ message' = message
      /\ sent' = sent /\ past' = past
      /\ packet' = [packet EXCEPT !.own = stream.http_chunked]
      /\ ~stream.http_chunked \/ stream.state = "END"
  BY DEF SkipChunk
<1>2. Still
  BY <1>1 DEF Still, IInv, TypeOK, PacketFields
<1>3. ~Live
  BY <1>1 DEF Live
<1> QED BY <1>1, <1>2, <1>3, StillInv

LEMMA ChunkStepInv ==
  ASSUME IInv, ChunkInv, Chunk
  PROVE  ChunkInv'
<1>1. pc # "idle"
  BY DEF Chunk, LargeChunk, EnterLoop, LineAtEnd, LastChunk, CutChunk, WholeChunk,
         Dechunking, InLoop
<1>2. Still
  <2>1. /\ message' = message /\ sent' = sent /\ past' = past
        /\ stream' = stream \/ \E o : stream' = [stream EXCEPT !.chunk_offset = o]
    BY DEF Chunk, LargeChunk, EnterLoop, LineAtEnd, LastChunk, CutChunk, WholeChunk,
           ChunkDone
  <2>2. packet'.size = packet.size
    BY DEF Chunk, LargeChunk, EnterLoop, LineAtEnd, LastChunk, CutChunk, WholeChunk,
           IInv, TypeOK, PacketFields
  <2> QED BY <2>1, <2>2 DEF Still, IInv, TypeOK, StreamFields
<1>3. ASSUME NEW h \in Nat, InStep(h) PROVE InStep(h)'
  BY <1>3, LargeChunkInStep, EnterLoopInStep, LineAtEndInStep, LastChunkInStep,
     CutChunkInStep, WholeChunkInStep DEF Chunk
<1> QED BY <1>1, <1>2, <1>3, StillInv

(* DecodeGzip leaves what DecodeChunk has set, and the content of a message *)
(* that is not packed.                                                     *)
Keeps(s) ==
  /\ s \in StreamFields /\ s.state = stream.state
  /\ s.http_chunked = stream.http_chunked /\ s.http_compress = stream.http_compress
  /\ s.chunk_offset = stream.chunk_offset
  /\ s.gzip_only_http_header = 0 => stream.gzip_only_http_header = 0

GzipKeeps ==
  /\ pc = "gzip" /\ packet'.size = packet.size
  /\ stream.http_compress = "NONE" => packet' = packet
  /\ \E s : Keeps(s) /\ GzipDone(s)

LEMMA KeepsFacts ==
  ASSUME NEW s, Keeps(s)
  PROVE  /\ Keeps(Counted(s)) /\ Keeps([s EXCEPT !.gzip_z = "ok"])
         /\ Keeps([s EXCEPT !.gzip_z = "bad"]) /\ Keeps([s EXCEPT !.l7_error = TRUE])
<1>1. PICK n \in 0..3 :
        n = IF s.gzip_only_http_header \in 1..2 THEN s.gzip_only_http_header + 1
            ELSE s.gzip_only_http_header
  BY DEF Keeps, StreamFields
<1>2. Counted(s) = [s EXCEPT !.gzip_only_http_header = n]
  BY <1>1 DEF Counted
<1>3. n = 0 => s.gzip_only_http_header = 0
  BY <1>1
<1> QED BY <1>2, <1>3 DEF Keeps, StreamFields

LEMMA InflateKeeps ==
  ASSUME IInv, Unpacking, NEW s, Keeps(s), NEW in, NEW keep, Inflate(s, in, keep)
  PROVE  GzipKeeps
<1>1. packet'.size = packet.size
  BY DEF Inflate, IInv, TypeOK, PacketFields
<1>2. \E t : Keeps(t) /\ GzipDone(t)
  BY KeepsFacts DEF Inflate
<1> QED BY <1>1, <1>2 DEF GzipKeeps, Unpacking

LEMMA InflateFromKeeps ==
  ASSUME IInv, Unpacking, NEW s, Keeps(s), NEW in, NEW offset, NEW keep,
         InflateFrom(s, in, offset, keep)
  PROVE  GzipKeeps
<1>1. CASE offset > Len(in)
  BY <1>1, KeepsFacts DEF InflateFrom, InflateWild, GzipKeeps, Unpacking
<1>2. CASE ~(offset > Len(in))
  BY <1>2, InflateKeeps DEF InflateFrom
<1> QED BY <1>1, <1>2

LEMMA GzipKeepsAll ==
  ASSUME IInv, Gzip
  PROVE  GzipKeeps
<1>0. Keeps(stream)
  BY DEF Keeps, IInv, TypeOK
<1>1. CASE SkipGzip
  BY <1>0, <1>1 DEF SkipGzip, GzipKeeps
<1>2. CASE GzipHttpHeader
  <2>1. PICK s : s = Counted([stream EXCEPT !.gzip_z = "ok"]) /\ Keeps(s)
    BY <1>0, KeepsFacts
  <2> QED BY <1>2, <2>1 DEF GzipHttpHeader, GzipKeeps, Unpacking
<1>3. CASE GzipBegin
  <2>1. PICK z : z = [stream EXCEPT !.gzip_z = "ok"] /\ Keeps(z)
    BY <1>0, KeepsFacts
  <2>2. PICK in, offset, keep :
          IF offset = -1
          THEN /\ UNCHANGED <<packet, fed, wild>>
               /\ GzipDone([z EXCEPT !.l7_error = TRUE])
          ELSE InflateFrom(z, in, offset, keep)
    BY <1>3, <2>1 DEF GzipBegin
  <2>3. Unpacking
    BY <1>3 DEF GzipBegin
  <2>4. CASE offset = -1
    <3>1. PICK s : s = [z EXCEPT !.l7_error = TRUE] /\ Keeps(s)
      BY <2>1, KeepsFacts
    <3> QED BY <2>2, <2>3, <2>4, <3>1 DEF GzipKeeps, Unpacking
  <2>5. CASE offset # -1
    BY <2>1, <2>2, <2>3, <2>5, InflateFromKeeps
  <2> QED BY <2>4, <2>5
<1>4. CASE GzipSecond
  <2>1. PICK s : s = Counted(stream) /\ Keeps(s)
    BY <1>0, KeepsFacts
  <2>2. PICK offset :
          IF offset = -1
          THEN /\ UNCHANGED <<packet, fed, wild>>
               /\ GzipDone([s EXCEPT !.gzip_z = "bad"])
          ELSE InflateFrom(s, Input, offset, <<>>)
    BY <1>4, <2>1 DEF GzipSecond
  <2>3. Unpacking
    BY <1>4 DEF GzipSecond
  <2>4. CASE offset = -1
    <3>1. PICK t : t = [s EXCEPT !.gzip_z = "bad"] /\ Keeps(t)
      BY <2>1, KeepsFacts
    <3> QED BY <2>2, <2>3, <2>4, <3>1 DEF GzipKeeps, Unpacking
  <2>5. CASE offset # -1
    BY <2>1, <2>2, <2>3, <2>5, InflateFromKeeps
  <2> QED BY <2>4, <2>5
<1>5. CASE GzipContinue
  BY <1>0, <1>5, InflateKeeps DEF GzipContinue
<1> QED BY <1>1, <1>2, <1>3, <1>4, <1>5 DEF Gzip

LEMMA GzipStepInv ==
  ASSUME IInv, ChunkInv, Gzip
  PROVE  ChunkInv'
<1>1. /\ pc = "gzip" /\ packet'.size = packet.size
      /\ stream.http_compress = "NONE" => packet' = packet
      /\ \E s : Keeps(s) /\ GzipDone(s)
  BY GzipKeepsAll DEF GzipKeeps
<1>2. PICK s : Keeps(s) /\ GzipDone(s)
  BY <1>1
<1>3. /\ stream' = s /\ pc' = "idle" /\ message' = message /\ sent' = sent
      /\ past' = past
  BY <1>2 DEF GzipDone
<1>4. Still
  BY <1>1, <1>2, <1>3 DEF Still, Keeps
<1>5. ASSUME NEW h \in Nat, InStep(h) PROVE InStep(h)'
  <2>0. sent \in Nat /\ stream.chunk_offset \in Nat
    BY Sizes
  <2>1. /\ Base' = Base /\ Total' = Total /\ Decoded' = Decoded
        /\ ChunksFrom(h) => ChunksFrom(h)'
        /\ sent = Total \/ ~InLine(sent) => (sent = Total \/ ~InLine(sent))'
        /\ Tight(sent) => Tight(sent)'
    BY <1>4, StillFacts
  <2>2. /\ ChunksFrom(h) /\ (sent = Total \/ ~InLine(sent))
        /\ past.tight = TRUE => Tight(sent)
        /\ AtEnd
    BY <1>1, <1>5 DEF InStep
  <2>3. IsRest(stream.chunk_offset, sent)'
    <3>1. stream'.chunk_offset = stream.chunk_offset
      BY <1>2, <1>3 DEF Keeps
    <3>2. IsRest(stream.chunk_offset, sent)
      BY <2>2 DEF AtEnd
    <3> QED BY <1>3, <2>1, <3>1, <3>2 DEF IsRest
  <2>4. ASSUME stream'.http_compress = "NONE"
        PROVE  (\E n \in Nat :
                 /\ n <= packet.l7_content_size /\ Filled(n, sent)
                 /\ past.tight = TRUE => n = packet.l7_content_size)'
    <3>1. stream.http_compress = "NONE" /\ packet' = packet
      BY <1>1, <1>2, <1>3, <2>4 DEF Keeps
    <3>2. PICK n \in Nat : /\ n <= packet.l7_content_size /\ Filled(n, sent)
                           /\ past.tight = TRUE => n = packet.l7_content_size
      BY <1>1, <2>2 DEF AtEnd
    <3>3. Filled(n, sent)'
      BY <1>3, <2>1, <3>1, <3>2 DEF Filled
    <3> QED BY <1>3, <3>1, <3>2, <3>3
  <2>5. AtEnd'
    BY <1>3, <2>3, <2>4 DEF AtEnd
  <2> QED BY <1>3, <2>1, <2>2, <2>5 DEF InStep
<1> QED BY <1>1, <1>4, <1>5, StillInv

-----------------------------------------------------------------------------
(* A packet that is received. *)

LEMMA SameMessage ==
  ASSUME NEW m, NEW q, m.bytes = q.bytes, m.role = q.role, NEW h
  PROVE  /\ HasHeader(m, h) <=> HasHeader(q, h)
         /\ InChunks(m, h) <=> InChunks(q, h)
<1>1. HasHeader(m, h) <=> HasHeader(q, h)
  BY DEF HasHeader
<1>2. Bounds(m, h) = Bounds(q, h)
  BY DEF Bounds
<1>3. ASSUME NEW i, NEW j PROVE Number(m, i, j) = Number(q, i, j)
  BY DEF Number
<1>4. ASSUME NEW i, NEW j, NEW k PROVE IsChunk(m, i, j, k) <=> IsChunk(q, i, j, k)
  <2>1. IsLine(m, i, j, k - 2 - j) <=> IsLine(q, i, j, k - 2 - j)
    BY <1>3 DEF IsLine
  <2> QED BY <2>1 DEF IsChunk
<1> QED BY <1>1, <1>2, <1>4 DEF InChunks

(* What strstr finds, if it is nothing that may stand behind the packet.   *)
LEMMA FindFacts ==
  ASSUME NEW n \in Nat, NEW mem \in Seq(STRING), NEW b, b \notin ToSet(mem),
         b # "nul", Has(0, n, mem, b)
  PROVE  \E i \in 1..n : Find(0, n, mem, b) + 1 = i /\ message.bytes[i] = b
<1> DEFINE all == {i \in 0..(n + Len(mem) - 1) : Byte(0, n, mem, i) = b}
<1>1. Len(mem) \in Nat
  BY LenProperties
<1>2. Find(0, n, mem, b) = IF all = {} THEN n + Len(mem) ELSE Min(all)
  BY DEF Find
<1>3. Find(0, n, mem, b) < n + Len(mem)
  BY DEF Has
<1>4. all \in SUBSET Nat /\ \A i \in all : i < n + Len(mem) /\ Byte(0, n, mem, i) = b
  BY <1>1
<1> HIDE DEF all
<1>5. all # {}
  BY <1>1, <1>2, <1>3
<1>6. PICK i \in all : Find(0, n, mem, b) = i
  BY <1>2, <1>4, <1>5, MinFacts
<1>7. i \in Nat /\ i < n + Len(mem) /\ Byte(0, n, mem, i) = b
  BY <1>4
<1>8. i < n
  <2> SUFFICES ASSUME i >= n PROVE FALSE
    BY <1>7
  <2>1. i - n < Len(mem) /\ ~(i < n) /\ (i - n) + 1 \in 1..Len(mem)
    BY <1>1, <1>7
  <2>2. mem[(i - n) + 1] = b
    BY <1>7, <2>1 DEF Byte
  <2>3. mem[(i - n) + 1] \in ToSet(mem)
    BY <2>1 DEF ToSet
  <2> QED BY <2>2, <2>3
<1>9. message.bytes[0 + i + 1] = b
  BY <1>7, <1>8 DEF Byte
<1>10. PICK x \in 1..n : x = i + 1 /\ x = 0 + i + 1
  BY <1>7, <1>8
<1> QED BY <1>6, <1>9, <1>10

LEMMA FindsIt ==
  ASSUME NEW n \in Nat, NEW mem \in Seq(STRING), NEW i \in 1..n
  PROVE  Has(0, n, mem, message.bytes[i])
<1> DEFINE b == message.bytes[i]
           all == {k \in 0..(n + Len(mem) - 1) : Byte(0, n, mem, k) = b}
<1>1. Len(mem) \in Nat
  BY LenProperties
<1>2. PICK k \in Nat : k + 1 = i /\ 0 + k + 1 = i /\ k < n
  <2>1. i - 1 \in Nat
    OBVIOUS
  <2> QED BY <2>1
<1>3. Byte(0, n, mem, k) = b
  BY <1>2 DEF Byte
<1>4. k \in 0..(n + Len(mem) - 1)
  BY <1>1, <1>2
<1>5. k \in all /\ all \in SUBSET Nat
  BY <1>1, <1>3, <1>4
<1>6. Find(0, n, mem, b) = IF all = {} THEN n + Len(mem) ELSE Min(all)
  BY DEF Find
<1> HIDE DEF all, b
<1>7. PICK m \in Nat : m = Find(0, n, mem, b) /\ m <= k
  BY <1>5, <1>6, MinFacts
<1>8. Find(0, n, mem, b) < n + Len(mem)
  BY <1>1, <1>2, <1>7
<1> QED BY <1>8 DEF Has, b

(* The header of the first packet is found with the fields that are in it, *)
(* which are all that the message has.                                     *)
LEMMA BeginFacts ==
  ASSUME IInv, ChunkInv, NEW n \in 0..Len(message.bytes), NEW mem \in Behind,
         Receive(n, FALSE, mem), stream.state = "NEW", past'.aligned = TRUE,
         stream'.http_chunked = TRUE \/ stream'.http_compress # "NONE"
  PROVE  \E h \in 1..n :
           /\ HasHeader(message, h) /\ Base' = 0 /\ sent' = n /\ sent = 0 /\ n > 0
           /\ stream'.state = "BEGIN" /\ stream'.http_header_size = h
           /\ stream'.gzip_only_http_header = IF h = n THEN 1 ELSE 0
           /\ stream'.l7_error = FALSE
           /\ stream'.http_chunked = TRUE => InChunks(message, h)
           /\ stream'.http_compress # "NONE" =>
                \E m \in Messages :
                  /\ m.bytes = message.bytes /\ m.role = message.role
                  /\ IsPacked(m)
                  /\ stream'.http_chunked = FALSE =>
                       \A k \in (h + 1)..Total : message.role[k] = "data"
<1>0. /\ message.bytes \in Seq(STRING) /\ Len(message.bytes) \in Nat /\ n \in Nat
      /\ mem \in Seq(STRING) /\ Total \in Nat /\ Total = Len(message.bytes)
  <2>1. Total \in Nat
    BY Sizes
  <2> QED BY <2>1, MemoryAssumption DEF IInv, Total
<1>1. sent = 0 /\ stream = NewStream
  BY DEF ChunkInv
<1> DEFINE s == [stream EXCEPT !.state = "BEGIN"]
<1>2. /\ sent + n <= Len(message.bytes) /\ sent' = sent + n
      /\ stream' = AnalyzeHeader(s, n, mem)
      /\ message' = message
      /\ packet' = [size |-> n, l7 |-> [i \in 1..n |-> sent + i],
                    l7_content_size |-> n, own |-> FALSE]
      /\ past' = [aligned |-> past.aligned /\ n > 0 /\ Aligned(sent + n, mem),
                  tight |-> past.tight /\ n > 0 /\ Tight(sent + n)]
  BY DEF Receive
<1>3. /\ s.http_chunked = FALSE /\ s.http_compress = "NONE" /\ s.l7_error = FALSE
      /\ s.state = "BEGIN" /\ s \in StreamFields
  <2>1. /\ stream.http_chunked = FALSE /\ stream.http_compress = "NONE"
        /\ stream.l7_error = FALSE
    BY <1>1 DEF NewStream
  <2> QED BY <2>1 DEF IInv, TypeOK, StreamFields
<1> HIDE DEF s
<1>4. sent + n = n /\ n <= Total
  BY <1>0, <1>1, <1>2
<1>5. n > 0 /\ Aligned(n, mem)
  BY <1>2, <1>4
<1>6. /\ \A x \in Marks : x \notin ToSet(mem) /\ x # "nul"
      /\ "ext" \notin ToSet(message.role)
  BY <1>5 DEF Aligned, Marks
<1>7. message.web /\ Has(0, n, mem, "end")
  BY <1>2, <1>3 DEF AnalyzeHeader
<1>8. PICK size \in Nat : size = Find(0, n, mem, "end") + 1
  <2>1. "end" \in Marks
    BY DEF Marks
  <2> QED BY <1>0, <1>6, <1>7, <2>1, FindFacts
<1>9. /\ stream'.http_chunked = Has(0, n, mem, "te")
      /\ stream'.http_header_size = size
      /\ stream'.gzip_only_http_header = IF size = n THEN 1 ELSE 0
      /\ stream'.http_compress # "NONE" => Has(0, n, mem, "gz") \/ Has(0, n, mem, "df")
      /\ stream'.state = "BEGIN" /\ stream'.l7_error = FALSE
  BY <1>2, <1>3, <1>7, <1>8 DEF AnalyzeHeader, StreamFields
<1>10. ASSUME NEW b \in Marks, Has(0, n, mem, b)
       PROVE  \E i \in 1..n : Find(0, n, mem, b) + 1 = i /\ message.bytes[i] = b
  BY <1>0, <1>6, <1>10, FindFacts
<1>11. PICK h \in 1..n : size = h /\ message.bytes[h] = "end"
  <2>1. "end" \in Marks
    BY DEF Marks
  <2> QED BY <1>7, <1>8, <1>10, <2>1
<1>12. \A i \in 1..n : message.bytes[i] \in ToSet(message.bytes) /\ i \in 1..Total
  BY <1>0, <1>4 DEF ToSet
<1>13. PICK m \in Messages : m.bytes = message.bytes /\ m.role = message.role
  BY DEF ChunkInv
<1>14. "end" \in ToSet(m.bytes)
  BY <1>11, <1>12, <1>13
<1>15. PICK g \in 1..Len(m.bytes) :
         /\ HasHeader(m, g)
         /\ "te" \in ToSet(m.bytes) /\ "ext" \notin ToSet(m.role) => InChunks(m, g)
         /\ {"gz", "df"} \cap ToSet(m.bytes) # {} =>
              /\ IsPacked(m)
              /\ "te" \notin ToSet(m.bytes) =>
                   \A k \in (g + 1)..Len(m.bytes) : m.role[k] = "data"
  BY <1>14, PeerAssumption
<1>16. HasHeader(message, g)
  BY <1>13, <1>15, SameMessage
<1>17. g = h
  <2>1. h \in 1..Total
    BY <1>12
  <2> QED BY <1>11, <1>16, <2>1 DEF HasHeader, Total
<1>18. stream'.http_chunked = TRUE => InChunks(message, h)
  <2> SUFFICES ASSUME stream'.http_chunked = TRUE PROVE InChunks(message, h)
    OBVIOUS
  <2>1. Has(0, n, mem, "te") /\ "te" \in Marks
    BY <1>9 DEF Marks
  <2>2. "te" \in ToSet(message.bytes)
    BY <1>10, <1>12, <2>1
  <2>3. InChunks(m, g)
    BY <1>6, <1>13, <1>15, <2>2
  <2> QED BY <1>13, <1>17, <2>3, SameMessage
<1>19. ASSUME stream'.http_compress # "NONE"
       PROVE  /\ IsPacked(m)
              /\ stream'.http_chunked = FALSE =>
                   \A k \in (h + 1)..Total : message.role[k] = "data"
  <2>1. {"gz", "df"} \cap ToSet(m.bytes) # {}
    <3>1. PICK b \in {"gz", "df"} : Has(0, n, mem, b)
      BY <1>9, <1>19
    <3>2. b \in Marks
      BY DEF Marks
    <3>3. b \in ToSet(message.bytes)
      BY <1>10, <1>12, <3>1, <3>2
    <3> QED BY <1>13, <3>3
  <2>2. ASSUME stream'.http_chunked = FALSE PROVE "te" \notin ToSet(m.bytes)
    <3> SUFFICES ASSUME "te" \in ToSet(m.bytes) PROVE FALSE
      OBVIOUS
    <3>1. PICK i \in 1..Total : message.bytes[i] = "te"
      BY <1>0, <1>13 DEF ToSet
    <3>2. "te" \in Marks
      BY DEF Marks
    <3>3. i <= g
      BY <1>16, <3>1, <3>2 DEF HasHeader, Total
    <3>4. i \in 1..n
      BY <1>17, <3>3
    <3>5. Has(0, n, mem, message.bytes[i])
      BY <1>0, <3>4, FindsIt
    <3> QED BY <1>9, <2>2, <3>1, <3>5
  <2> QED BY <1>0, <1>13, <1>15, <1>17, <2>1, <2>2
<1>20. Base' = 0 /\ sent' = n
  BY <1>0, <1>1, <1>2, <1>4 DEF Base
<1> QED BY <1>1, <1>5, <1>9, <1>11, <1>13, <1>16, <1>17, <1>18, <1>19, <1>20

LEMMA BeginInStep ==
  ASSUME IInv, ChunkInv, NEW n \in 0..Len(message.bytes), NEW mem \in Behind,
         Receive(n, FALSE, mem), stream.state = "NEW", Live'
  PROVE  (\E h \in Nat : InStep(h))'
<1>0. n \in Nat /\ Total = Len(message.bytes) /\ Total \in Nat
  <2>1. Total \in Nat
    BY Sizes
  <2> QED BY <2>1 DEF Total
<1>1. PICK h \in 1..n :
        /\ HasHeader(message, h) /\ Base' = 0 /\ sent' = n /\ sent = 0 /\ n > 0
        /\ stream'.state = "BEGIN" /\ stream'.http_header_size = h
        /\ stream'.http_chunked = TRUE => InChunks(message, h)
  BY BeginFacts DEF Live
<1>2. InChunks(message, h)
  BY <1>1 DEF Live
<1>3. /\ behind' = mem /\ pc' = "start" /\ message' = message
      /\ packet' = [size |-> n, l7 |-> [i \in 1..n |-> sent + i],
                    l7_content_size |-> n, own |-> FALSE]
      /\ past' = [aligned |-> past.aligned /\ n > 0 /\ Aligned(sent + n, mem),
                  tight |-> past.tight /\ n > 0 /\ Tight(sent + n)]
  BY DEF Receive
<1>4. Aligned(n, mem) /\ (past'.tight = TRUE => Tight(n))
  <2>1. sent + n = n
    BY <1>0, <1>1
  <2> QED BY <1>3, <2>1 DEF Live
<1>5. /\ ToSet(mem) \cap ToSet(Digits) = {}
      /\ n = Total \/ ~InLine(n)
  BY <1>0, <1>4 DEF Aligned
<1>6. AtStart(h)'
  <2>1. packet'.l7 = [i \in 1..n |-> Base' + i]
    BY <1>1, <1>3
  <2>2. packet'.l7_content_size = n /\ packet'.size = n
    BY <1>3
  <2> QED BY <1>1, <2>1, <2>2 DEF AtStart
<1>7. ChunksFrom(h)'
  BY <1>1, <1>2, <1>3 DEF ChunksFrom
<1>8. (sent = Total \/ ~InLine(sent))' /\ (past.tight = TRUE => Tight(sent))'
  BY <1>1, <1>3, <1>4, <1>5 DEF Total, InLine, Tight, InData
<1>9. NoDigitBehind'
  BY <1>3, <1>5 DEF NoDigitBehind
<1>10. InStep(h)'
  BY <1>3, <1>6, <1>7, <1>8, <1>9 DEF InStep
<1>11. h \in Nat
  OBVIOUS
<1> QED BY <1>10, <1>11

(* A later one begins where the decoder was left.                          *)
LEMMA ContinueInStep ==
  ASSUME IInv, ChunkInv, NEW n \in 0..Len(message.bytes), NEW mem \in Behind,
         Receive(n, FALSE, mem), stream.state # "NEW", Live'
  PROVE  (\E h \in Nat : InStep(h))'
<1>0. sent \in Nat /\ sent <= Total /\ Total \in Nat /\ n \in Nat
      /\ Total = Len(message.bytes) /\ stream.chunk_offset \in Nat
  <2>1. sent \in Nat /\ sent <= Total /\ Total \in Nat /\ stream.chunk_offset \in Nat
    BY Sizes
  <2> QED BY <2>1 DEF Total
<1>1. /\ pc = "idle" /\ stream.state # "END"
      /\ sent + n <= Len(message.bytes) /\ sent' = sent + n
      /\ stream' = [stream EXCEPT !.state = "CONTINUE"]
      /\ behind' = mem /\ pc' = "start" /\ message' = message
      /\ packet' = [size |-> n, l7 |-> [i \in 1..n |-> sent + i],
                    l7_content_size |-> n, own |-> FALSE]
      /\ past' = [aligned |-> past.aligned /\ n > 0 /\ Aligned(sent + n, mem),
                  tight |-> past.tight /\ n > 0 /\ Tight(sent + n)]
  <2>1. [stream EXCEPT !.state = "CONTINUE"].state # "BEGIN"
    BY DEF IInv, TypeOK, StreamFields
  <2> QED BY <2>1 DEF Receive
<1>2. /\ stream'.http_chunked = stream.http_chunked /\ stream'.state = "CONTINUE"
      /\ stream'.chunk_offset = stream.chunk_offset
  BY <1>1 DEF IInv, TypeOK, StreamFields
<1>3. /\ past.aligned /\ n > 0 /\ Aligned(sent + n, mem)
      /\ past'.tight = TRUE => past.tight /\ Tight(sent + n)
  BY <1>1 DEF Live
<1>4. past.aligned = TRUE /\ (past'.tight = TRUE => past.tight = TRUE)
  BY <1>3 DEF ChunkInv
<1>5. PICK h \in Nat : InStep(h)
  BY <1>1, <1>2, <1>4 DEF ChunkInv, Live
<1>6. sent < Total
  BY <1>0, <1>1, <1>3
<1>7. /\ h \in 1..sent /\ HasHeader(message, h) /\ InChunks(message, h)
      /\ ~InLine(sent) /\ (past.tight = TRUE => Tight(sent))
      /\ IsRest(stream.chunk_offset, sent)
  BY <1>0, <1>1, <1>5, <1>6 DEF InStep, ChunksFrom, AtEnd
<1>8. packet'.size = n /\ Base' = sent /\ Total' = Total
  BY <1>0, <1>1 DEF Base, Total
<1>9. /\ ToSet(mem) \cap ToSet(Digits) = {}
      /\ sent + n = Total \/ ~InLine(sent + n)
  BY <1>0, <1>3 DEF Aligned
<1>10. AtStart(h)'
  <2>1. packet'.l7 = [i \in 1..n |-> Base' + i]
    BY <1>1, <1>8
  <2>2. packet'.l7_content_size = n
    BY <1>1
  <2>3. h <= Base' /\ ~InLine(Base)'
    BY <1>0, <1>1, <1>7, <1>8 DEF InLine
  <2>4. IsRest(stream.chunk_offset, Base)'
    BY <1>1, <1>2, <1>7, <1>8 DEF IsRest
  <2>5. (past.tight = TRUE => message.bytes[Base] = "end" \/ InData(Base))'
    BY <1>0, <1>1, <1>4, <1>6, <1>7, <1>8 DEF Tight, InData
  <2> QED BY <1>2, <1>3, <1>8, <2>1, <2>2, <2>3, <2>4, <2>5 DEF AtStart
<1>11. ChunksFrom(h)'
  BY <1>0, <1>1, <1>7 DEF ChunksFrom
<1>12. (sent = Total \/ ~InLine(sent))' /\ (past.tight = TRUE => Tight(sent))'
  BY <1>1, <1>3, <1>8, <1>9 DEF InLine, Tight, InData
<1>13. NoDigitBehind'
  BY <1>1, <1>9 DEF NoDigitBehind
<1>14. InStep(h)'
  BY <1>1, <1>10, <1>11, <1>12, <1>13 DEF InStep
<1> QED BY <1>14

LEMMA ReceiveInv ==
  ASSUME IInv, ChunkInv, NEW n \in 0..Len(message.bytes), NEW fin \in BOOLEAN,
         NEW mem \in Behind, Receive(n, fin, mem)
  PROVE  ChunkInv'
<1>1. message' = message /\ pc' = "start"
  BY DEF Receive
<1>2. (\E m \in Messages, web \in BOOLEAN :
         message = [bytes |-> m.bytes, role |-> m.role, web |-> web])'
  BY <1>1 DEF ChunkInv
<1>3. past'.aligned \in BOOLEAN /\ past'.tight \in BOOLEAN
  BY DEF Receive
<1>4. stream'.state = IF fin THEN "END" ELSE IF stream.state = "NEW" THEN "BEGIN"
                      ELSE "CONTINUE"
  <2> DEFINE s == [stream EXCEPT !.state =
                     IF fin THEN "END" ELSE IF @ = "NEW" THEN "BEGIN" ELSE "CONTINUE"]
  <2>1. /\ s.state = IF fin THEN "END" ELSE IF stream.state = "NEW" THEN "BEGIN"
                     ELSE "CONTINUE"
        /\ s \in StreamFields
    BY DEF IInv, TypeOK, StreamFields
  <2>2. stream' = IF s.state = "BEGIN" THEN AnalyzeHeader(s, n, mem) ELSE s
    BY DEF Receive
  <2> HIDE DEF s
  <2>3. AnalyzeHeader(s, n, mem).state = s.state
    BY <2>1 DEF AnalyzeHeader, StreamFields
  <2> QED BY <2>1, <2>2, <2>3
<1>5. stream'.state # "NEW"
  BY <1>4
<1>6. Live' => (\E h \in Nat : InStep(h))'
  <2> SUFFICES ASSUME Live' PROVE (\E h \in Nat : InStep(h))'
    OBVIOUS
  <2>1. fin = FALSE
    BY <1>4 DEF Live
  <2>2. Receive(n, FALSE, mem)
    BY <2>1
  <2> QED BY <2>2, BeginInStep, ContinueInStep
<1> QED BY <1>2, <1>3, <1>5, <1>6 DEF ChunkInv

LEMMA Init_ChunkInv == Init => ChunkInv
BY DEF Init, ChunkInv, Live, NewStream

LEMMA NextStreamInv ==
  ASSUME NextStream
  PROVE  ChunkInv'
BY DEF NextStream, ChunkInv, Live, NewStream

LEMMA UnchangedInv ==
  ASSUME ChunkInv, UNCHANGED vars
  PROVE  ChunkInv'
<1>1. /\ message' = message /\ sent' = sent /\ stream' = stream /\ packet' = packet
      /\ behind' = behind /\ pc' = pc /\ p' = p /\ l7_size' = l7_size /\ past' = past
  BY DEF vars
<1>2. \A h \in Nat : InStep(h)' <=> InStep(h)
  BY <1>1 DEF InStep, ChunksFrom, InLine, Tight, InData, NoDigitBehind, AtStart,
       AtChunk, AtEnd, Total, Base, IsRest, Gap, Filled, Decoded, With, Positions
<1>3. Live' <=> Live
  BY <1>1 DEF Live
<1> QED BY <1>1, <1>2, <1>3 DEF ChunkInv

LEMMA ChunkInvIsInductive == IInv /\ ChunkInv /\ [Next]_vars => ChunkInv'
<1> SUFFICES ASSUME IInv, ChunkInv, [Next]_vars PROVE ChunkInv'
  OBVIOUS
<1>1. ASSUME NEW n \in 0..Len(message.bytes), NEW fin \in BOOLEAN,
             NEW mem \in Behind, Receive(n, fin, mem)
      PROVE  ChunkInv'
  BY <1>1, ReceiveInv
<1>2. CASE SkipChunk
  BY <1>2, SkipChunkInv
<1>3. CASE Chunk
  BY <1>3, ChunkStepInv
<1>4. CASE Gzip
  BY <1>4, GzipStepInv
<1>5. CASE NextStream
  BY <1>5, NextStreamInv
<1>6. CASE UNCHANGED vars
  BY <1>6, UnchangedInv
<1> QED
  BY <1>1, <1>2, <1>3, <1>4, <1>5, <1>6 DEF Next

(* What the invariant says when a packet is done. *)

LEMMA RestIs ==
  ASSUME Total \in Nat, sent \in Nat, 0 < sent, sent <= Total, NEW r, IsRest(r, sent)
  PROVE  RestOfChunk = r
<1>1. /\ r \in Nat /\ sent + r <= Total
      /\ \A x \in (sent + 1)..(sent + r) : message.role[x] = "data"
      /\ sent + r = Total \/ message.role[sent + r + 1] # "data"
  BY DEF IsRest
<1>2. PICK e \in Nat : e = sent + r /\ e - sent = r
  BY <1>1
<1>3. e \in Ahead
  BY <1>1, <1>2 DEF Ahead, Total
<1>4. \A i \in Ahead : i \in 1..Total /\ i <= e
  <2> SUFFICES ASSUME NEW i \in Ahead PROVE i \in 1..Total /\ i <= e
    OBVIOUS
  <2>1. i \in sent..Total /\ \A j \in (sent + 1)..i : message.role[j] = "data"
    BY DEF Ahead, Total
  <2>2. SUFFICES ASSUME i > e PROVE FALSE
    BY <2>1
  <2>3. e + 1 \in (sent + 1)..i /\ e # Total
    BY <1>1, <1>2, <2>1, <2>2
  <2>4. message.role[e + 1] = "data" /\ message.role[e + 1] # "data"
    BY <1>1, <1>2, <2>1, <2>3
  <2> QED BY <2>4
<1>5. Ahead \in SUBSET (1..Total) /\ Ahead # {}
  BY <1>3, <1>4
<1>6. Max(Ahead) \in Ahead /\ \A y \in Ahead : Max(Ahead) >= y
  BY <1>5, MaxOf
<1>7. Max(Ahead) = e
  <2>1. PICK y \in Ahead : y = Max(Ahead) /\ y >= e
    BY <1>3, <1>6
  <2>2. y \in 1..Total /\ y <= e
    BY <1>4
  <2> QED BY <1>2, <2>1, <2>2
<1> QED BY <1>2, <1>7 DEF RestOfChunk

LEMMA InStepDecodes == IInv /\ ChunkInv => ChunksDecoded
<1> SUFFICES ASSUME IInv, ChunkInv, Dechunked PROVE ChunksDecoded
  BY DEF ChunksDecoded, OffsetIfAligned, DataInFront, SizeIfTight
<1>0. /\ sent \in Nat /\ sent <= Total /\ Total \in Nat
      /\ packet.l7 \in Seq(Positions) /\ packet.l7_content_size \in Nat
      /\ Base \in Nat /\ Base <= sent
  BY Sizes DEF Base
<1>1. Live /\ pc = "idle"
  <2>1. stream.http_chunked \in BOOLEAN /\ past.aligned \in BOOLEAN
    BY DEF IInv, TypeOK, StreamFields, ChunkInv
  <2> QED BY <2>1 DEF Dechunked, Live
<1>2. PICK h \in Nat : InStep(h)
  BY <1>1 DEF ChunkInv
<1>3. h \in 1..sent /\ AtEnd
  BY <1>1, <1>2 DEF InStep, ChunksFrom
<1>4. IsRest(stream.chunk_offset, sent)
  BY <1>3 DEF AtEnd
<1>5. OffsetIfAligned
  BY <1>0, <1>3, <1>4, RestIs DEF OffsetIfAligned
<1>6. ASSUME stream.http_compress = "NONE"
      PROVE  LET data == InPacket({"head", "data"})
             IN /\ Len(data) <= packet.l7_content_size
                /\ SubSeq(packet.l7, 1, Len(data)) = data
                /\ past.tight = TRUE => packet.l7_content_size = Len(data)
  <2>1. PICK n \in Nat : /\ n <= packet.l7_content_size /\ Filled(n, sent)
                         /\ past.tight = TRUE => n = packet.l7_content_size
    BY <1>3, <1>6 DEF AtEnd
  <2>2. SubSeq(packet.l7, 1, n) = InPacket({"head", "data"})
    BY <2>1 DEF Filled, Decoded, Base, InPacket
  <2>3. Len(SubSeq(packet.l7, 1, n)) = n
    <3>1. n <= Len(packet.l7)
      <4>1. packet.l7_content_size <= Len(packet.l7) /\ Len(packet.l7) \in Nat
        BY <1>0, LenProperties DEF IInv, L7InBounds
      <4> QED BY <1>0, <2>1, <4>1
    <3> QED BY <1>0, <3>1, FrontFacts
  <2>4. Len(InPacket({"head", "data"})) = n
    BY <2>2, <2>3, Zenon
  <2> QED BY <2>1, <2>2, <2>4
<1>7. past.tight \in BOOLEAN
  BY DEF ChunkInv
<1>8. DataInFront /\ SizeIfTight
  BY <1>6, <1>7 DEF DataInFront, SizeIfTight
<1> QED BY <1>5, <1>8 DEF ChunksDecoded

-----------------------------------------------------------------------------
(* How inflate keeps in step with data that is packed. *)

Data == With({"data"})

(* The header of the data is at c and d; what is deflated is behind it.    *)
PackedAt(c, d) ==
  /\ c \in Data /\ d \in Data /\ c < d
  /\ \A k \in Data : k = c \/ k >= d
  /\ message.bytes[c] = "m" /\ message.bytes[d] = "n"
  /\ \A k \in Data \ {c, d} : k \in Zs
  /\ Zs \subseteq Data

(* What the hypotheses of InflateInOrder say, whatever Proc is at.         *)
Packed ==
  /\ past.aligned = TRUE /\ past.tight = TRUE
  /\ stream.http_compress # "NONE"
  /\ stream.http_chunked = TRUE => stream.state # "END"
  /\ stream.http_compress = "DEFLATE" => stream.gzip_only_http_header = 0

(* All that has been sent is unpacked.  After a packet with the HTTP header *)
(* alone gzip_only_http_header_ waits for the second.                      *)
AllUnpacked(h) ==
  /\ stream.gzip_z = "ok" /\ fed = Select(Zs, 0, sent)
  /\ sent = h => stream.gzip_only_http_header = 2
  /\ sent # h => stream.gzip_only_http_header \in {0, 3}
  /\ LET new == Select(Data \cap Zs, Base, sent)
     IN new # <<>> => SubSeq(packet.l7, 1, packet.l7_content_size) =
                        InPacket({"head"}) \o new

(* All but the packet; DecodeGzip will read the copy of what is in chunks. *)
ToUnpack(h, d) ==
  /\ packet.size > 0
  /\ fed = Select(Zs, 0, Base)
  /\ stream.state = "BEGIN" =>
       /\ Base = 0 /\ stream.http_header_size = h
       /\ stream.gzip_only_http_header = IF sent = h THEN 1 ELSE 0
  /\ stream.state # "BEGIN" =>
       /\ stream.gzip_z = "ok" /\ h <= Base
       /\ Base = h => stream.gzip_only_http_header = 2
       /\ Base # h => d <= Base /\ stream.gzip_only_http_header \in {0, 3}
  /\ pc = "chunk" => stream.http_chunked = TRUE
  /\ pc # "start" /\ stream.http_chunked = TRUE => packet.own = TRUE
  /\ pc = "start" \/ stream.http_chunked = FALSE =>
       packet.own = FALSE /\ packet.l7 = [i \in 1..packet.size |-> Base + i]

InOrder(h, c, d) ==
  /\ h \in 1..sent /\ HasHeader(message, h) /\ PackedAt(c, d)
  /\ sent = h \/ d <= sent
  /\ stream.http_chunked = FALSE =>
       \A k \in (h + 1)..Total : message.role[k] = "data"
  /\ stream.l7_error = FALSE
  /\ pc = "idle" => AllUnpacked(h)
  /\ pc # "idle" => ToUnpack(h, d)

PackInv ==
  /\ stream.state = "NEW" => fed = <<>>
  /\ Packed => \E h, c, d \in Nat : InOrder(h, c, d)

(* The places of the header and of the data behind it.                     *)
LEMMA PackedPlaces ==
  ASSUME Total \in Nat, NEW h \in Nat, NEW c \in Nat, NEW d \in Nat,
         HasHeader(message, h), PackedAt(c, d)
  PROVE  /\ h < c /\ c < d /\ d <= Total
         /\ \A x \in 1..Total : x \in Data => h < x /\ (x = c \/ x >= d)
         /\ c \in Data /\ d \in Data /\ message.bytes[c] = "m"
         /\ \A x \in 1..d : x \notin Zs
         /\ \A x \in (d + 1)..Total : x \in Data <=> x \in Zs
<1>1. /\ c \in Data /\ d \in Data /\ c < d
      /\ \A k \in Data : k = c \/ k >= d
      /\ message.bytes[c] = "m" /\ message.bytes[d] = "n"
      /\ \A k \in Data \ {c, d} : k \in Zs
      /\ Zs \subseteq Data
  BY DEF PackedAt
<1>2. \A x \in Data : x \in 1..Total /\ message.role[x] = "data"
  BY DEF Data, With, Positions, Total
<1>3. \A x \in 1..Total : message.role[x] = "head" <=> x <= h
  BY DEF HasHeader, Total
<1>4. \A x \in Data : h < x
  <2> TAKE x \in Data
  <2>1. x \in 1..Total /\ message.role[x] # "head"
    BY <1>2
  <2> QED BY <1>3, <2>1
<1>5. \A x \in Zs : message.bytes[x] = "z"
  BY DEF Zs
<1>6. \A x \in 1..d : x \notin Zs
  <2> SUFFICES ASSUME NEW x \in 1..d, x \in Zs PROVE FALSE
    OBVIOUS
  <2>1. x = c \/ x = d
    BY <1>1
  <2> QED BY <1>1, <1>5, <2>1
<1>7. \A x \in (d + 1)..Total : x \in Data <=> x \in Zs
  <2> TAKE x \in (d + 1)..Total
  <2>1. x # c /\ x # d
    BY <1>1
  <2> QED BY <1>1, <2>1
<1>8. d \in 1..Total
  BY <1>1, <1>2
<1> QED BY <1>1, <1>4, <1>6, <1>7, <1>8

(* Behind the HTTP header the data begins with its own.                    *)
LEMMA PackedData ==
  ASSUME Total \in Nat, NEW h \in Nat, NEW c \in Nat, NEW d \in Nat,
         HasHeader(message, h), PackedAt(c, d), NEW b \in Nat, d <= b, b <= Total
  PROVE  Select(Data, h, b) = <<c, d>> \o Select(Zs, 0, b)
<1>1. /\ h < c /\ c < d /\ d <= Total
      /\ \A x \in 1..Total : x \in Data => h < x /\ (x = c \/ x >= d)
      /\ c \in Data /\ d \in Data
      /\ \A x \in 1..d : x \notin Zs
      /\ \A x \in (d + 1)..Total : x \in Data <=> x \in Zs
  BY PackedPlaces
<1>2. PICK e \in Nat, f \in Nat :
        e + 1 = c /\ f + 1 = d /\ h <= e /\ e <= c /\ c <= f /\ h <= c /\ h <= f /\ h <= d
  <2>1. c - 1 \in Nat /\ d - 1 \in Nat
    BY <1>1
  <2> QED BY <1>1, <2>1
<1>3. Select(Data, h, e) = <<>>
  <2>1. \A x \in (h + 1)..e : x \notin Data
    BY <1>1, <1>2
  <2> QED BY <1>2, <2>1, SelectNothing
<1>4. Select(Data, h, c) = <<c>>
  <2>1. Select(Data, h, e + 1) = Append(Select(Data, h, e), e + 1)
    BY <1>1, <1>2, SelectNext
  <2>2. Append(<<>>, c) = <<c>>
    OBVIOUS
  <2> QED BY <1>2, <1>3, <2>1, <2>2, Zenon
<1>5. Select(Data, h, f) = <<c>>
  <2>1. Select(Data, c, f) = <<>>
    <3>1. \A x \in (c + 1)..f : x \notin Data
      BY <1>1, <1>2
    <3> QED BY <1>2, <3>1, SelectNothing
  <2>2. Joins(Data, h, c, f)
    BY <1>2, SelectJoin
  <2>3. <<c>> \o <<>> = <<c>>
    OBVIOUS
  <2> QED BY <1>4, <2>1, <2>2, <2>3, Zenon DEF Joins
<1>6. Select(Data, h, d) = <<c, d>>
  <2>1. Select(Data, h, f + 1) = Append(Select(Data, h, f), f + 1)
    BY <1>1, <1>2, SelectNext
  <2>2. Append(<<c>>, d) = <<c, d>>
    <3>1. <<c>> \in Seq(Nat) /\ Len(<<c>>) = 1 /\ <<c>>[1] = c
      OBVIOUS
    <3>2. PICK q \in Seq(Nat) : q = <<c>> /\ Len(q) = 1 /\ q[1] = c
      BY <3>1
    <3>3. /\ Append(q, d) \in Seq(Nat) /\ Len(Append(q, d)) = 2
          /\ Append(q, d)[1] = c /\ Append(q, d)[2] = d
      BY <3>2, AppendFacts
    <3>4. /\ <<c, d>> \in Seq(Nat) /\ Len(<<c, d>>) = 2
          /\ <<c, d>>[1] = c /\ <<c, d>>[2] = d
      OBVIOUS
    <3>5. Append(q, d) = <<c, d>>
      <4>1. \A i \in 1..2 : i = 1 \/ i = 2
        OBVIOUS
      <4> QED BY <3>3, <3>4, <4>1, SeqEqual
    <3> QED BY <3>2, <3>5
  <2> QED BY <1>2, <1>5, <2>1, <2>2, Zenon
<1>7. Select(Data, d, b) = Select(Zs, d, b)
  <2>1. \A x \in (d + 1)..b : x \in Data <=> x \in Zs
    BY <1>1
  <2> QED BY <2>1, SelectSame
<1>8. Select(Zs, 0, b) = Select(Zs, d, b)
  <2>1. 0 \in Nat /\ 0 <= d /\ \A x \in (0 + 1)..d : x \notin Zs
    BY <1>1
  <2> QED BY <2>1, SelectFrom
<1>9. Joins(Data, h, d, b)
  BY <1>2, SelectJoin
<1> QED BY <1>6, <1>7, <1>8, <1>9, Zenon DEF Joins

(* What is decoded behind the HTTP header is the data.                     *)
LEMMA BodyIsData ==
  ASSUME Total \in Nat, NEW h \in Nat, HasHeader(message, h),
         NEW a \in Nat, NEW b \in Nat, h <= a, a <= b, b <= Total
  PROVE  /\ Select(Decoded, a, b) = Select(Data, a, b)
         /\ Select(With({"head"}), a, b) = <<>>
<1>1. \A x \in (a + 1)..b : /\ x \in Decoded <=> x \in Data
                            /\ x \notin With({"head"})
  <2> TAKE x \in (a + 1)..b
  <2>1. x \in 1..Total /\ ~(x <= h)
    OBVIOUS
  <2>2. message.role[x] # "head"
    BY <2>1 DEF HasHeader, Total
  <2> QED BY <2>1, <2>2 DEF Decoded, Data, With, Positions, Total
<1> QED BY <1>1, SelectSame, SelectNothing

LEMMA FrontIsHeader ==
  ASSUME Total \in Nat, NEW h \in Nat, HasHeader(message, h),
         NEW b \in Nat, h <= b, b <= Total
  PROVE  /\ Select(With({"head"}), 0, b) = Select(Decoded, 0, h)
         /\ Len(Select(Decoded, 0, h)) = h
<1>1. \A x \in 1..h : x \in Decoded /\ x \in With({"head"})
  <2> TAKE x \in 1..h
  <2>1. x \in 1..Total /\ x <= h
    OBVIOUS
  <2>2. message.role[x] = "head"
    BY <2>1 DEF HasHeader, Total
  <2> QED BY <2>1, <2>2 DEF Decoded, With, Positions, Total
<1>2. 0 \in Nat /\ 0 <= h /\ \A x \in (0 + 1)..h : x \in 1..h
  OBVIOUS
<1>3. Select(With({"head"}), 0, h) = Select(Decoded, 0, h)
  BY <1>1, <1>2, SelectSame
<1>4. Select(With({"head"}), h, b) = <<>>
  BY BodyIsData
<1>5. Joins(With({"head"}), 0, h, b)
  BY <1>2, SelectJoin
<1>6. Select(Decoded, 0, h) \o <<>> = Select(Decoded, 0, h)
  <2>1. Select(Decoded, 0, h) \in Seq(Nat)
    BY <1>2, SelectNext
  <2> QED BY <2>1, ConcatEmptySeq
<1>7. Select(With({"head"}), 0, b) = Select(Decoded, 0, h)
  BY <1>3, <1>4, <1>5, <1>6, Zenon DEF Joins
<1>8. Len(Select(Decoded, 0, h)) = h
  <2>1. Select(Decoded, 0, h) = [i \in 1..(h - 0) |-> 0 + i]
    BY <1>1, <1>2, SelectAll
  <2>2. Len([i \in 1..(h - 0) |-> 0 + i]) = h
    OBVIOUS
  <2> QED BY <2>1, <2>2, Zenon
<1> QED BY <1>7, <1>8

(* What is deflated and comes next is what inflate expects.                *)
LEMMA NextFits ==
  ASSUME NEW a \in Nat, NEW b \in Nat, a <= b, b <= Total, Total \in Nat,
         fed = Select(Zs, 0, a), NEW in, in = Select(Zs, a, b)
  PROVE  Unpacked(in) = in /\ Fits(in) /\ fed \o in = Select(Zs, 0, b)
<1>0. 0 \in Nat /\ 0 <= a /\ 0 <= b
  OBVIOUS
<1>1. PICK r \in Seq(Nat) : r = Select(Zs, b, Total)
  BY SelectNext
<1>2. fed \in Seq(Nat) /\ in \in Seq(Nat)
  BY <1>0, SelectNext
<1>3. Joins(Zs, 0, a, b) /\ Joins(Zs, 0, b, Total)
  BY <1>0, SelectJoin
<1>4. Select(Zs, 0, b) = fed \o in
  BY <1>3, Zenon DEF Joins
<1>5. Deflated = (fed \o in) \o r
  BY <1>1, <1>3, <1>4, Zenon DEF Joins, Deflated, Total
<1>6. /\ Len((fed \o in) \o r) = Len(fed) + Len(in) + Len(r)
      /\ SubSeq((fed \o in) \o r, Len(fed) + 1, Len(fed) + Len(in)) = in
  BY <1>2, MiddlePart
<1>7. PICK l \in Nat, m \in Nat, n \in Nat : l = Len(fed) /\ m = Len(in) /\ n = Len(r)
  BY <1>2, LenProperties
<1>8. Len(Deflated) = l + m + n
  BY <1>5, <1>6, <1>7, Zenon
<1>9. Min({Len(in), Len(Deflated) - Len(fed)}) = m
  <2>1. PICK k \in Nat : k = Len(Deflated) - Len(fed) /\ k >= m
    <3>1. (l + m + n) - l \in Nat /\ (l + m + n) - l >= m
      BY <1>7
    <3>2. Len(Deflated) - Len(fed) = (l + m + n) - l
      BY <1>7, <1>8, Zenon
    <3> QED BY <3>1, <3>2
  <2>2. Min({m, k}) \in {m, k} /\ Min({m, k}) <= m
    <3>1. m \in Int /\ k \in Int
      OBVIOUS
    <3> QED BY <3>1, MinOfTwo
  <2>3. PICK y \in {m, k} : y = Min({m, k}) /\ y <= m
    BY <2>2
  <2>4. y = m
    BY <2>1, <2>3
  <2> QED BY <1>7, <2>1, <2>3, <2>4
<1>10. SubSeq(in, 1, Len(in)) = in
  BY <1>2, SubSeqFull
<1>11. Unpacked(in) = in
  BY <1>7, <1>9, <1>10, Zenon DEF Unpacked
<1>12. SubSeq(Deflated, Len(fed) + 1, Len(fed) + Len(in)) = in
  BY <1>5, <1>6, Zenon
<1>13. Fits(in)
  BY <1>11, <1>12, Zenon DEF Fits
<1> QED BY <1>4, <1>11, <1>13

LEMMA InflateUnpacks ==
  ASSUME IInv, NEW s, s.gzip_z = "ok", NEW keep \in Seq(Nat), NEW in,
         in = Select(Zs, Base, sent), fed = Select(Zs, 0, Base), Inflate(s, in, keep)
  PROVE  /\ stream' = s /\ fed' = Select(Zs, 0, sent)
         /\ in # <<>> => SubSeq(packet'.l7, 1, packet'.l7_content_size) = keep \o in
<1>0. sent \in Nat /\ sent <= Total /\ Total \in Nat /\ Base \in Nat /\ Base <= sent
  BY Sizes DEF Base
<1>1. Unpacked(in) = in /\ Fits(in) /\ fed \o in = Select(Zs, 0, sent)
  BY <1>0, NextFits
<1>2. in \in Seq(Nat)
  BY <1>0, SelectNext
<1>3. /\ fed' = fed \o in /\ GzipDone(s)
      /\ packet' = IF in = <<>> THEN packet
                   ELSE [packet EXCEPT !.l7 = keep \o in, !.own = TRUE,
                           !.l7_content_size = Len(keep) + Len(in)]
  BY <1>1 DEF Inflate
<1>4. fed' = Select(Zs, 0, sent)
  BY <1>1, <1>3, Zenon
<1>5. ASSUME in # <<>>
      PROVE  SubSeq(packet'.l7, 1, packet'.l7_content_size) = keep \o in
  <2>1. PICK w \in Seq(Nat) : w = keep \o in
    BY <1>2, ConcatProperties
  <2>2. Len(w) = Len(keep) + Len(in)
    BY <1>2, <2>1, ConcatProperties
  <2>3. PICK n : n = Len(keep) + Len(in)
    OBVIOUS
  <2>4. packet' = [packet EXCEPT !.l7 = w, !.own = TRUE, !.l7_content_size = n]
    BY <1>3, <1>5, <2>1, <2>3
  <2>5. packet'.l7 = w /\ packet'.l7_content_size = n
    BY <2>4 DEF IInv, TypeOK, PacketFields
  <2>6. SubSeq(w, 1, Len(w)) = w
    BY <2>1, SubSeqFull
  <2> QED BY <2>1, <2>2, <2>3, <2>5, <2>6, Zenon
<1> QED BY <1>3, <1>4, <1>5 DEF GzipDone

(* dec_gzip finds the header of the data and goes over it.                 *)
Headed(in, rest) ==
  HeaderSizes(in) = {2} /\ ~(2 > Len(in)) /\ SubSeq(in, 2 + 1, Len(in)) = rest

LEMMA HeaderFound ==
  ASSUME NEW c \in Nat, NEW d \in Nat, message.bytes[c] = "m", NEW r \in Seq(Nat),
         NEW in, in = <<c, d>> \o r
  PROVE  Headed(in, r)
<1>1. <<c, d>> \in Seq(Nat) /\ Len(<<c, d>>) = 2 /\ <<c, d>>[1] = c
  OBVIOUS
<1>2. PICK q \in Seq(Nat) : q = <<c, d>>
  BY <1>1
<1>3. Parts(q \o r, q, r)
  BY JoinedParts
<1>4. Len(q) = 2 /\ q[1] = c
  BY <1>1, <1>2
<1>5. Len(in) = 2 + Len(r) /\ Len(r) \in Nat /\ SubSeq(in, 2 + 1, Len(in)) = r
  <2>1. Len(r) \in Nat
    BY LenProperties
  <2>2. in = q \o r
    BY <1>2
  <2> QED BY <1>3, <1>4, <2>1, <2>2, Zenon DEF Parts
<1>6. in[1] = c /\ in # <<>>
  <2>1. in \in Seq(Nat) /\ in = q \o r
    BY <1>2, ConcatProperties
  <2>2. 1 \in 1..(Len(q) + Len(r)) /\ 1 <= Len(q)
    BY <1>4, <1>5
  <2>3. (q \o r)[1] = q[1]
    BY <2>2, ConcatProperties
  <2>4. in # <<>>
    BY <1>5
  <2> QED BY <1>4, <2>1, <2>3, <2>4
<1>7. HeaderSizes(in) = {2}
  BY <1>6 DEF HeaderSizes
<1>8. ~(2 > Len(in))
  <2>1. PICK n \in Nat : n = 2 + Len(r) /\ ~(2 > n)
    BY <1>5
  <2> QED BY <1>5, <2>1, Zenon
<1> QED BY <1>5, <1>7, <1>8 DEF Headed

(* A packet that is neither in the HTTP header nor in the data's ends      *)
(* behind them.                                                            *)
LEMMA TightPlace ==
  ASSUME Total \in Nat, NEW h \in Nat, NEW c \in Nat, NEW d \in Nat,
         HasHeader(message, h), PackedAt(c, d),
         NEW b \in 1..Total, Tight(b)
  PROVE  b = h \/ d <= b
<1>1. /\ d <= Total /\ message.bytes[c] = "m"
      /\ \A x \in 1..Total : x \in Data => (x = c \/ x >= d)
  BY PackedPlaces
<1>2. b = Total \/ message.bytes[b] = "end" \/ (InData(b) /\ message.bytes[b] # "m")
  BY DEF Tight, Total
<1>3. message.bytes[b] = "end" => b = h
  BY DEF HasHeader, Total
<1>4. ASSUME InData(b), message.bytes[b] # "m" PROVE d <= b
  <2>1. b \in Data
    BY <1>4 DEF InData, Data, With, Positions, Total
  <2> QED BY <1>1, <1>4, <2>1
<1> QED BY <1>1, <1>2, <1>3, <1>4

(* What DecodeGzip reads is all that is decoded of the packet.             *)
LEMMA InputIs ==
  ASSUME IInv, ChunkInv, Packed, pc = "gzip",
         NEW h \in Nat, NEW c \in Nat, NEW d \in Nat, InOrder(h, c, d)
  PROVE  Input = Select(Decoded, Base, sent)
<1>0. /\ sent \in Nat /\ sent <= Total /\ Total \in Nat /\ packet.size \in Nat
      /\ Base \in Nat /\ Base + packet.size = sent
      /\ packet.l7 \in Seq(Positions) /\ Len(packet.l7) = packet.size
  BY Sizes
<1>1. HasHeader(message, h) /\ ToUnpack(h, d)
  BY DEF InOrder
<1>2. stream.http_chunked \in BOOLEAN
  BY DEF IInv, TypeOK, StreamFields
<1>3. CASE stream.http_chunked = FALSE
  <2>1. packet.own = FALSE /\ packet.l7 = [i \in 1..packet.size |-> Base + i]
    BY <1>1, <1>3 DEF ToUnpack
  <2>2. SubSeq(packet.l7, 1, packet.size) = packet.l7
    BY <1>0, SubSeqFull
  <2>3. Select(Decoded, Base, sent) = [i \in 1..(sent - Base) |-> Base + i]
    <3>1. \A x \in (Base + 1)..sent : message.role[x] \in {"head", "data"}
      <4> TAKE x \in (Base + 1)..sent
      <4>1. x \in 1..Total
        BY <1>0
      <4>2. CASE x <= h
        BY <1>1, <4>1, <4>2 DEF HasHeader, Total
      <4>3. CASE ~(x <= h)
        <5>1. x \in (h + 1)..Total
          BY <4>1, <4>3
        <5> QED BY <1>3, <5>1 DEF InOrder
      <4> QED BY <4>2, <4>3
    <3>2. Base <= sent
      BY <1>0
    <3> QED BY <1>0, <3>1, <3>2, AllWithin
  <2>4. sent - Base = packet.size
    BY <1>0
  <2>5. Input = SubSeq(packet.l7, 1, packet.size)
    BY <2>1 DEF Input
  <2> QED BY <2>1, <2>2, <2>3, <2>4, <2>5, Zenon
<1>4. CASE stream.http_chunked = TRUE
  <2>1. Live
    BY <1>4 DEF Packed, Live
  <2>2. PICK g \in Nat : InStep(g)
    BY <2>1 DEF ChunkInv
  <2>3. PICK n \in Nat : n = packet.l7_content_size /\ Filled(n, sent)
    BY <2>2 DEF InStep, AtEnd, Packed
  <2>4. packet.own = TRUE
    BY <1>1, <1>4 DEF ToUnpack
  <2>5. Input = SubSeq(packet.l7, 1, n)
    BY <2>3, <2>4 DEF Input
  <2> QED BY <2>3, <2>5, Zenon DEF Filled
<1> QED BY <1>2, <1>3, <1>4

(* A step of Proc changes neither the message nor what has been sent.      *)
LEMMA StillPacked ==
  ASSUME Still
  PROVE  /\ Base' = Base /\ Total' = Total /\ Data' = Data /\ Zs' = Zs
         /\ With({"head"})' = With({"head"})
         /\ \A h \in Nat : HasHeader(message, h) => HasHeader(message, h)'
         /\ \A c, d \in Nat : PackedAt(c, d) => PackedAt(c, d)'
<1>1. message' = message /\ sent' = sent /\ packet'.size = packet.size
  BY DEF Still
<1>2. /\ Base' = Base /\ Total' = Total /\ Data' = Data /\ Zs' = Zs
      /\ With({"head"})' = With({"head"})
  BY <1>1 DEF Base, Total, Data, Zs, With, Positions
<1>3. \A c, d \in Nat : PackedAt(c, d) => PackedAt(c, d)'
  BY <1>1, <1>2 DEF PackedAt
<1>4. \A h \in Nat : HasHeader(message, h) => HasHeader(message, h)'
  BY <1>1 DEF HasHeader
<1> QED BY <1>2, <1>3, <1>4

LEMMA ChunkStepPack ==
  ASSUME IInv, ChunkInv, PackInv, SkipChunk \/ Chunk
  PROVE  PackInv'
<1>1. /\ message' = message /\ sent' = sent /\ past' = past /\ fed' = fed
      /\ stream' = stream \/ \E o : stream' = [stream EXCEPT !.chunk_offset = o]
  BY DEF SkipChunk, Chunk, LargeChunk, EnterLoop, LineAtEnd, LastChunk, CutChunk,
         WholeChunk, ChunkDone
<1>2. pc \in {"start", "chunk"} /\ pc' \in {"chunk", "gzip"}
  BY DEF SkipChunk, Chunk, LargeChunk, EnterLoop, LineAtEnd, LastChunk, CutChunk,
         WholeChunk, ChunkDone, Dechunking, InLoop
<1>3. /\ stream'.state = stream.state /\ stream'.http_chunked = stream.http_chunked
      /\ stream'.http_compress = stream.http_compress
      /\ stream'.http_header_size = stream.http_header_size
      /\ stream'.gzip_only_http_header = stream.gzip_only_http_header
      /\ stream'.gzip_z = stream.gzip_z /\ stream'.l7_error = stream.l7_error
      /\ stream.http_chunked \in BOOLEAN
  BY <1>1 DEF IInv, TypeOK, StreamFields
<1>4. packet'.size = packet.size
  BY DEF SkipChunk, Chunk, LargeChunk, EnterLoop, LineAtEnd, LastChunk, CutChunk,
         WholeChunk, IInv, TypeOK, PacketFields
<1>5. Still
  BY <1>1, <1>3, <1>4 DEF Still
<1>6. /\ Base' = Base /\ Total' = Total /\ Zs' = Zs
      /\ \A h \in Nat : HasHeader(message, h) => HasHeader(message, h)'
      /\ \A c, d \in Nat : PackedAt(c, d) => PackedAt(c, d)'
  BY <1>5, StillPacked
<1>7. ASSUME NEW h \in Nat, NEW c \in Nat, NEW d \in Nat, InOrder(h, c, d)
      PROVE  InOrder(h, c, d)'
  <2>1. ToUnpack(h, d)
    BY <1>2, <1>7 DEF InOrder
  <2>2. /\ stream.http_chunked = TRUE => packet'.own = TRUE
        /\ stream.http_chunked = FALSE => packet'.own = FALSE /\ packet'.l7 = packet.l7
        /\ pc' = "chunk" => stream.http_chunked = TRUE
    <3>1. CASE SkipChunk
      BY <1>3, <3>1, <2>1 DEF SkipChunk, IInv, TypeOK, PacketFields, ToUnpack
    <3>2. CASE LargeChunk \/ EnterLoop
      BY <1>3, <3>2 DEF LargeChunk, EnterLoop, Dechunking, IInv, TypeOK, PacketFields
    <3>3. CASE LineAtEnd \/ LastChunk \/ CutChunk \/ WholeChunk
      <4>1. pc = "chunk" /\ packet'.own = packet.own
        BY <3>3 DEF LineAtEnd, LastChunk, CutChunk, WholeChunk, InLoop,
                    IInv, TypeOK, PacketFields
      <4> QED BY <2>1, <4>1 DEF ToUnpack
    <3> QED BY <3>1, <3>2, <3>3 DEF Chunk
  <2>3. stream.http_chunked = FALSE => packet.l7 = [i \in 1..packet.size |-> Base + i]
    BY <2>1 DEF ToUnpack
  <2>4. fed' = Select(Zs', 0, Base')
    BY <1>1, <1>6, <2>1 DEF ToUnpack
  <2>5. ToUnpack(h, d)'
    BY <1>1, <1>2, <1>3, <1>4, <1>6, <2>1, <2>2, <2>3, <2>4 DEF ToUnpack
  <2>6. /\ HasHeader(message, h)' /\ PackedAt(c, d)' /\ h \in 1..sent'
        /\ (sent' = h \/ d <= sent') /\ stream'.l7_error = FALSE
    BY <1>1, <1>3, <1>6, <1>7 DEF InOrder
  <2>7. stream'.http_chunked = FALSE =>
          \A k \in (h + 1)..Total' : message'.role[k] = "data"
    BY <1>1, <1>3, <1>6, <1>7 DEF InOrder
  <2> QED BY <1>1, <1>2, <1>7, <2>5, <2>6, <2>7 DEF InOrder
<1>8. Packed' => Packed
  BY <1>1, <1>3 DEF Packed
<1>9. stream'.state # "NEW"
  BY <1>2, <1>3 DEF ChunkInv
<1> QED BY <1>7, <1>8, <1>9 DEF PackInv

(* A packet's deflated data has been unpacked.                             *)
LEMMA UnpackedInOrder ==
  ASSUME IInv, NEW h \in Nat, NEW c \in Nat, NEW d \in Nat, InOrder(h, c, d),
         pc = "gzip", GzipKeeps, d <= sent,
         NEW s \in StreamFields, s.gzip_z = "ok", s.gzip_only_http_header \in {0, 3},
         s.l7_error = FALSE, s.http_chunked = stream.http_chunked,
         NEW keep \in Seq(Nat), keep = InPacket({"head"}),
         NEW in, in = Select(Zs, Base, sent), Inflate(s, in, keep)
  PROVE  InOrder(h, c, d)'
<1>0. sent \in Nat /\ sent <= Total /\ Total \in Nat /\ Base \in Nat /\ Base <= sent
  BY Sizes DEF Base
<1>1. /\ HasHeader(message, h) /\ PackedAt(c, d) /\ h \in 1..sent
      /\ fed = Select(Zs, 0, Base)
      /\ stream.http_chunked = FALSE => \A k \in (h + 1)..Total : message.role[k] = "data"
  BY DEF InOrder, ToUnpack
<1>2. /\ stream' = s /\ fed' = Select(Zs, 0, sent)
      /\ in # <<>> => SubSeq(packet'.l7, 1, packet'.l7_content_size) = keep \o in
  BY <1>1, InflateUnpacks
<1>3. /\ packet'.size = packet.size /\ pc' = "idle"
      /\ message' = message /\ sent' = sent /\ past' = past
      /\ stream'.state = stream.state
  BY DEF GzipKeeps, Keeps, GzipDone
<1>4. Still
  BY <1>2, <1>3 DEF Still
<1>5. /\ Base' = Base /\ Total' = Total /\ Zs' = Zs /\ Data' = Data
      /\ With({"head"})' = With({"head"})
      /\ HasHeader(message, h)' /\ PackedAt(c, d)'
  BY <1>1, <1>4, StillPacked
<1>6. sent # h
  <2>1. h < c /\ c < d
    BY <1>0, <1>1, PackedPlaces
  <2> QED BY <1>0, <2>1
<1>7. Data \cap Zs = Zs
  BY <1>1 DEF PackedAt
<1>8. InPacket({"head"})' = InPacket({"head"})
  BY <1>3, <1>5 DEF InPacket
<1>9. AllUnpacked(h)'
  <2>1. stream'.gzip_z = "ok" /\ stream'.gzip_only_http_header \in {0, 3} /\ sent' # h
    BY <1>2, <1>3, <1>6
  <2>2. fed' = Select(Zs', 0, sent')
    BY <1>2, <1>3, <1>5
  <2>3. Select(Data' \cap Zs', Base', sent') = in
    BY <1>3, <1>5, <1>7
  <2>4. in # <<>> => SubSeq(packet'.l7, 1, packet'.l7_content_size) =
                       InPacket({"head"})' \o in
    BY <1>2, <1>8
  <2> QED BY <2>1, <2>2, <2>3, <2>4, Zenon DEF AllUnpacked
<1>10. stream'.l7_error = FALSE /\ (sent' = h \/ d <= sent') /\ h \in 1..sent'
  BY <1>0, <1>1, <1>2, <1>3
<1>11. stream'.http_chunked = FALSE =>
         \A k \in (h + 1)..Total' : message'.role[k] = "data"
  BY <1>1, <1>2, <1>3, <1>5
<1> QED BY <1>3, <1>5, <1>9, <1>10, <1>11 DEF InOrder

(* The HTTP header came alone.                                             *)
LEMMA HttpHeaderInOrder ==
  ASSUME IInv, Packed, NEW h \in Nat, NEW c \in Nat, NEW d \in Nat, InOrder(h, c, d),
         GzipHttpHeader
  PROVE  InOrder(h, c, d)'
<1>0. sent \in Nat /\ sent <= Total /\ Total \in Nat /\ Base \in Nat /\ Base <= sent
      /\ packet.size \in Nat /\ Base + packet.size = sent
  BY Sizes DEF Base
<1>1. /\ HasHeader(message, h) /\ PackedAt(c, d) /\ h \in 1..sent
      /\ ToUnpack(h, d) /\ stream.l7_error = FALSE
      /\ stream.http_chunked = FALSE => \A k \in (h + 1)..Total : message.role[k] = "data"
  BY DEF InOrder, GzipHttpHeader, Unpacking
<1>2. Base = 0 /\ sent = h /\ fed = Select(Zs, 0, 0)
  <2>1. stream.gzip_only_http_header = 1
    BY DEF GzipHttpHeader
  <2> QED BY <1>1, <2>1 DEF ToUnpack
<1>3. /\ stream'.gzip_z = "ok" /\ stream'.gzip_only_http_header = 2
      /\ stream'.l7_error = stream.l7_error /\ stream'.state = stream.state
      /\ stream'.http_chunked = stream.http_chunked
  <2>1. PICK z \in StreamFields :
          /\ z = [stream EXCEPT !.gzip_z = "ok"]
          /\ z.gzip_z = "ok" /\ z.gzip_only_http_header = 1
          /\ z.l7_error = stream.l7_error /\ z.state = stream.state
          /\ z.http_chunked = stream.http_chunked
    <3>1. stream.gzip_only_http_header = 1 /\ stream \in StreamFields
      BY DEF GzipHttpHeader, IInv, TypeOK
    <3>2. [stream EXCEPT !.gzip_z = "ok"] \in StreamFields
      BY <3>1 DEF StreamFields
    <3> QED BY <3>1, <3>2 DEF StreamFields
  <2>2. PICK n \in 0..3 :
          /\ n = 2
          /\ n = IF z.gzip_only_http_header \in 1..2 THEN z.gzip_only_http_header + 1
                 ELSE z.gzip_only_http_header
    BY <2>1
  <2>3. Counted(z) = [z EXCEPT !.gzip_only_http_header = n]
    BY <2>2 DEF Counted
  <2>4. stream' = [z EXCEPT !.gzip_only_http_header = n]
    BY <2>1, <2>3 DEF GzipHttpHeader, GzipDone
  <2> QED BY <2>1, <2>2, <2>4 DEF StreamFields
<1>4. /\ packet' = packet /\ fed' = fed /\ pc' = "idle"
      /\ message' = message /\ sent' = sent /\ past' = past
  BY DEF GzipHttpHeader, GzipDone
<1>5. Still
  BY <1>3, <1>4 DEF Still
<1>6. /\ Base' = Base /\ Total' = Total /\ Zs' = Zs /\ Data' = Data
      /\ HasHeader(message, h)' /\ PackedAt(c, d)'
  BY <1>1, <1>5, StillPacked
<1>7. \A x \in (0 + 1)..sent : x \notin Zs
  <2>1. h < c /\ c < d /\ \A x \in 1..d : x \notin Zs
    BY <1>0, <1>1, PackedPlaces
  <2>2. \A x \in (0 + 1)..sent : x \in 1..d
    BY <1>2, <2>1
  <2> QED BY <2>1, <2>2
<1>8. Select(Zs, 0, sent) = <<>> /\ Select(Zs, 0, 0) = <<>>
  <2>1. 0 \in Nat /\ 0 <= sent
    BY <1>0
  <2> QED BY <1>0, <1>7, <2>1, SelectNothing, SelectNone
<1>9. Select(Data \cap Zs, Base, sent) = <<>>
  <2>1. \A x \in (0 + 1)..sent : x \notin Data \cap Zs
    BY <1>7
  <2>2. 0 \in Nat /\ 0 <= sent
    BY <1>0
  <2> QED BY <1>0, <1>2, <2>1, <2>2, SelectNothing
<1>10. AllUnpacked(h)'
  <2>1. fed' = Select(Zs', 0, sent')
    BY <1>2, <1>4, <1>6, <1>8, Zenon
  <2>2. Select(Data' \cap Zs', Base', sent') = <<>>
    BY <1>4, <1>6, <1>9
  <2> QED BY <1>2, <1>3, <1>4, <2>1, <2>2 DEF AllUnpacked
<1> QED BY <1>1, <1>2, <1>3, <1>4, <1>6, <1>10 DEF InOrder

(* The first packet has more than the HTTP header.                         *)
LEMMA BeginInOrder ==
  ASSUME IInv, ChunkInv, Packed, NEW h \in Nat, NEW c \in Nat, NEW d \in Nat,
         InOrder(h, c, d), GzipBegin
  PROVE  InOrder(h, c, d)'
<1>0. sent \in Nat /\ sent <= Total /\ Total \in Nat /\ 0 \in Nat /\ 0 <= sent
  BY Sizes
<1>1. /\ pc = "gzip" /\ stream.gzip_only_http_header = 0 /\ stream.state = "BEGIN"
      /\ stream \in StreamFields
  BY DEF GzipBegin, Unpacking, IInv, TypeOK
<1>2. /\ HasHeader(message, h) /\ PackedAt(c, d) /\ h \in 1..sent
      /\ ToUnpack(h, d) /\ stream.l7_error = FALSE /\ (sent = h \/ d <= sent)
  BY <1>1 DEF InOrder
<1>3. Base = 0 /\ sent # h /\ d <= sent /\ stream.http_header_size = h
  BY <1>1, <1>2 DEF ToUnpack
<1>4. /\ h <= sent /\ message.bytes[c] = "m"
  BY <1>0, <1>2, PackedPlaces
<1>5. PICK front \in Seq(Nat) : front = Select(Decoded, 0, h) /\ Len(front) = h
  <2>1. Select(Decoded, 0, h) \in Seq(Nat)
    <3>1. 0 <= h
      OBVIOUS
    <3> QED BY <1>0, <3>1, SelectNext
  <2> QED BY <1>0, <1>2, <1>4, <2>1, FrontIsHeader
<1>6. PICK r \in Seq(Nat) : r = Select(Zs, 0, sent)
  BY <1>0, SelectNext
<1>7. PICK q \in Seq(Nat) : q = Select(Data, h, sent) /\ q = <<c, d>> \o r
  <2>1. Select(Data, h, sent) \in Seq(Nat)
    BY <1>4, <1>0, SelectNext
  <2>2. Select(Data, h, sent) = <<c, d>> \o Select(Zs, 0, sent)
    BY <1>0, <1>2, <1>3, PackedData
  <2> QED BY <1>6, <2>1, <2>2, Zenon
<1>8. Input = front \o q
  <2>1. Input = Select(Decoded, 0, sent)
    BY <1>1, <1>3, InputIs
  <2>2. Select(Decoded, h, sent) = Select(Data, h, sent)
    <3>1. h <= h
      OBVIOUS
    <3> QED BY <1>0, <1>2, <1>4, <3>1, BodyIsData
  <2>3. Joins(Decoded, 0, h, sent)
    BY <1>0, <1>4, SelectJoin
  <2> QED BY <1>5, <1>7, <2>1, <2>2, <2>3, Zenon DEF Joins
<1>9. SubSeq(Input, 1, h) = front /\ SubSeq(Input, h + 1, Len(Input)) = q
  <2>1. Parts(front \o q, front, q)
    BY JoinedParts
  <2> QED BY <1>5, <1>8, <2>1, Zenon DEF Parts
<1>10. PICK z \in StreamFields :
         /\ z = [stream EXCEPT !.gzip_z = "ok"]
         /\ z.gzip_z = "ok" /\ z.gzip_only_http_header = 0 /\ z.l7_error = FALSE
         /\ z.http_chunked = stream.http_chunked
  <2>1. [stream EXCEPT !.gzip_z = "ok"] \in StreamFields
    BY <1>1 DEF StreamFields
  <2> QED BY <1>1, <1>2, <2>1 DEF StreamFields
<1>11. PICK offset \in HeaderSizes(q) :
         IF offset = -1
         THEN /\ UNCHANGED <<packet, fed, wild>>
              /\ GzipDone([z EXCEPT !.l7_error = TRUE])
         ELSE InflateFrom(z, q, offset, front)
  <2>1. PICK offset \in HeaderSizes(SubSeq(Input, h + 1, Len(Input))) :
          IF offset = -1
          THEN /\ UNCHANGED <<packet, fed, wild>>
               /\ GzipDone([z EXCEPT !.l7_error = TRUE])
          ELSE InflateFrom(z, SubSeq(Input, h + 1, Len(Input)), offset,
                           SubSeq(Input, 1, h))
    BY <1>3, <1>10, Zenon DEF GzipBegin
  <2> QED BY <1>9, <2>1, Zenon
<1>12. HeaderSizes(q) = {2} /\ ~(2 > Len(q)) /\ SubSeq(q, 2 + 1, Len(q)) = r
  <2>1. Headed(q, r)
    BY <1>4, <1>7, HeaderFound, Zenon
  <2> QED BY <2>1 DEF Headed
<1>13. Inflate(z, r, front)
  <2>1. offset = 2
    BY <1>12
  <2>2. InflateFrom(z, q, 2, front)
    BY <1>11, <2>1
  <2> QED BY <1>12, <2>2, Zenon DEF InflateFrom
<1>14. front = InPacket({"head"}) /\ r = Select(Zs, Base, sent)
  <2>1. Select(With({"head"}), 0, sent) = Select(Decoded, 0, h)
    BY <1>0, <1>2, <1>4, FrontIsHeader
  <2>2. sent - packet.size = 0
    BY <1>3 DEF Base
  <2> QED BY <1>3, <1>5, <1>6, <2>1, <2>2, Zenon DEF InPacket
<1>15. GzipKeeps
  BY GzipKeepsAll DEF Gzip
<1> QED BY <1>1, <1>3, <1>10, <1>13, <1>14, <1>15, UnpackedInOrder

(* The packet behind the HTTP header.                                      *)
LEMMA SecondInOrder ==
  ASSUME IInv, ChunkInv, Packed, NEW h \in Nat, NEW c \in Nat, NEW d \in Nat,
         InOrder(h, c, d), GzipSecond
  PROVE  InOrder(h, c, d)'
<1>0. sent \in Nat /\ sent <= Total /\ Total \in Nat /\ 0 \in Nat /\ 0 <= sent
      /\ packet.size \in Nat /\ Base \in Nat /\ Base + packet.size = sent
      /\ 0 <= sent
  BY Sizes
<1>1. /\ pc = "gzip" /\ stream.gzip_only_http_header = 2 /\ stream \in StreamFields
  BY DEF GzipSecond, Unpacking, IInv, TypeOK
<1>2. /\ HasHeader(message, h) /\ PackedAt(c, d) /\ h \in 1..sent
      /\ ToUnpack(h, d) /\ stream.l7_error = FALSE /\ (sent = h \/ d <= sent)
  BY <1>1 DEF InOrder
<1>3. stream.gzip_z = "ok" /\ Base = h /\ sent > Base
  BY <1>0, <1>1, <1>2 DEF ToUnpack
<1>4. d <= sent /\ stream.http_compress = "GZIP" /\ h <= sent
  BY <1>0, <1>1, <1>2, <1>3 DEF Packed, StreamFields
<1>5. /\ h < c /\ c < d /\ message.bytes[c] = "m"
      /\ \A x \in 1..d : x \notin Zs
  BY <1>0, <1>2, PackedPlaces
<1>6. PICK r \in Seq(Nat) : r = Select(Zs, 0, sent)
  BY <1>0, SelectNext
<1>7. r = Select(Zs, Base, sent)
  <2>1. \A x \in (0 + 1)..h : x \notin Zs
    BY <1>5
  <2>2. 0 <= h
    OBVIOUS
  <2> QED BY <1>0, <1>3, <1>4, <1>6, <2>1, <2>2, SelectFrom
<1>8. PICK q \in Seq(Nat) : q = Input /\ q = <<c, d>> \o r
  <2>1. Select(Data, h, sent) \in Seq(Nat)
    BY <1>4, <1>0, SelectNext
  <2>2. Select(Data, h, sent) = <<c, d>> \o Select(Zs, 0, sent)
    BY <1>0, <1>2, <1>4, PackedData
  <2>3. Select(Decoded, h, sent) = Select(Data, h, sent)
    BY <1>0, <1>2, <1>4, BodyIsData
  <2>4. Input = Select(Decoded, h, sent)
    BY <1>1, <1>3, InputIs
  <2> QED BY <1>6, <2>1, <2>2, <2>3, <2>4, Zenon
<1>9. PICK s \in StreamFields :
        /\ s = Counted(stream) /\ s.gzip_z = "ok" /\ s.gzip_only_http_header = 3
        /\ s.l7_error = FALSE /\ s.http_chunked = stream.http_chunked
  <2>1. PICK n \in 0..3 :
          n = 3 /\ Counted(stream) = [stream EXCEPT !.gzip_only_http_header = n]
    BY <1>1 DEF Counted
  <2>2. [stream EXCEPT !.gzip_only_http_header = n] \in StreamFields
    BY <1>1 DEF StreamFields
  <2> QED BY <1>1, <1>2, <1>3, <2>1, <2>2 DEF StreamFields
<1>10. PICK offset \in HeaderSizes(q) :
         IF offset = -1
         THEN /\ UNCHANGED <<packet, fed, wild>>
              /\ GzipDone([s EXCEPT !.gzip_z = "bad"])
         ELSE InflateFrom(s, q, offset, <<>>)
  BY <1>4, <1>8, <1>9, Zenon DEF GzipSecond
<1>11. HeaderSizes(q) = {2} /\ ~(2 > Len(q)) /\ SubSeq(q, 2 + 1, Len(q)) = r
  <2>1. Headed(q, r)
    BY <1>5, <1>8, HeaderFound, Zenon
  <2> QED BY <2>1 DEF Headed
<1>12. Inflate(s, r, <<>>)
  <2>1. offset = 2
    BY <1>11
  <2>2. InflateFrom(s, q, 2, <<>>)
    BY <1>10, <2>1
  <2> QED BY <1>11, <2>2, Zenon DEF InflateFrom
<1>13. <<>> = InPacket({"head"}) /\ <<>> \in Seq(Nat)
  <2>1. Select(With({"head"}), h, sent) = <<>>
    BY <1>0, <1>2, <1>4, BodyIsData
  <2>2. sent - packet.size = h
    BY <1>3 DEF Base
  <2>3. <<>> \in Seq(Nat)
    OBVIOUS
  <2> QED BY <2>1, <2>2, <2>3, Zenon DEF InPacket
<1>14. GzipKeeps
  BY GzipKeepsAll DEF Gzip
<1>15. PICK keep \in Seq(Nat) : keep = <<>> /\ keep = InPacket({"head"})
  BY <1>13
<1>16. Inflate(s, r, keep)
  BY <1>12, <1>15, Zenon
<1> QED BY <1>1, <1>4, <1>7, <1>9, <1>14, <1>15, <1>16, UnpackedInOrder

(* Any packet after those.                                                 *)
LEMMA ContinueInOrder ==
  ASSUME IInv, ChunkInv, Packed, NEW h \in Nat, NEW c \in Nat, NEW d \in Nat,
         InOrder(h, c, d), GzipContinue
  PROVE  InOrder(h, c, d)'
<1>0. sent \in Nat /\ sent <= Total /\ Total \in Nat
      /\ packet.size \in Nat /\ Base \in Nat /\ Base + packet.size = sent
  BY Sizes
<1>1. /\ pc = "gzip" /\ stream \in StreamFields /\ Inflate(stream, Input, <<>>)
      /\ \/ stream.gzip_only_http_header = 3
         \/ stream.gzip_only_http_header = 0 /\ stream.state # "BEGIN"
  BY DEF GzipContinue, Unpacking, IInv, TypeOK
<1>2. /\ HasHeader(message, h) /\ PackedAt(c, d) /\ h \in 1..sent
      /\ ToUnpack(h, d) /\ stream.l7_error = FALSE
  BY <1>1 DEF InOrder
<1>3. /\ stream.gzip_z = "ok" /\ d <= Base
      /\ stream.gzip_only_http_header \in {0, 3} /\ Base < sent
  BY <1>0, <1>1, <1>2 DEF ToUnpack
<1>4. /\ h < c /\ c < d
      /\ \A x \in (d + 1)..Total : x \in Data <=> x \in Zs
  BY <1>0, <1>2, PackedPlaces
<1>5. h <= Base /\ Base <= sent /\ d <= sent
  BY <1>0, <1>3, <1>4
<1>6. Input = Select(Zs, Base, sent)
  <2>1. Input = Select(Decoded, Base, sent)
    BY <1>1, InputIs
  <2>2. Select(Decoded, Base, sent) = Select(Data, Base, sent)
    BY <1>0, <1>2, <1>5, BodyIsData
  <2>3. Select(Data, Base, sent) = Select(Zs, Base, sent)
    <3>1. \A x \in (Base + 1)..sent : x \in (d + 1)..Total
      BY <1>0, <1>3
    <3> QED BY <1>0, <1>4, <1>5, <3>1, SelectSame
  <2> QED BY <2>1, <2>2, <2>3, Zenon
<1>7. PICK keep \in Seq(Nat) : keep = <<>> /\ keep = InPacket({"head"})
  <2>1. Select(With({"head"}), Base, sent) = <<>>
    BY <1>0, <1>2, <1>5, BodyIsData
  <2>2. <<>> \in Seq(Nat)
    OBVIOUS
  <2> QED BY <2>1, <2>2 DEF InPacket, Base
<1>8. GzipKeeps
  BY GzipKeepsAll DEF Gzip
<1>9. Inflate(stream, Input, keep)
  BY <1>1, <1>7, Zenon
<1> QED BY <1>1, <1>2, <1>3, <1>5, <1>6, <1>7, <1>8, <1>9, UnpackedInOrder

LEMMA GzipStepPack ==
  ASSUME IInv, ChunkInv, PackInv, Gzip
  PROVE  PackInv'
<1>1. /\ pc = "gzip" /\ \E s : Keeps(s) /\ GzipDone(s)
  BY GzipKeepsAll DEF GzipKeeps
<1>2. PICK s : Keeps(s) /\ GzipDone(s)
  BY <1>1
<1>3. stream'.state = stream.state /\ stream.state # "NEW"
  BY <1>1, <1>2 DEF Keeps, GzipDone, ChunkInv
<1>4. Packed' => Packed
  BY <1>2 DEF Packed, Keeps, GzipDone
<1>5. ASSUME Packed, NEW h \in Nat, NEW c \in Nat, NEW d \in Nat, InOrder(h, c, d)
      PROVE  InOrder(h, c, d)'
  <2>1. ~SkipGzip
    BY <1>5 DEF SkipGzip, Packed, InOrder
  <2> QED BY <1>5, <2>1, HttpHeaderInOrder, BeginInOrder, SecondInOrder, ContinueInOrder
          DEF Gzip
<1> QED BY <1>3, <1>4, <1>5 DEF PackInv

(* A packet of the stream: the first, and any other. *)

LEMMA BeginPacked ==
  ASSUME IInv, ChunkInv, PackInv, NEW n \in 0..Len(message.bytes), NEW mem \in Behind,
         Receive(n, FALSE, mem), stream.state = "NEW", Packed'
  PROVE  (\E h, c, d \in Nat : InOrder(h, c, d))'
<1>0. n \in Nat /\ Total = Len(message.bytes) /\ Total \in Nat
  <2>1. Total \in Nat
    BY Sizes
  <2> QED BY <2>1 DEF Total
<1>1. past'.aligned = TRUE /\ stream'.http_compress # "NONE"
  BY DEF Packed
<1>2. PICK h \in 1..n :
        /\ HasHeader(message, h) /\ Base' = 0 /\ sent' = n /\ sent = 0 /\ n > 0
        /\ stream'.state = "BEGIN" /\ stream'.http_header_size = h
        /\ stream'.gzip_only_http_header = IF h = n THEN 1 ELSE 0
        /\ stream'.l7_error = FALSE
        /\ \E m \in Messages :
             /\ m.bytes = message.bytes /\ m.role = message.role
             /\ IsPacked(m)
             /\ stream'.http_chunked = FALSE =>
                  \A k \in (h + 1)..Total : message.role[k] = "data"
  BY <1>1, BeginFacts
<1>3. PICK m \in Messages :
        /\ m.bytes = message.bytes /\ m.role = message.role
        /\ IsPacked(m)
        /\ stream'.http_chunked = FALSE =>
             \A k \in (h + 1)..Total : message.role[k] = "data"
  BY <1>2
<1>4. PICK c \in Nat, d \in Nat : PackedAt(c, d)
  <2> DEFINE data == {k \in 1..Len(m.bytes) : m.role[k] = "data"}
  <2>1. Data = data
    BY <1>3 DEF Data, With, Positions
  <2>2. Zs = {k \in 1..Len(m.bytes) : m.bytes[k] = "z"}
    BY <1>3 DEF Zs
  <2>3. PICK c \in data, d \in data :
          /\ c < d /\ \A k \in data : k = c \/ k >= d
          /\ m.bytes[c] = "m" /\ m.bytes[d] = "n"
          /\ \A k \in data \ {c, d} : m.bytes[k] = "z"
    BY <1>3 DEF IsPacked
  <2>4. \A k \in 1..Len(m.bytes) : m.bytes[k] = "z" => k \in data
    BY <1>3 DEF IsPacked
  <2>5. \A k \in data : k \in 1..Len(m.bytes)
    OBVIOUS
  <2>6. \A k \in data \ {c, d} : k \in Zs
    BY <2>2, <2>3, <2>5
  <2>7. Zs \subseteq data
    BY <2>2, <2>4
  <2>8. c \in Nat /\ d \in Nat
    OBVIOUS
  <2> HIDE DEF data
  <2>9. PackedAt(c, d)
    BY <1>3, <2>1, <2>3, <2>6, <2>7 DEF PackedAt
  <2> QED BY <2>8, <2>9
<1>5. /\ pc' = "start" /\ message' = message /\ fed' = fed
      /\ packet' = [size |-> n, l7 |-> [i \in 1..n |-> sent + i],
                    l7_content_size |-> n, own |-> FALSE]
      /\ past' = [aligned |-> past.aligned /\ n > 0 /\ Aligned(sent + n, mem),
                  tight |-> past.tight /\ n > 0 /\ Tight(sent + n)]
      /\ sent + n <= Len(message.bytes)
  BY DEF Receive
<1>6. n = h \/ d <= n
  <2>1. sent + n = n
    BY <1>0, <1>2
  <2>2. Tight(n)
    BY <1>5, <2>1 DEF Packed
  <2>3. n \in 1..Total
    BY <1>0, <1>2, <1>5, <2>1
  <2> QED BY <1>0, <1>2, <1>4, <2>2, <2>3, TightPlace
<1>7. ToUnpack(h, d)'
  <2>1. fed' = Select(Zs', 0, Base')
    <3>1. fed = <<>> /\ 0 \in Nat
      BY DEF PackInv
    <3>2. Select(Zs', 0, 0) = <<>>
      BY <3>1, SelectNone
    <3> QED BY <1>2, <1>5, <3>1, <3>2
  <2>2. packet'.l7 = [i \in 1..n |-> Base' + i]
    BY <1>2, <1>5
  <2>3. packet'.size = n /\ packet'.own = FALSE
    BY <1>5
  <2> QED BY <1>2, <1>5, <2>1, <2>2, <2>3 DEF ToUnpack
<1>8. HasHeader(message, h)' /\ PackedAt(c, d)' /\ Total' = Total
  BY <1>2, <1>4, <1>5 DEF HasHeader, PackedAt, Data, Zs, With, Positions, Total
<1>9. InOrder(h, c, d)'
  BY <1>2, <1>3, <1>5, <1>6, <1>7, <1>8 DEF InOrder
<1>10. h \in Nat
  OBVIOUS
<1> QED BY <1>9, <1>10

LEMMA ContinuePacked ==
  ASSUME IInv, ChunkInv, PackInv, NEW n \in 0..Len(message.bytes), NEW fin \in BOOLEAN,
         NEW mem \in Behind, Receive(n, fin, mem), stream.state # "NEW", Packed'
  PROVE  (\E h, c, d \in Nat : InOrder(h, c, d))'
<1>0. sent \in Nat /\ sent <= Total /\ Total \in Nat /\ n \in Nat
      /\ Total = Len(message.bytes) /\ stream \in StreamFields
  <2>1. sent \in Nat /\ sent <= Total /\ Total \in Nat
    BY Sizes
  <2> QED BY <2>1 DEF Total, IInv, TypeOK
<1>1. /\ pc = "idle" /\ stream.state # "END"
      /\ sent + n <= Len(message.bytes) /\ sent' = sent + n
      /\ pc' = "start" /\ message' = message /\ fed' = fed
      /\ packet' = [size |-> n, l7 |-> [i \in 1..n |-> sent + i],
                    l7_content_size |-> n, own |-> FALSE]
      /\ past' = [aligned |-> past.aligned /\ n > 0 /\ Aligned(sent + n, mem),
                  tight |-> past.tight /\ n > 0 /\ Tight(sent + n)]
  BY DEF Receive
<1>2. PICK state \in {"CONTINUE", "END"} : stream' = [stream EXCEPT !.state = state]
  <2> DEFINE state == IF fin THEN "END" ELSE "CONTINUE"
  <2>1. [stream EXCEPT !.state = state].state = state
    BY <1>0 DEF StreamFields
  <2>2. state # "BEGIN" /\ state \in {"CONTINUE", "END"}
    OBVIOUS
  <2>3. stream' = [stream EXCEPT !.state = state]
    BY <2>1, <2>2 DEF Receive
  <2> QED BY <2>2, <2>3
<1>3. /\ stream'.state = state /\ stream'.http_chunked = stream.http_chunked
      /\ stream'.http_compress = stream.http_compress
      /\ stream'.gzip_only_http_header = stream.gzip_only_http_header
      /\ stream'.gzip_z = stream.gzip_z /\ stream'.l7_error = stream.l7_error
  BY <1>0, <1>2 DEF StreamFields
<1>4. /\ past.aligned = TRUE /\ past.tight = TRUE /\ n > 0 /\ Tight(sent + n)
  <2>1. past.aligned /\ past.tight /\ n > 0 /\ Tight(sent + n)
    BY <1>1 DEF Packed
  <2> QED BY <2>1 DEF ChunkInv
<1>5. Packed
  BY <1>1, <1>3, <1>4 DEF Packed
<1>6. PICK h \in Nat, c \in Nat, d \in Nat : InOrder(h, c, d)
  BY <1>5 DEF PackInv
<1>7. /\ h \in 1..sent /\ HasHeader(message, h) /\ PackedAt(c, d)
      /\ sent = h \/ d <= sent
      /\ stream.http_chunked = FALSE => \A k \in (h + 1)..Total : message.role[k] = "data"
      /\ stream.l7_error = FALSE /\ AllUnpacked(h)
  BY <1>1, <1>6 DEF InOrder
<1>8. PICK b \in 1..Total : b = sent + n
  BY <1>0, <1>1, <1>4
<1>9. b = h \/ d <= b
  BY <1>0, <1>4, <1>7, <1>8, TightPlace
<1>10. packet'.size = n /\ packet'.own = FALSE /\ Base' = sent
  BY <1>0, <1>1 DEF Base
<1>11. HasHeader(message, h)' /\ PackedAt(c, d)' /\ Total' = Total /\ Zs' = Zs
  BY <1>1, <1>7 DEF HasHeader, PackedAt, Data, Zs, With, Positions, Total
<1>12. ToUnpack(h, d)'
  <2>1. packet'.l7 = [i \in 1..n |-> Base' + i]
    BY <1>1, <1>10
  <2>2. fed' = Select(Zs', 0, Base')
    BY <1>1, <1>7, <1>10, <1>11 DEF AllUnpacked
  <2>3. /\ stream'.gzip_z = "ok" /\ h <= Base'
        /\ Base' = h => stream'.gzip_only_http_header = 2
        /\ Base' # h => d <= Base' /\ stream'.gzip_only_http_header \in {0, 3}
    BY <1>0, <1>3, <1>7, <1>10 DEF AllUnpacked
  <2> QED BY <1>1, <1>3, <1>4, <1>10, <2>1, <2>2, <2>3 DEF ToUnpack
<1>13. InOrder(h, c, d)'
  BY <1>0, <1>1, <1>3, <1>7, <1>8, <1>9, <1>11, <1>12 DEF InOrder
<1> QED BY <1>13

LEMMA ReceivePack ==
  ASSUME IInv, ChunkInv, PackInv, NEW n \in 0..Len(message.bytes), NEW fin \in BOOLEAN,
         NEW mem \in Behind, Receive(n, fin, mem)
  PROVE  PackInv'
<1>1. stream'.state # "NEW"
  <2>1. pc' = "start"
    BY DEF Receive
  <2> QED BY <2>1, ReceiveInv DEF ChunkInv
<1>2. ASSUME Packed' PROVE (\E h, c, d \in Nat : InOrder(h, c, d))'
  <2>1. CASE stream.state # "NEW"
    BY <1>2, <2>1, ContinuePacked
  <2>2. CASE stream.state = "NEW"
    <3>1. fin = FALSE
      <4> SUFFICES ASSUME fin = TRUE PROVE FALSE
        OBVIOUS
      <4>1. stream = NewStream
        BY <2>2 DEF ChunkInv
      <4>2. [stream EXCEPT !.state = "END"].state = "END"
             /\ [stream EXCEPT !.state = "END"].http_compress = "NONE"
        BY <4>1 DEF NewStream
      <4>3. stream' = [stream EXCEPT !.state = "END"]
        BY <4>2 DEF Receive
      <4> QED BY <1>2, <4>2, <4>3 DEF Packed
    <3>2. Receive(n, FALSE, mem)
      BY <3>1
    <3> QED BY <1>2, <2>2, <3>2, BeginPacked
  <2> QED BY <2>1, <2>2
<1> QED BY <1>1, <1>2 DEF PackInv

LEMMA Init_PackInv == Init => PackInv
BY DEF Init, PackInv, Packed, NewStream

LEMMA NextStreamPack ==
  ASSUME NextStream
  PROVE  PackInv'
BY DEF NextStream, PackInv, Packed, NewStream

LEMMA UnchangedPack ==
  ASSUME PackInv, UNCHANGED vars
  PROVE  PackInv'
<1>1. /\ message' = message /\ sent' = sent /\ stream' = stream /\ packet' = packet
      /\ fed' = fed /\ pc' = pc /\ past' = past
  BY DEF vars
<1>2. \A h, c, d \in Nat : InOrder(h, c, d)' <=> InOrder(h, c, d)
  BY <1>1 DEF InOrder, HasHeader, PackedAt, AllUnpacked, ToUnpack, InPacket,
       Total, Base, Data, Zs, With, Positions
<1>3. Packed' <=> Packed
  BY <1>1 DEF Packed
<1> QED BY <1>1, <1>2, <1>3 DEF PackInv

LEMMA PackInvIsInductive == IInv /\ ChunkInv /\ PackInv /\ [Next]_vars => PackInv'
<1> SUFFICES ASSUME IInv, ChunkInv, PackInv, [Next]_vars PROVE PackInv'
  OBVIOUS
<1>1. ASSUME NEW n \in 0..Len(message.bytes), NEW fin \in BOOLEAN,
             NEW mem \in Behind, Receive(n, fin, mem)
      PROVE  PackInv'
  BY <1>1, ReceivePack
<1>2. CASE SkipChunk \/ Chunk
  BY <1>2, ChunkStepPack
<1>3. CASE Gzip
  BY <1>3, GzipStepPack
<1>4. CASE NextStream
  BY <1>4, NextStreamPack
<1>5. CASE UNCHANGED vars
  BY <1>5, UnchangedPack
<1> QED
  BY <1>1, <1>2, <1>3, <1>4, <1>5 DEF Next

LEMMA PackedInOrder == IInv /\ ChunkInv /\ PackInv => InflateInOrder
<1> SUFFICES ASSUME IInv, ChunkInv, PackInv,
                    pc = "idle", past.aligned, past.tight,
                    stream.http_compress # "NONE",
                    stream.http_chunked => stream.state # "END",
                    stream.http_compress = "DEFLATE" => stream.gzip_only_http_header = 0
             PROVE  LET new == Select(With({"data"}) \cap Zs, sent - packet.size, sent)
                    IN /\ stream.gzip_z = "ok"
                       /\ fed = Select(Zs, 0, sent)
                       /\ new # <<>> =>
                            SubSeq(packet.l7, 1, packet.l7_content_size) =
                              InPacket({"head"}) \o new
  BY DEF InflateInOrder
<1>1. Packed
  <2>1. /\ stream.http_chunked \in BOOLEAN
        /\ past.aligned \in BOOLEAN /\ past.tight \in BOOLEAN
    BY DEF IInv, TypeOK, StreamFields, ChunkInv
  <2> QED BY <2>1 DEF Packed
<1>2. PICK h \in Nat, c \in Nat, d \in Nat : InOrder(h, c, d)
  BY <1>1 DEF PackInv
<1>3. AllUnpacked(h)
  BY <1>2 DEF InOrder
<1> QED BY <1>3 DEF AllUnpacked, Data, Base

-----------------------------------------------------------------------------
(* The results. *)

\* Wherever the chunk loop is, what it has written is behind what it has read,
\* and the sizes of the packet and of its buffer agree.
THEOREM Invariance == Spec => []IInv
<1> QED BY Init_IInv, IInvIsInductive, PTL DEF Spec

\* The fields of Stream and Packet keep their types: no size becomes negative,
\* and what chunk_offset_ takes over to the next packet is a number of bytes.
THEOREM TypeCorrect == Spec => []TypeOK
<1>1. IInv => TypeOK
  BY DEF IInv
<1> QED BY Invariance, <1>1, PTL

\* DecodeChunk never copies behind the place it reads from, and leaves no
\* l7_content_size_ greater than what l7_content_ holds: for any content, cut
\* anywhere, with any number where a chunk's size should be.
THEOREM StaysInBounds == Spec => []L7InBounds
<1>1. IInv => L7InBounds
  BY DEF IInv
<1> QED BY Invariance, <1>1, PTL

\* From packet to packet DecodeChunk and DecodeGzip are where the peer is: at
\* a chunk's line or in its data, behind all that is deflated and was sent.
THEOREM DecodersInvariance == Spec => [](IInv /\ ChunkInv /\ PackInv)
<1>1. IInv /\ ChunkInv /\ PackInv /\ [Next]_vars => (IInv /\ ChunkInv /\ PackInv)'
  BY IInvIsInductive, ChunkInvIsInductive, PackInvIsInductive
<1>2. Init => IInv /\ ChunkInv /\ PackInv
  BY Init_IInv, Init_ChunkInv, Init_PackInv
<1> QED BY <1>1, <1>2, PTL DEF Spec

\* Whatever message in chunks a peer sends, and wherever packets cut it if not
\* in a line with a chunk's size: chunk_offset_ is the rest of the chunk, all
\* of the data is in front of l7_content_ in its order, and l7_content_size_
\* is its size if each packet ends within a chunk.
THEOREM ChunksAreDecoded == Spec => []ChunksDecoded
<1>1. IInv /\ ChunkInv => ChunksDecoded
  BY InStepDecodes
<1> QED BY DecodersInvariance, <1>1, PTL

\* Whatever packed data a peer sends, in chunks or not: inflate gets what is
\* deflated, all of it and in its order, and a packet's new content is its
\* header and what is unpacked; if no packet ends outside of a chunk or cuts
\* the data's header, and no zlib header comes behind a packet with the HTTP
\* header alone.
THEOREM InflatesInOrder == Spec => []InflateInOrder
<1>1. IInv /\ ChunkInv /\ PackInv => InflateInOrder
  BY PackedInOrder
<1> QED BY DecodersInvariance, <1>1, PTL
=============================================================================
