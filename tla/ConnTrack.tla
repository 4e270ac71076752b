----------------------------- MODULE ConnTrack -----------------------------
(***************************************************************************)
(* TCP connection tracking and stream lifetime in NEGI: what StreamRebuild *)
(* and PacketClean do to the two global pools while one captured packet is *)
(* carried through Master::Proc.  The program is one thread, so a packet   *)
(* is taken from "idle" back to "idle" before the next one is captured;    *)
(* the steps in between follow the order of the code:                      *)
(*                                                                         *)
(*   idle      waiting in pcap_loop for the next packet                    *)
(*   search    in SearchStream's loop over the connections of one port key *)
(*   flags     after a match, at the FIN and RST tests                     *)
(*   clean     PacketClean::Proc, about to delete the packet               *)
(*   ends      deleting the streams of end_stream_list                     *)
(*   streams   garbage collection over stream_pool                         *)
(*   conns     garbage collection over tcp_conn_pool                       *)
(*                                                                         *)
(* Objects on the heap are identifiers; an identifier that is in no pool   *)
(* is free and can be allocated again, as an address can.  The sequence    *)
(* number test of Stream::AddPacket is a free choice here (it is the       *)
(* subject of StreamSeq), payloads are reduced to "empty or not".          *)
(***************************************************************************)
EXTENDS Integers, Sequences, FiniteSets, SequencesExt

CONSTANTS
  ConnIds,       \* addresses a TcpConn can be allocated at
  StreamIds,     \* addresses a Stream can be allocated at
  Addrs,         \* IP addresses
  Headers,       \* the TCP packets the network can deliver
  Times,         \* packet timestamps (tv_sec)
  GcRemoveTime,  \* the option gc_remove_time
  None           \* the null pointer

Endpoint == [ip : Addrs, port : Nat]

Header == [src : Endpoint, dst : Endpoint, syn : BOOLEAN, ack : BOOLEAN,
           fin : BOOLEAN, rst : BOOLEAN, data : BOOLEAN]

ASSUME HeadersAssumption == Headers \subseteq Header
ASSUME TimesAssumption == Times \subseteq Int /\ 0 \in Times
ASSUME GcRemoveTimeAssumption == GcRemoveTime \in Int
ASSUME NoneAssumption == None \notin ConnIds \cup StreamIds

VARIABLES
  connPool,      \* tcp_conn_pool_: a multimap, as the sequence of its values
  conn,          \* the TcpConn objects
  streamPool,    \* stream_pool_: the live Stream objects
  stream,        \* the Stream objects
  endList,       \* end_stream_list
  pkt,           \* the packet being processed
  lastGc,        \* PacketClean::last_gc_time_
  pc,            \* where Master::Proc is
  it             \* the iterator over tcp_conn_pool_, as an index

vars == <<connPool, conn, streamPool, stream, endList, pkt, lastGc, pc, it>>

-----------------------------------------------------------------------------
(* The records the objects are made of, and what an unused one looks like. *)

Direction == {"NEW", "C2S", "S2C"}

StreamState == {"BEGIN", "CONTINUE", "END"}

NoEnd == [src |-> None, dst |-> None]

\* A TcpConn.  state_ has no initial value in the constructor.
TcpConn == [ends : [src : Endpoint, dst : Endpoint] \cup {NoEnd},
            prev : Direction, ended : BOOLEAN, updated : Int,
            streams : Seq(StreamIds)]

Stream == [conn : ConnIds \cup {None}, dir : Direction, state : StreamState,
           updated : Int]

Packet == [hdr : Headers \cup {None}, ts : Int, error : BOOLEAN,
           stream : StreamIds \cup {None}, taken : SUBSET StreamIds]

FreeConn == [ends |-> NoEnd, prev |-> "NEW", ended |-> FALSE, updated |-> 0,
             streams |-> << >>]

FreeStream == [conn |-> None, dir |-> "NEW", state |-> "BEGIN", updated |-> 0]

\* The packet as it leaves Packet::Packet: no error, in no stream.
NewPacket(h, t) ==
  [hdr |-> h, ts |-> t, error |-> FALSE, stream |-> None, taken |-> {}]

NoPacket == NewPacket(None, 0)

TypeOK ==
  /\ connPool \in Seq(ConnIds)
  /\ conn \in [ConnIds -> TcpConn]
  /\ streamPool \subseteq StreamIds
  /\ stream \in [StreamIds -> Stream]
  /\ endList \in Seq(StreamIds)
  /\ pkt \in Packet
  /\ lastGc \in Int
  /\ pc \in {"idle", "search", "flags", "clean", "ends", "streams", "conns"}
  /\ it \in Nat

Init ==
  /\ connPool = << >>
  /\ conn = [c \in ConnIds |-> FreeConn]
  /\ streamPool = {}
  /\ stream = [s \in StreamIds |-> FreeStream]
  /\ endList = << >>
  /\ pkt = NoPacket
  /\ lastGc = 0
  /\ pc = "idle"
  /\ it = 0

-----------------------------------------------------------------------------
(* Looking at the pools. *)

LiveConns == ToSet(connPool)

\* The bigger port is the key of the connection map.
PortMapKey(e) ==
  IF e.src.port > e.dst.port THEN e.src.port ELSE e.dst.port

Ends(h) == [src |-> h.src, dst |-> h.dst]

\* Slip: the loop bound leaves the last connection out.
HasKeyShort(i, h) ==
  /\ i \in 1..Len(connPool) - 1
  /\ PortMapKey(conn[connPool[i]].ends) = PortMapKey(h)

\* tcp_conn_pool->GetTcpConnCount(key) # 0, and the first such connection.
HasKey(i, h) ==
  i \in 1..Len(connPool) /\ PortMapKey(conn[connPool[i]].ends) = PortMapKey(h)

\* multimap::insert puts a value after the ones whose key is not bigger.
InsertPos(h) ==
  1 + Cardinality({i \in 1..Len(connPool) :
                     PortMapKey(conn[connPool[i]].ends) <= PortMapKey(h)})

PortsForward(h, e) == h.src.port = e.src.port /\ h.dst.port = e.dst.port

Forward(h, c) == Ends(h) = conn[c].ends

\* The else-if: never reached when the ports also match in order.
Backward(h, c) ==
  /\ ~PortsForward(h, conn[c].ends)
  /\ h.src = conn[c].ends.dst
  /\ h.dst = conn[c].ends.src

\* Slip: the first stream is taken for the last.
LastStreamFirst(c) == Head(conn[c].streams)

\* *--(tcp_conn->GetStreamLastIt())
LastStream(c) == Last(conn[c].streams)

\* Slips: an ended stream is not listed, or is listed first.
EndListWithout(s) == endList

EndListReversed(s) == <<s>> \o endList

\* end_stream_list.push_back(s)
EndListWith(s) == Append(endList, s)

Position(q, x) == CHOOSE i \in 1..Len(q) : q[i] = x

-----------------------------------------------------------------------------
(* Capture: pcap_callback hands the next packet to Master::Proc, and       *)
(* SearchStream decides whether there is anything to look for.             *)

Capture(h, t) ==
  /\ pc = "idle"
  /\ pkt' = NewPacket(h, t)

\* Not TCP (or not IP): StreamRebuild::Proc does nothing.
CaptureOther(t) ==
  /\ Capture(None, t)
  /\ pc' = "clean"
  /\ UNCHANGED <<connPool, conn, streamPool, stream, endList, lastGc, it>>

NewConn(h, t) == [ends |-> Ends(h), prev |-> "NEW", ended |-> FALSE,
                  updated |-> t, streams |-> << >>]

\* A SYN allocates a connection, whether or not one exists for its ends.
CaptureSyn(h, t, c) ==
  /\ Capture(h, t)
  /\ h.syn /\ ~h.ack
  /\ c \notin LiveConns
  /\ connPool' = InsertAt(connPool, InsertPos(h), c)
  /\ conn' = [conn EXCEPT ![c] = NewConn(h, t)]
  /\ pc' = "clean"
  /\ UNCHANGED <<streamPool, stream, endList, lastGc, it>>

NotSyn(h) == ~(h.syn /\ ~h.ack)

Discarded(h) == ~h.fin /\ ~h.data

CaptureDiscard(h, t) ==
  /\ Capture(h, t)
  /\ NotSyn(h) /\ (Discarded(h) \/ \A i \in 1..Len(connPool) : ~HasKey(i, h))
  /\ pc' = "clean"
  /\ UNCHANGED <<connPool, conn, streamPool, stream, endList, lastGc, it>>

\* The iterator starts at the first connection of the packet's key.
CaptureSearch(h, t) ==
  /\ Capture(h, t)
  /\ NotSyn(h) /\ ~Discarded(h)
  /\ \E i \in 1..Len(connPool) :
       /\ HasKey(i, h) /\ \A j \in 1..i - 1 : ~HasKey(j, h)
       /\ it' = i
  /\ pc' = "search"
  /\ UNCHANGED <<connPool, conn, streamPool, stream, endList, lastGc>>

-----------------------------------------------------------------------------
(* SearchStream's loop: one visit per connection of the key.               *)

Visiting(c) ==
  /\ pc = "search"
  /\ HasKey(it, pkt.hdr)
  /\ c = connPool[it]

\* The loop has run over every connection of the key.
SearchDone ==
  /\ pc = "search"
  /\ ~HasKey(it, pkt.hdr)
  /\ pc' = "clean"
  /\ it' = 0
  /\ UNCHANGED <<connPool, conn, streamPool, stream, endList, pkt, lastGc>>

\* The connection is between other ends.
Skip(c) ==
  /\ Visiting(c)
  /\ ~Forward(pkt.hdr, c) /\ ~Backward(pkt.hdr, c)
  /\ it' = it + 1
  /\ UNCHANGED <<connPool, conn, streamPool, stream, endList, pkt, lastGc, pc>>

Matches(c, dir) ==
  /\ Visiting(c)
  /\ IF dir = "C2S" THEN Forward(pkt.hdr, c) ELSE Backward(pkt.hdr, c)

\* Slips: last_updated_time_ or direction_ keeps the constructor's value.
NewStreamNoTime(c, dir) ==
  [conn |-> c, dir |-> dir, state |-> "BEGIN", updated |-> None]

NewStreamNoDirection(c, dir) ==
  [conn |-> c, dir |-> "C2S", state |-> "BEGIN", updated |-> pkt.ts]

\* new Stream(pkt), AddPacket, SetDirection and TcpConn::AddStream.
NewStreamFor(c, dir) ==
  [conn |-> c, dir |-> dir, state |-> "BEGIN", updated |-> pkt.ts]

AttachStream(c, s, dir) ==
  conn' = [conn EXCEPT ![c].streams = Append(@, s),
                       ![c].updated = pkt.ts,
                       ![c].prev = dir]

\* Stream::AddPacket, as it marks the packet it accepts.
AcceptedBy(s) == [pkt EXCEPT !.stream = s, !.taken = @ \cup {s}]

\* The first packet with data or FIN after the SYN.
Open(c, s, dir) ==
  /\ Matches(c, dir)
  /\ conn[c].prev = "NEW"
  /\ s \notin streamPool
  /\ streamPool' = streamPool \cup {s}
  /\ stream' = [stream EXCEPT ![s] = NewStreamFor(c, dir)]
  /\ AttachStream(c, s, dir)
  /\ pkt' = AcceptedBy(s)
  /\ pc' = "flags"
  /\ UNCHANGED <<connPool, endList, lastGc, it>>

\* Another packet in the same direction goes to the last stream.
ContinueAccept(c, dir) ==
  /\ Matches(c, dir)
  /\ conn[c].prev = dir
  /\ stream' = [stream EXCEPT ![LastStream(c)].state = "CONTINUE",
                              ![LastStream(c)].updated = pkt.ts]
  /\ pkt' = AcceptedBy(LastStream(c))
  /\ pc' = "flags"
  /\ UNCHANGED <<connPool, conn, streamPool, endList, lastGc, it>>

\* AddPacket refuses a duplicate or a packet out of order, except in BEGIN.
ContinueReject(c, dir) ==
  /\ Matches(c, dir)
  /\ conn[c].prev = dir
  /\ stream[LastStream(c)].state = "CONTINUE"
  /\ pkt' = [pkt EXCEPT !.error = TRUE]
  /\ pc' = "flags"
  /\ UNCHANGED <<connPool, conn, streamPool, stream, endList, lastGc, it>>

\* The direction changed: the last stream ends, a new one takes its place.
\* The client's branch returns at once, the server's goes on to the flags.
Turn(c, s, dir) ==
  /\ Matches(c, dir)
  /\ conn[c].prev \notin {"NEW", dir}
  /\ s \notin streamPool
  /\ streamPool' = streamPool \cup {s}
  /\ stream' = [stream EXCEPT ![LastStream(c)].state = "END",
                              ![s] = NewStreamFor(c, dir)]
  /\ endList' = EndListWith(LastStream(c))
  /\ AttachStream(c, s, dir)
  /\ pkt' = AcceptedBy(s)
  /\ UNCHANGED <<connPool, lastGc>>

TurnForward(c, s) ==
  /\ Turn(c, s, "C2S")
  /\ pc' = "clean"
  /\ it' = 0

TurnBackward(c, s) ==
  /\ Turn(c, s, "S2C")
  /\ pc' = "flags"
  /\ UNCHANGED it

Closes(h) == h.fin \/ h.rst

\* FIN or RST: the last stream and the connection end (unless the stream
\* has already), and the search returns.
Close ==
  /\ pc = "flags"
  /\ Closes(pkt.hdr)
  /\ LET c == connPool[it]
         last == LastStream(c)
     IN IF stream[last].state = "END"
        THEN UNCHANGED <<stream, endList, conn>>
        ELSE /\ stream' = [stream EXCEPT ![last].state = "END"]
             /\ endList' = EndListWith(last)
             /\ conn' = [conn EXCEPT ![c].ended = TRUE]
  /\ pc' = "clean"
  /\ it' = 0
  /\ UNCHANGED <<connPool, streamPool, pkt, lastGc>>

\* Otherwise the search goes on: a match does not stop it.
NextConn ==
  /\ pc = "flags"
  /\ ~Closes(pkt.hdr)
  /\ pc' = "search"
  /\ it' = it + 1
  /\ UNCHANGED <<connPool, conn, streamPool, stream, endList, pkt, lastGc>>

-----------------------------------------------------------------------------
(* Destructors. *)

\* Slip: RemoveStreamIt does not erase.
StreamsWithoutNone(c, s) == conn[c].streams

\* ~Stream leaves its connection's list; a connection whose list becomes
\* empty deletes itself, unless it is the one being destroyed.
StreamsWithout(c, s) == RemoveAt(conn[c].streams, Position(conn[c].streams, s))

DeleteStream(s) ==
  LET c == stream[s].conn
      left == StreamsWithout(c, s)
  IN /\ streamPool' = streamPool \ {s}
     /\ stream' = [stream EXCEPT ![s] = FreeStream]
     /\ IF left = << >>
        THEN /\ connPool' = RemoveAt(connPool, Position(connPool, c))
             /\ conn' = [conn EXCEPT ![c] = FreeConn]
        ELSE /\ conn' = [conn EXCEPT ![c].streams = left]
             /\ UNCHANGED connPool

\* Slip: ~TcpConn deletes no stream.
FirstStreamOfNone(c) == {}

\* ~TcpConn leaves the pool and deletes its first stream: its loop steps
\* back from the first stream to the end of the list, and stops there.
FirstStreamOf(c) ==
  IF conn[c].streams = << >> THEN {} ELSE {Head(conn[c].streams)}

DeleteConn(c) ==
  /\ connPool' = RemoveAt(connPool, Position(connPool, c))
  /\ conn' = [conn EXCEPT ![c] = FreeConn]
  /\ streamPool' = streamPool \ FirstStreamOf(c)
  /\ stream' = [s \in StreamIds |->
                  IF s \in FirstStreamOf(c) THEN FreeStream ELSE stream[s]]

-----------------------------------------------------------------------------
(* PacketClean::Proc. *)

\* Slip: the packet is left for later.
DeletePacketNot ==
  /\ pc = "clean"
  /\ pc' = "ends"
  /\ UNCHANGED <<connPool, conn, streamPool, stream, endList, pkt, lastGc, it>>

\* delete pkt: savemode is PACKET.  Only the timestamp is used after this.
DeletePacket ==
  /\ pc = "clean"
  /\ pkt' = NewPacket(None, pkt.ts)
  /\ pc' = "ends"
  /\ UNCHANGED <<connPool, conn, streamPool, stream, endList, lastGc, it>>

\* delete *it for the streams of end_stream_list, in order.
DeleteEnded ==
  /\ pc = "ends"
  /\ endList # << >>
  /\ DeleteStream(Head(endList))
  /\ endList' = Tail(endList)
  /\ UNCHANGED <<pkt, lastGc, pc, it>>

\* "Gabage collect is enough 1 sec. each."
GcDue == pkt.ts - lastGc >= 1

FinishPacket ==
  /\ pkt' = NoPacket
  /\ pc' = "idle"
  /\ it' = 0
  /\ UNCHANGED <<connPool, conn, streamPool, stream, endList>>

SkipGc ==
  /\ pc = "ends"
  /\ endList = << >>
  /\ ~GcDue
  /\ FinishPacket
  /\ UNCHANGED lastGc

StartGc ==
  /\ pc = "ends"
  /\ endList = << >>
  /\ GcDue
  /\ pc' = "streams"
  /\ UNCHANGED <<connPool, conn, streamPool, stream, endList, pkt, lastGc, it>>

TimedOut(t) == pkt.ts - t >= GcRemoveTime

\* Slip: the time of the last collection is taken for that of the stream.
StreamExpiredSinceGc(s) == s \in streamPool /\ TimedOut(lastGc)

StreamExpired(s) == TimedOut(stream[s].updated)

\* One iteration over stream_pool that deletes (std::list's --begin() is
\* end(), whose successor is begin(), so the loop misses no stream).
GcStream(s) ==
  /\ pc = "streams"
  /\ s \in streamPool
  /\ StreamExpired(s)
  /\ DeleteStream(s)
  /\ UNCHANGED <<endList, pkt, lastGc, pc, it>>

GcStreamsDone ==
  /\ pc = "streams"
  /\ \A s \in streamPool : ~StreamExpired(s)
  /\ pc' = "conns"
  /\ it' = 1
  /\ UNCHANGED <<connPool, conn, streamPool, stream, endList, pkt, lastGc>>

\* The other loop walks a multimap, where --begin() and ++end() are
\* undefined.  libstdc++ answers by the shape of its red-black tree, which
\* is not modelled: these are its answers for some tree of n elements, as
\* positions, n + 1 for end().  ++end() goes to the smallest element below
\* the biggest one.
AfterEnd(n) == {i \in {n - 1, n} : i >= 1 /\ (n = 3 => i = 3)}

\* Slips: the deleted connection is the one before, or the iterator is
\* left behind the one it was at.
BackOnly(i, n) == {<<i, IF i > 1 THEN i - 1 ELSE n + 1>>}

BackAndStay(i, n) == {<<i - 1, n + 1>>}

\* "it2 = --it; ++it" as <<it2, it>>.  Past the first element the two steps
\* cancel.  On the first, --it gives end(), or the root if it is the root.
BackAndForth(i, n) ==
  CASE i > 1          -> {<<i - 1, i>>}
    [] i = 1 /\ n = 1 -> {<<1, 2>>}
    [] i = 1 /\ n = 2 -> {<<1, 2>>, <<3, 1>>}
    [] OTHER          -> {<<n + 1, j>> : j \in AfterEnd(n)}

ConnExpired(c) == TimedOut(conn[c].updated)

GcConnKeep ==
  /\ pc = "conns"
  /\ it <= Len(connPool)
  /\ ~ConnExpired(connPool[it])
  /\ it' = it + 1
  /\ UNCHANGED <<connPool, conn, streamPool, stream, endList, pkt, lastGc, pc>>

\* The connection at the iterator has timed out: the one the iterator comes
\* back to is deleted, if that is one.
GcConnExpired ==
  /\ pc = "conns"
  /\ it <= Len(connPool)
  /\ ConnExpired(connPool[it])
  /\ \E bf \in BackAndForth(it, Len(connPool)) :
       IF bf[2] <= Len(connPool)
       THEN /\ DeleteConn(connPool[bf[2]])
            /\ it' \in IF bf[1] > Len(connPool)
                       THEN AfterEnd(Len(connPool) - 1) ELSE {bf[1] + 1}
       ELSE /\ it' = bf[1] + 1
            /\ UNCHANGED <<connPool, conn, streamPool, stream>>
  /\ UNCHANGED <<endList, pkt, lastGc, pc>>

GcDone ==
  /\ pc = "conns"
  /\ it > Len(connPool)
  /\ lastGc' = pkt.ts
  /\ FinishPacket

-----------------------------------------------------------------------------
CaptureNext ==
  \E t \in Times :
    \/ CaptureOther(t)
    \/ \E h \in Headers :
         \/ CaptureDiscard(h, t)
         \/ CaptureSearch(h, t)
         \/ \E c \in ConnIds : CaptureSyn(h, t, c)

SearchNext ==
  \/ SearchDone
  \/ \E c \in ConnIds :
       \/ Skip(c)
       \/ \E dir \in {"C2S", "S2C"} :
            \/ ContinueAccept(c, dir)
            \/ ContinueReject(c, dir)
            \/ \E s \in StreamIds : Open(c, s, dir)
       \/ \E s \in StreamIds : TurnForward(c, s) \/ TurnBackward(c, s)
  \/ Close
  \/ NextConn

CleanNext ==
  \/ DeletePacket
  \/ DeleteEnded
  \/ SkipGc
  \/ StartGc
  \/ \E s \in StreamIds : GcStream(s)
  \/ GcStreamsDone
  \/ GcConnKeep
  \/ GcConnExpired
  \/ GcDone

\* The thread's own steps, between two packets.
Process == SearchNext \/ CleanNext

Next == CaptureNext \/ Process

Spec == Init /\ [][Next]_vars

\* The one thread of the program runs; nobody promises another packet.
FairSpec == Spec /\ WF_vars(Process)

-----------------------------------------------------------------------------
(* Properties. *)

StreamsOf(c) == ToSet(conn[c].streams)

\* No pointer dangles between the pools: a live stream belongs to a live
\* connection that lists it, and a connection lists only live streams of its
\* own, each once.  The destructors (~Stream, ~TcpConn, RemoveStreamIt) call
\* through these pointers and iterators without a test.
NoDangling ==
  /\ IsInjective(connPool)
  /\ \A s \in streamPool :
       stream[s].conn \in LiveConns /\ s \in StreamsOf(stream[s].conn)
  /\ \A c \in LiveConns :
       /\ \A s \in StreamsOf(c) : s \in streamPool /\ stream[s].conn = c
       /\ IsInjective(conn[c].streams)

\* end_stream_list is the list of the ended streams, none of them twice:
\* PacketClean deletes every pointer in it, and then only clears it.
EndListSound ==
  /\ ToSet(endList) = {s \in streamPool : stream[s].state = "END"}
  /\ IsInjective(endList)

InOrder(c) ==
  \A i \in 1..Len(conn[c].streams) :
    /\ i < Len(conn[c].streams) => stream[conn[c].streams[i]].state = "END"
    /\ \A k \in 1..Len(endList), j \in 1..i - 1 :
         endList[k] = conn[c].streams[i] =>
           \E l \in 1..k - 1 : endList[l] = conn[c].streams[j]

\* Only the last stream of a connection can take packets; the ones before it
\* have ended, and are in end_stream_list in the order of the conversation.
EndListInOrder == \A c \in LiveConns : InOrder(c)

\* No connection outlives the packet that ended it.
NoEndedConnAtRest ==
  pc \in {"idle", "streams", "conns"} =>
    \A c \in LiveConns : ~conn[c].ended

\* Ended streams are handed to PacketClean whole: end_stream_list holds each
\* of them once and in the order of its conversation, and with the packet
\* that ended a connection the connection is gone.
EndList == EndListSound /\ EndListInOrder /\ NoEndedConnAtRest

\* A connection has at most one stream whenever a whole connection can be
\* deleted, that is outside the search and end_stream_list's loop.  ~TcpConn
\* deletes only the first: a second would be left with a dangling tcp_conn_.
OneStreamAtGc ==
  pc \notin {"search", "flags", "clean", "ends"} =>
    \A c \in LiveConns : Len(conn[c].streams) <= 1

PrevDescribes(c) ==
  IF conn[c].prev = "NEW"
  THEN conn[c].streams = << >> /\ ~conn[c].ended
  ELSE /\ conn[c].streams # << >>
       /\ stream[LastStream(c)].dir = conn[c].prev
       /\ stream[LastStream(c)].state = "END" <=> conn[c].ended

\* prev_direction_ describes the last stream, which exists unless it is NEW:
\* SearchStream takes *--GetStreamLastIt() without looking at the list.
PrevDescribesLast == \A c \in LiveConns : PrevDescribes(c)

\* The packet's stream_ is alive while ~Packet can still unlink from it, and
\* a packet is only in streams of its own direction and connection.
PacketInItsStreams ==
  /\ pkt.stream \in pkt.taken \cup {None}
  /\ \A s \in pkt.taken :
       /\ s \in streamPool
       /\ IF stream[s].dir = "C2S" THEN Forward(pkt.hdr, stream[s].conn)
          ELSE Backward(pkt.hdr, stream[s].conn)

FromServer(h, c) == h.src = conn[c].ends.dst /\ h.dst = conn[c].ends.src

\* The live connections a packet belongs to, by its ends alone.
Matching(h) == {c \in LiveConns : Forward(h, c) \/ FromServer(h, c)}

\* Client and server on one port number: the test of the ports alone (79-80)
\* takes the server's packet for the client's, the addresses then differ,
\* and the branch for the server (145) is not tried.
Shadowed(h, c) ==
  /\ FromServer(h, c) /\ ~Forward(h, c)
  /\ conn[c].ends.src.port = conn[c].ends.dst.port

\* The connections SearchStream owes a packet to.  There are none for a SYN,
\* which opens a connection and is itself kept nowhere, and none for a
\* packet with neither data nor FIN (line 54), a bare RST included.
Read(h) ==
  IF NotSyn(h) /\ ~Discarded(h)
  THEN {c \in Matching(h) : ~Shadowed(h, c)} ELSE {}

Searched == pc = "clean" /\ pkt.hdr # None

\* SearchStream leaves a packet in a stream, or marks it as an error, exactly
\* if there is a connection it owes it to.  The packets that are dropped
\* without a mark are the SYNs, those with neither data nor FIN, those of no
\* live connection and, on a connection whose two ports are equal, all the
\* server's.
DropsOnlyUnread ==
  Searched => (pkt.taken # {} \/ pkt.error <=> Read(pkt.hdr) # {})

OldestRead(h, c) ==
  /\ c \in Read(h)
  /\ \A d \in Read(h) : Position(connPool, c) <= Position(connPool, d)

\* The packet has turned the conversation to C2S: that branch returns before
\* it looks at the flags (line 115).
TurnedForward(h, c) == Forward(h, c) /\ Len(conn[c].streams) = 2

\* A FIN, or a RST with data, ends the oldest connection SearchStream owes it
\* to and no other, unless it also turns the conversation to C2S.  No other
\* packet ends one: not a RST without data (line 54), and not the server's
\* FIN or RST on a connection whose two ports are equal.
EndsOldestRead ==
  Searched =>
    \A c \in LiveConns :
      conn[c].ended <=> /\ Closes(pkt.hdr)
                        /\ OldestRead(pkt.hdr, c)
                        /\ ~TurnedForward(pkt.hdr, c)

\* A stream is destroyed because it has ended, because nothing was added to
\* it for gc_remove_time, or because its connection is collected.
NoEarlyDelete ==
  [][\A s \in streamPool \ streamPool' :
       \/ stream[s].state = "END"
       \/ pkt.ts - stream[s].updated >= GcRemoveTime
       \/ pc = "conns" /\ stream[s].conn \notin ToSet(connPool')]_vars

\* The connection collector deletes one connection at a time, and one that
\* has not timed out only while the connection with the smallest key has.
GcSparesUnlessFirst ==
  [][\A c \in LiveConns \ ToSet(connPool') :
       pc = "conns" =>
         /\ LiveConns \ ToSet(connPool') = {c}
         /\ ConnExpired(c) \/ ConnExpired(connPool[1])]_vars

\* "Check all tcpconn for timeout." (packet_clean.cpp:74): the loop deletes
\* no connection that has not timed out.  The code does: see run wrong_conn.
GcSparesActive ==
  [][\A c \in LiveConns \ ToSet(connPool') :
       pc = "conns" => pkt.ts - conn[c].updated >= GcRemoveTime]_vars

\* Every packet is finished: the loops of SearchStream and PacketClean end,
\* also where the collector's iterator runs over the ends of the multimap.
PacketFinishes == pc # "idle" ~> pc = "idle"

Lifetimes == INSTANCE Ownership WITH
  live <- LiveConns,
  owner <- [s \in StreamIds |-> stream[s].conn],
  retired <- {s \in streamPool : stream[s].state = "END"}

\* ConnTrack implements Ownership.
ImplementsOwnership == Lifetimes!Spec
=============================================================================
