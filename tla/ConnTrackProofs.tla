-------------------------- MODULE ConnTrackProofs --------------------------
(***************************************************************************)
(* Proofs about ConnTrack, for any number of connections and streams, any  *)
(* set of packets, any timestamps and any value of gc_remove_time.         *)
(*                                                                         *)
(* The inductive invariant IInv joins the safety properties, none of which *)
(* is inductive alone, with what the point of control says of the lists:   *)
(* end_stream_list is empty outside the handling of one packet, and no     *)
(* connection has ended while SearchStream still looks for one.            *)
(***************************************************************************)
EXTENDS ConnTrack, SequenceFacts, FiniteSetTheorems

Control ==
  /\ pc \in {"idle", "streams", "conns"} => endList = << >>
  /\ pc \in {"search", "flags"} => \A c \in LiveConns : ~conn[c].ended
  /\ pc = "flags" => /\ it \in 1..Len(connPool)
                     /\ conn[connPool[it]].prev # "NEW"
  /\ pc = "conns" => it >= 1

IInv ==
  /\ TypeOK
  /\ NoDangling
  /\ EndListSound
  /\ EndListInOrder
  /\ PrevDescribesLast
  /\ Control

-----------------------------------------------------------------------------
(* Facts that hold in every state of IInv.                                 *)

(* The connections of the pool are connections, and a visited connection   *)
(* is one of them.                                                         *)
LEMMA PoolFacts ==
  ASSUME TypeOK
  PROVE  /\ Len(connPool) \in Nat
         /\ DOMAIN connPool = 1..Len(connPool)
         /\ LiveConns \subseteq ConnIds
         /\ \A i \in 1..Len(connPool) : connPool[i] \in LiveConns
         /\ \A c : Visiting(c) => /\ c \in LiveConns
                                  /\ it \in 1..Len(connPool)
                                  /\ c = connPool[it]
<1>1. connPool \in Seq(ConnIds)
  BY DEF TypeOK
<1>2. Len(connPool) \in Nat /\ DOMAIN connPool = 1..Len(connPool)
  BY <1>1, LenProperties
<1>3. \A i \in 1..Len(connPool) : connPool[i] \in ConnIds
  BY <1>1, ElementOfSeq
<1> QED BY <1>2, <1>3 DEF LiveConns, ToSet, Visiting, HasKey

(* The list of a connection, and of the streams that have ended.           *)
LEMMA ListFacts ==
  ASSUME TypeOK
  PROVE  /\ \A c \in ConnIds :
              /\ conn[c].streams \in Seq(StreamIds)
              /\ Len(conn[c].streams) \in Nat
              /\ DOMAIN conn[c].streams = 1..Len(conn[c].streams)
              /\ conn[c].streams # << >> <=> Len(conn[c].streams) # 0
              /\ \A i \in 1..Len(conn[c].streams) :
                   conn[c].streams[i] \in StreamsOf(c)
              /\ \A s \in StreamsOf(c) : s \in StreamIds
         /\ Len(endList) \in Nat
         /\ DOMAIN endList = 1..Len(endList)
<1>1. endList \in Seq(StreamIds)
  BY DEF TypeOK
<1>2. Len(endList) \in Nat /\ DOMAIN endList = 1..Len(endList)
  BY <1>1, LenProperties
<1>3. ASSUME NEW c \in ConnIds
      PROVE  /\ conn[c].streams \in Seq(StreamIds)
             /\ Len(conn[c].streams) \in Nat
             /\ DOMAIN conn[c].streams = 1..Len(conn[c].streams)
             /\ conn[c].streams # << >> <=> Len(conn[c].streams) # 0
             /\ \A i \in 1..Len(conn[c].streams) :
                  conn[c].streams[i] \in StreamsOf(c)
             /\ \A s \in StreamsOf(c) : s \in StreamIds
  <2> DEFINE q == conn[c].streams
  <2>1. q \in Seq(StreamIds)
    BY DEF TypeOK, TcpConn
  <2>2. Len(q) \in Nat /\ DOMAIN q = 1..Len(q)
    BY <2>1, LenProperties
  <2>3. \A i \in 1..Len(q) : q[i] \in StreamIds
    BY <2>1, ElementOfSeq
  <2>4. q # << >> <=> Len(q) # 0
    BY <2>1, EmptySeq
  <2> HIDE DEF q
  <2>5. /\ \A i \in 1..Len(q) : q[i] \in ToSet(q)
        /\ \A s \in ToSet(q) : s \in StreamIds
    BY <2>2, <2>3 DEF ToSet
  <2> QED BY <2>1, <2>2, <2>4, <2>5 DEF q, StreamsOf
<1> QED BY <1>2, <1>3

(* A stream is listed by one connection only.                              *)
LEMMA OneOwner ==
  ASSUME NoDangling, NEW c \in LiveConns, NEW d \in LiveConns,
         NEW s \in StreamsOf(c), s \in StreamsOf(d)
  PROVE  c = d
BY DEF NoDangling

(* A connection that has data has a last stream, which is alive and its    *)
(* own, and runs unless the connection has ended.                          *)
LEMMA LastFacts ==
  ASSUME IInv, NEW c \in LiveConns, conn[c].prev # "NEW"
  PROVE  /\ Len(conn[c].streams) \in Nat \ {0}
         /\ LastStream(c) = conn[c].streams[Len(conn[c].streams)]
         /\ LastStream(c) \in StreamsOf(c)
         /\ LastStream(c) \in streamPool
         /\ LastStream(c) \in StreamIds
         /\ stream[LastStream(c)].conn = c
         /\ ~conn[c].ended => LastStream(c) \notin ToSet(endList)
<1>1. TypeOK /\ NoDangling /\ EndListSound /\ PrevDescribesLast
  BY DEF IInv
<1>2. c \in ConnIds
  BY <1>1, PoolFacts
<1>3. conn[c].streams # << >>
  BY <1>1 DEF PrevDescribesLast, PrevDescribes
<1>4. /\ Len(conn[c].streams) \in Nat \ {0}
      /\ LastStream(c) = conn[c].streams[Len(conn[c].streams)]
  BY <1>1, <1>2, <1>3, ListFacts DEF LastStream, Last
<1>5. LastStream(c) \in StreamsOf(c) /\ LastStream(c) \in StreamIds
  BY <1>1, <1>2, <1>4, ListFacts
<1>6. LastStream(c) \in streamPool /\ stream[LastStream(c)].conn = c
  BY <1>1, <1>5 DEF NoDangling
<1>7. ~conn[c].ended => LastStream(c) \notin ToSet(endList)
  BY <1>1, <1>6 DEF PrevDescribesLast, PrevDescribes, EndListSound
<1> QED BY <1>4, <1>5, <1>6, <1>7

-----------------------------------------------------------------------------
(* The steps.  Most of them leave the pools and lists as they are.         *)

Pools == <<connPool, conn, streamPool, stream, endList>>

LEMMA PoolsUnchanged ==
  ASSUME NoDangling, EndListSound, EndListInOrder, PrevDescribesLast,
         UNCHANGED Pools
  PROVE  NoDangling' /\ EndListSound' /\ EndListInOrder' /\ PrevDescribesLast'
<1>1. /\ connPool' = connPool /\ conn' = conn /\ streamPool' = streamPool
      /\ stream' = stream /\ endList' = endList
  BY DEF Pools
<1>2. NoDangling'
  BY <1>1 DEF NoDangling, LiveConns, StreamsOf
<1>3. EndListSound'
  BY <1>1 DEF EndListSound
<1>4. EndListInOrder'
  BY <1>1 DEF EndListInOrder, InOrder, LiveConns
<1>5. PrevDescribesLast'
  BY <1>1 DEF PrevDescribesLast, PrevDescribes, LiveConns, LastStream
<1> QED BY <1>2, <1>3, <1>4, <1>5

LEMMA NewPacketType ==
  ASSUME NEW h \in Headers \cup {None}, NEW t \in Int
  PROVE  NewPacket(h, t) \in Packet
BY DEF NewPacket, Packet

(* The steps that only move the point of control or change the packet.     *)
LEMMA QuietStep ==
  ASSUME IInv,
         \/ \E t \in Times : CaptureOther(t)
         \/ \E t \in Times, h \in Headers :
              CaptureDiscard(h, t) \/ CaptureSearch(h, t)
         \/ SearchDone
         \/ \E c \in ConnIds : Skip(c)
         \/ \E c \in ConnIds, dir \in {"C2S", "S2C"} : ContinueReject(c, dir)
         \/ NextConn \/ DeletePacket \/ SkipGc \/ StartGc \/ GcStreamsDone
         \/ GcConnKeep \/ GcDone
         \/ UNCHANGED vars
  PROVE  IInv'
<1>1. TypeOK /\ NoDangling /\ EndListSound /\ EndListInOrder
      /\ PrevDescribesLast /\ Control
  BY DEF IInv
<1>2. UNCHANGED Pools
  BY DEF CaptureOther, CaptureDiscard, CaptureSearch, SearchDone, Skip,
         ContinueReject, NextConn, DeletePacket, SkipGc, StartGc,
         GcStreamsDone, GcConnKeep, GcDone, FinishPacket, Pools, vars
<1>3. NoDangling' /\ EndListSound' /\ EndListInOrder' /\ PrevDescribesLast'
  BY <1>1, <1>2, PoolsUnchanged
<1>4. pkt' \in Packet
  <2>1. CASE \/ \E t \in Times : CaptureOther(t)
             \/ \E t \in Times, h \in Headers :
                  CaptureDiscard(h, t) \/ CaptureSearch(h, t)
    BY <2>1, NewPacketType, TimesAssumption
       DEF CaptureOther, CaptureDiscard, CaptureSearch, Capture
  <2>2. CASE DeletePacket \/ SkipGc \/ GcDone
    <3>1. pkt.ts \in Int
      BY <1>1 DEF TypeOK, Packet
    <3>2. pkt' = NewPacket(None, pkt.ts) \/ pkt' = NewPacket(None, 0)
      BY <2>2 DEF DeletePacket, SkipGc, GcDone, FinishPacket, NoPacket
    <3> QED BY <3>1, <3>2, NewPacketType
  <2>3. CASE \E c \in ConnIds, dir \in {"C2S", "S2C"} : ContinueReject(c, dir)
    BY <2>3, <1>1 DEF ContinueReject, TypeOK, Packet
  <2>4. CASE \/ SearchDone \/ NextConn \/ StartGc \/ GcStreamsDone
             \/ GcConnKeep \/ UNCHANGED vars \/ \E c \in ConnIds : Skip(c)
    BY <2>4, <1>1 DEF SearchDone, Skip, NextConn, StartGc, GcStreamsDone,
                      GcConnKeep, vars, TypeOK
  <2> QED BY <2>1, <2>2, <2>3, <2>4
<1>5. lastGc' \in Int
  BY <1>1 DEF CaptureOther, CaptureDiscard, CaptureSearch, SearchDone, Skip,
         ContinueReject, NextConn, DeletePacket, SkipGc, StartGc,
         GcStreamsDone, GcConnKeep, GcDone, vars, TypeOK, Packet
<1>6. it' \in Nat /\ pc' \in {"idle", "search", "flags", "clean", "ends",
                             "streams", "conns"}
  BY <1>1, PoolFacts
     DEF CaptureOther, CaptureDiscard, CaptureSearch, SearchDone, Skip,
         ContinueReject, NextConn, DeletePacket, SkipGc, StartGc,
         GcStreamsDone, GcConnKeep, GcDone, FinishPacket, vars, TypeOK
<1>7. TypeOK'
  BY <1>1, <1>2, <1>4, <1>5, <1>6 DEF TypeOK, Pools
<1>8. Control'
  <2>1. pc' \in {"idle", "streams", "conns"} => endList' = << >>
    BY <1>1, <1>2 DEF CaptureOther, CaptureDiscard, CaptureSearch, SearchDone,
         Skip, ContinueReject, NextConn, DeletePacket, SkipGc, StartGc,
         GcStreamsDone, GcConnKeep, GcDone, FinishPacket, vars, Control, Pools
  <2>2. pc' \in {"search", "flags"} => \A c \in LiveConns' : ~conn'[c].ended
    <3>1. pc' \in {"search", "flags"} => pc \in {"idle", "search", "flags"}
      BY <1>1 DEF CaptureOther, CaptureDiscard, CaptureSearch, SearchDone,
         Skip, ContinueReject, NextConn, DeletePacket, SkipGc, StartGc,
         GcStreamsDone, GcConnKeep, GcDone, FinishPacket, vars, TypeOK,
         Capture, Visiting, Matches
    <3>2. LiveConns' = LiveConns /\ conn' = conn
      BY <1>2 DEF Pools, LiveConns
    <3>3. pc = "idle" => \A c \in LiveConns : ~conn[c].ended
      <4> SUFFICES ASSUME pc = "idle", NEW c \in LiveConns, conn[c].ended
                   PROVE  FALSE
        OBVIOUS
      <4>1. endList = << >> /\ ToSet(endList) = {}
        BY <1>1 DEF Control, ToSet
      <4>2. conn[c].prev # "NEW"
        BY <1>1 DEF PrevDescribesLast, PrevDescribes
      <4>3. stream[LastStream(c)].state = "END"
        BY <1>1, <4>2 DEF PrevDescribesLast, PrevDescribes
      <4>4. LastStream(c) \in streamPool
        BY <4>2, LastFacts
      <4> QED BY <1>1, <4>1, <4>3, <4>4 DEF EndListSound
    <3> QED BY <1>1, <3>1, <3>2, <3>3 DEF Control
  <2>3. pc' = "flags" => /\ it' \in 1..Len(connPool')
                         /\ conn'[connPool'[it']].prev # "NEW"
    <3>1. connPool' = connPool /\ conn' = conn
      BY <1>2 DEF Pools
    <3>2. CASE \E c \in ConnIds, dir \in {"C2S", "S2C"} : ContinueReject(c, dir)
      BY <1>1, <3>1, <3>2, PoolFacts DEF ContinueReject, Matches
    <3>3. CASE UNCHANGED vars
      BY <1>1, <3>1, <3>3 DEF vars, Control
    <3>4. CASE ~UNCHANGED vars
               /\ ~\E c \in ConnIds, dir \in {"C2S", "S2C"} :
                     ContinueReject(c, dir)
      <4>1. pc' # "flags"
        BY <3>4 DEF CaptureOther, CaptureDiscard, CaptureSearch, SearchDone,
           Skip, NextConn, DeletePacket, SkipGc, StartGc, GcStreamsDone,
           GcConnKeep, GcDone, FinishPacket, Visiting
      <4> QED BY <4>1
    <3> QED BY <3>2, <3>3, <3>4
  <2>4. pc' = "conns" => it' >= 1
    BY <1>1, <1>6 DEF CaptureOther, CaptureDiscard, CaptureSearch, SearchDone,
       Skip, ContinueReject, NextConn, DeletePacket, SkipGc, StartGc,
       GcStreamsDone, GcConnKeep, GcDone, FinishPacket, vars, Control, TypeOK,
       Visiting, Matches
  <2> QED BY <2>1, <2>2, <2>3, <2>4 DEF Control
<1> QED BY <1>3, <1>7, <1>8 DEF IInv

(* multimap::insert finds a place in or after the pool.                    *)
LEMMA InsertPosType ==
  ASSUME TypeOK, NEW h
  PROVE  InsertPos(h) \in 1..Len(connPool) + 1
<1> DEFINE below == {i \in 1..Len(connPool) :
                       PortMapKey(conn[connPool[i]].ends) <= PortMapKey(h)}
<1>1. Len(connPool) \in Nat
  BY PoolFacts
<1>2. /\ IsFiniteSet(1..Len(connPool))
      /\ Cardinality(1..Len(connPool)) = Len(connPool)
  <2>1. 1 \in Int /\ Len(connPool) \in Int
    BY <1>1
  <2>2. /\ IsFiniteSet(1..Len(connPool))
        /\ Cardinality(1..Len(connPool)) =
             IF 1 > Len(connPool) THEN 0 ELSE Len(connPool) - 1 + 1
    BY <2>1, FS_Interval, Zenon
  <2> QED BY <1>1, <2>2
<1>3. below \subseteq 1..Len(connPool)
  OBVIOUS
<1> HIDE DEF below
<1>4. Cardinality(below) \in Nat /\ Cardinality(below) <= Len(connPool)
  BY <1>2, <1>3, FS_Subset, FS_CardinalityType
<1>5. InsertPos(h) = 1 + Cardinality(below)
  BY DEF InsertPos, below
<1> QED BY <1>1, <1>4, <1>5

(* A SYN adds a connection without streams.                                *)
LEMMA CaptureSynStep ==
  ASSUME IInv, NEW h \in Headers, NEW t \in Times, NEW c \in ConnIds,
         CaptureSyn(h, t, c)
  PROVE  IInv'
<1>1. TypeOK /\ NoDangling /\ EndListSound /\ EndListInOrder
      /\ PrevDescribesLast /\ Control
  BY DEF IInv
<1>2. /\ connPool' \in Seq(ConnIds)
      /\ IsInjective(connPool')
      /\ LiveConns' = LiveConns \cup {c}
  <2>1. connPool \in Seq(ConnIds) /\ IsInjective(connPool)
    BY <1>1 DEF TypeOK, NoDangling
  <2>2. InsertPos(h) \in 1..Len(connPool) + 1
    BY <1>1, InsertPosType
  <2>3. connPool' = InsertAt(connPool, InsertPos(h), c) /\ c \notin ToSet(connPool)
    BY DEF CaptureSyn, LiveConns
  <2> QED BY <2>1, <2>2, <2>3, InsertAtElements, InsertAtFacts DEF LiveConns
<1>3. /\ conn' \in [ConnIds -> TcpConn]
      /\ conn'[c].streams = << >> /\ ~conn'[c].ended /\ conn'[c].prev = "NEW"
      /\ \A d \in ConnIds \ {c} : conn'[d] = conn[d]
  <2>1. h \in Header /\ t \in Int
    BY HeadersAssumption, TimesAssumption
  <2>2. NewConn(h, t) \in TcpConn
    <3>1. Ends(h) \in [src : Endpoint, dst : Endpoint]
      BY <2>1 DEF Ends, Header
    <3>2. << >> \in Seq(StreamIds)
      BY EmptySeq
    <3> QED BY <2>1, <3>1, <3>2 DEF NewConn, TcpConn, Direction
  <2>3. conn' = [conn EXCEPT ![c] = NewConn(h, t)]
    BY DEF CaptureSyn
  <2>4. conn'[c] = NewConn(h, t)
    BY <1>1, <2>3 DEF TypeOK
  <2> QED BY <1>1, <2>2, <2>3, <2>4 DEF TypeOK, NewConn
<1>4. /\ streamPool' = streamPool /\ stream' = stream /\ endList' = endList
      /\ lastGc' = lastGc /\ it' = it /\ pc' = "clean"
      /\ pkt' = NewPacket(h, t)
      /\ c \notin LiveConns
  BY DEF CaptureSyn, Capture
<1>5. LiveConns \subseteq ConnIds \ {c}
  BY <1>1, <1>4, PoolFacts
<1>6. \A d \in LiveConns : conn'[d] = conn[d]
  BY <1>3, <1>5
<1>7. TypeOK'
  BY <1>1, <1>2, <1>3, <1>4, NewPacketType, TimesAssumption DEF TypeOK
<1>8. NoDangling'
  BY <1>1, <1>2, <1>3, <1>4, <1>6 DEF NoDangling, StreamsOf, ToSet, IsInjective
<1>9. EndListSound'
  BY <1>1, <1>4 DEF EndListSound
<1>10. EndListInOrder'
  <2>1. 1..Len(conn'[c].streams) = {}
    BY <1>3, EmptySeq
  <2>2. ASSUME NEW d \in LiveConns'
        PROVE  InOrder(d)'
    <3>1. CASE d = c
      BY <2>1, <3>1 DEF InOrder
    <3>2. CASE d # c
      <4>1. d \in LiveConns /\ conn'[d] = conn[d]
        BY <1>2, <1>6, <3>2
      <4>2. InOrder(d)
        BY <1>1, <4>1 DEF EndListInOrder
      <4> QED BY <1>4, <4>1, <4>2 DEF InOrder
    <3> QED BY <3>1, <3>2
  <2> QED BY <2>2 DEF EndListInOrder
<1>11. PrevDescribesLast'
  BY <1>1, <1>2, <1>3, <1>4, <1>6 DEF PrevDescribesLast, PrevDescribes, LastStream
<1>12. Control'
  BY <1>4 DEF Control
<1> QED BY <1>7, <1>8, <1>9, <1>10, <1>11, <1>12 DEF IInv

(* What TcpConn::AddStream does to the connection.                         *)
LEMMA AttachFacts ==
  ASSUME TypeOK, NEW c \in ConnIds, NEW s \in StreamIds,
         NEW dir \in {"C2S", "S2C"}, AttachStream(c, s, dir)
  PROVE  /\ conn' \in [ConnIds -> TcpConn]
         /\ conn'[c].streams = Append(conn[c].streams, s)
         /\ conn'[c].prev = dir
         /\ conn'[c].ended = conn[c].ended
         /\ \A d \in ConnIds \ {c} : conn'[d] = conn[d]
<1>1. conn \in [ConnIds -> TcpConn] /\ pkt.ts \in Int
  BY DEF TypeOK, Packet
<1>2. Append(conn[c].streams, s) \in Seq(StreamIds)
  BY <1>1, AppendProperties DEF TcpConn
<1>3. conn' = [conn EXCEPT ![c] = [[[conn[c] EXCEPT
                 !.streams = Append(conn[c].streams, s)] EXCEPT
                 !.updated = pkt.ts] EXCEPT !.prev = dir]]
  BY DEF AttachStream
<1>4. dir \in Direction
  BY DEF Direction
<1> QED BY <1>1, <1>2, <1>3, <1>4 DEF TcpConn

(* The first stream of a connection.                                       *)
LEMMA OpenStep ==
  ASSUME IInv, NEW c \in ConnIds, NEW s \in StreamIds,
         NEW dir \in {"C2S", "S2C"}, Open(c, s, dir)
  PROVE  IInv'
<1>1. TypeOK /\ NoDangling /\ EndListSound /\ EndListInOrder
      /\ PrevDescribesLast /\ Control
  BY DEF IInv
<1>2. /\ c \in LiveConns /\ it \in 1..Len(connPool) /\ c = connPool[it]
      /\ LiveConns \subseteq ConnIds
  BY <1>1, PoolFacts DEF Open, Matches
<1>3. conn[c].streams = << >> /\ ~conn[c].ended
  BY <1>1, <1>2 DEF PrevDescribesLast, PrevDescribes, Open
<1>4. /\ conn' \in [ConnIds -> TcpConn]
      /\ conn'[c].streams = Append(conn[c].streams, s)
      /\ conn'[c].prev = dir
      /\ conn'[c].ended = conn[c].ended
      /\ \A d \in ConnIds \ {c} : conn'[d] = conn[d]
  BY <1>1, AttachFacts DEF Open
<1>5. /\ Len(conn'[c].streams) = 1
      /\ conn'[c].streams # << >>
      /\ Last(conn'[c].streams) = s
      /\ ToSet(conn'[c].streams) = {s}
      /\ IsInjective(conn'[c].streams)
  <2>1. << >> \in Seq(StreamIds) /\ ToSet(<< >>) = {} /\ Len(<< >>) = 0
        /\ IsInjective(<< >>)
    BY EmptySeq DEF ToSet, IsInjective
  <2> DEFINE e == << >>
  <2>2. e \in Seq(StreamIds)
    BY EmptySeq
  <2>3. conn'[c].streams = Append(e, s)
    BY <1>3, <1>4
  <2>4. Len(e) = 0 /\ ToSet(e) = {} /\ IsInjective(e)
    BY <2>1
  <2> HIDE DEF e
  <2>5. /\ Append(e, s) # << >>
        /\ Len(Append(e, s)) = Len(e) + 1
        /\ Last(Append(e, s)) = s
        /\ ToSet(Append(e, s)) = ToSet(e) \cup {s}
        /\ IsInjective(e) /\ s \notin ToSet(e) => IsInjective(Append(e, s))
    BY <2>2, AppendFacts
  <2> QED BY <2>3, <2>4, <2>5
<1>6. /\ connPool' = connPool /\ LiveConns' = LiveConns
      /\ streamPool' = streamPool \cup {s} /\ s \notin streamPool
      /\ endList' = endList /\ lastGc' = lastGc /\ it' = it /\ pc' = "flags"
      /\ pc = "search"
  BY DEF Open, LiveConns, Matches, Visiting
<1>7. /\ stream' \in [StreamIds -> Stream]
      /\ stream'[s].conn = c /\ stream'[s].state = "BEGIN" /\ stream'[s].dir = dir
      /\ \A t \in StreamIds \ {s} : stream'[t] = stream[t]
  <2>1. stream' = [stream EXCEPT ![s] = NewStreamFor(c, dir)]
    BY DEF Open
  <2>2. NewStreamFor(c, dir) \in Stream
    BY <1>1 DEF NewStreamFor, Stream, StreamState, Direction, TypeOK, Packet
  <2> QED BY <1>1, <2>1, <2>2 DEF TypeOK, NewStreamFor
<1>8. pkt' \in Packet
  BY <1>1 DEF Open, AcceptedBy, TypeOK, Packet
<1>9. streamPool \subseteq StreamIds
  BY <1>1 DEF TypeOK
<1>10. TypeOK'
  BY <1>1, <1>4, <1>6, <1>7, <1>8, <1>9 DEF TypeOK
<1>11. NoDangling'
  <2>1. IsInjective(connPool')
    BY <1>1, <1>6 DEF NoDangling
  <2>2. ASSUME NEW t \in streamPool'
        PROVE  stream'[t].conn \in LiveConns' /\ t \in StreamsOf(stream[t].conn)'
    <3>1. CASE t = s
      BY <3>1, <1>2, <1>5, <1>6, <1>7 DEF StreamsOf
    <3>2. CASE t # s
      <4>1. t \in streamPool /\ stream'[t] = stream[t]
        BY <3>2, <1>6, <1>7, <1>9
      <4>2. stream[t].conn \in LiveConns /\ t \in StreamsOf(stream[t].conn)
        BY <4>1, <1>1 DEF NoDangling
      <4>3. stream[t].conn # c
        BY <4>2, <1>3 DEF StreamsOf, ToSet
      <4> QED BY <4>1, <4>2, <4>3, <1>2, <1>4, <1>6 DEF StreamsOf
    <3> QED BY <3>1, <3>2
  <2>3. ASSUME NEW d \in LiveConns'
        PROVE  /\ \A t \in StreamsOf(d)' : t \in streamPool' /\ stream'[t].conn = d
               /\ IsInjective(conn'[d].streams)
    <3>1. CASE d = c
      BY <3>1, <1>5, <1>6, <1>7 DEF StreamsOf
    <3>2. CASE d # c
      <4>1. conn'[d] = conn[d] /\ d \in LiveConns
        BY <3>2, <1>2, <1>4, <1>6
      <4>2. \A t \in StreamsOf(d) : t \in streamPool /\ stream[t].conn = d
        BY <4>1, <1>1 DEF NoDangling
      <4>3. \A t \in StreamsOf(d) : stream'[t] = stream[t]
        BY <4>2, <1>6, <1>7, <1>9
      <4>4. IsInjective(conn[d].streams)
        BY <4>1, <1>1 DEF NoDangling
      <4> QED BY <4>1, <4>2, <4>3, <4>4, <1>6 DEF StreamsOf
    <3> QED BY <3>1, <3>2
  <2> QED BY <2>1, <2>2, <2>3 DEF NoDangling
<1>12. EndListSound'
  <2>1. {t \in streamPool' : stream'[t].state = "END"} =
        {t \in streamPool : stream[t].state = "END"}
    BY <1>6, <1>7, <1>9
  <2> QED BY <2>1, <1>1, <1>6 DEF EndListSound
<1>13. EndListInOrder'
  <2> SUFFICES ASSUME NEW d \in LiveConns' PROVE InOrder(d)'
    BY DEF EndListInOrder
  <2>1. CASE d = c
    <3>1. s \notin ToSet(endList)
      BY <1>1, <1>6 DEF EndListSound
    <3> QED BY <2>1, <3>1, <1>5, <1>6 DEF InOrder
  <2>2. CASE d # c
    <3>1. conn'[d] = conn[d] /\ d \in LiveConns /\ InOrder(d)
      BY <2>2, <1>1, <1>2, <1>4, <1>6 DEF EndListInOrder
    <3>2. \A i \in 1..Len(conn[d].streams) :
            stream'[conn[d].streams[i]] = stream[conn[d].streams[i]]
      <4>1. \A i \in 1..Len(conn[d].streams) :
              conn[d].streams[i] \in StreamsOf(d)
        BY <1>1, <1>2, <3>1, ListFacts
      <4>2. \A t \in StreamsOf(d) : t \in streamPool
        BY <3>1, <1>1 DEF NoDangling
      <4> QED BY <4>1, <4>2, <1>6, <1>7, <1>9
    <3> QED BY <3>1, <3>2, <1>6 DEF InOrder
  <2> QED BY <2>1, <2>2
<1>14. PrevDescribesLast'
  <2> SUFFICES ASSUME NEW d \in LiveConns' PROVE PrevDescribes(d)'
    BY DEF PrevDescribesLast, PrevDescribes
  <2>1. CASE d = c
    BY <2>1, <1>3, <1>4, <1>5, <1>7 DEF PrevDescribes, LastStream
  <2>2. CASE d # c
    <3>1. conn'[d] = conn[d] /\ d \in LiveConns /\ PrevDescribes(d)
      BY <2>2, <1>1, <1>2, <1>4, <1>6 DEF PrevDescribesLast, PrevDescribes
    <3>2. conn[d].prev # "NEW" => stream'[LastStream(d)] = stream[LastStream(d)]
      BY <3>1, <1>6, <1>7, LastFacts
    <3> QED BY <3>1, <3>2 DEF PrevDescribes, LastStream
  <2> QED BY <2>1, <2>2
<1>15. Control'
  BY <1>1, <1>2, <1>3, <1>4, <1>6 DEF Control
<1> QED BY <1>10, <1>11, <1>12, <1>13, <1>14, <1>15 DEF IInv

(* A step that touches the streams of one connection, and lists at most    *)
(* one of them in end_stream_list, disturbs no other connection.           *)
LEMMA OtherConns ==
  ASSUME IInv, NEW c \in LiveConns, NEW d \in LiveConns, d # c,
         conn'[d] = conn[d],
         \A t \in streamPool : stream[t].conn # c => stream'[t] = stream[t],
         \/ endList' = endList
         \/ \E x \in StreamsOf(c) : endList' = Append(endList, x)
  PROVE  InOrder(d)' /\ PrevDescribes(d)'
<1>1. TypeOK /\ NoDangling /\ EndListInOrder /\ PrevDescribesLast
  BY DEF IInv
<1>2. c \in ConnIds /\ d \in ConnIds
  BY <1>1, PoolFacts
<1>3. \A i \in 1..Len(conn[d].streams) : conn[d].streams[i] \in StreamsOf(d)
  BY <1>1, <1>2, ListFacts
<1>4. \A t \in StreamsOf(d) : stream'[t] = stream[t]
  BY <1>1 DEF NoDangling
<1>5. /\ Len(endList) \in Nat
      /\ Len(endList') \in Nat
      /\ \A k \in 1..Len(endList) : k \in 1..Len(endList') /\ endList'[k] = endList[k]
      /\ \A k \in 1..Len(endList') :
           k \in 1..Len(endList) \/ endList'[k] \notin StreamsOf(d)
  <2>1. Len(endList) \in Nat
    BY <1>1, ListFacts
  <2>2. CASE endList' = endList
    BY <2>1, <2>2
  <2>3. CASE \E x \in StreamsOf(c) : endList' = Append(endList, x)
    <3>1. PICK x \in StreamsOf(c) : endList' = Append(endList, x)
      BY <2>3
    <3>2. endList \in Seq(StreamIds) /\ x \in StreamIds
      BY <1>1, <1>2, <3>1, ListFacts DEF TypeOK
    <3>3. x \notin StreamsOf(d)
      BY <1>1, <3>1, OneOwner
    <3>4. /\ Len(Append(endList, x)) = Len(endList) + 1
          /\ \A i \in 1..Len(endList) : Append(endList, x)[i] = endList[i]
          /\ Append(endList, x)[Len(endList) + 1] = x
      BY <3>2, AppendFacts
    <3> QED BY <2>1, <3>1, <3>3, <3>4
  <2> QED BY <2>2, <2>3
<1>6. InOrder(d)'
  <2> SUFFICES ASSUME NEW i \in 1..Len(conn'[d].streams)
               PROVE  /\ i < Len(conn'[d].streams) =>
                           stream'[conn'[d].streams[i]].state = "END"
                      /\ \A k \in 1..Len(endList'), j \in 1..i - 1 :
                           endList'[k] = conn'[d].streams[i] =>
                             \E l \in 1..k - 1 : endList'[l] = conn'[d].streams[j]
    BY DEF InOrder
  <2>1. InOrder(d)
    BY <1>1 DEF EndListInOrder
  <2>2. conn[d].streams[i] \in StreamsOf(d)
    BY <1>3
  <2>3. ASSUME NEW k \in 1..Len(endList'), NEW j \in 1..i - 1,
               endList'[k] = conn[d].streams[i]
        PROVE  \E l \in 1..k - 1 : endList'[l] = conn[d].streams[j]
    <3>1. k \in 1..Len(endList) /\ endList[k] = conn[d].streams[i]
      BY <1>5, <2>2, <2>3
    <3>2. PICK l \in 1..k - 1 : endList[l] = conn[d].streams[j]
      BY <2>1, <3>1 DEF InOrder
    <3>3. l \in 1..Len(endList)
      BY <3>1, <3>2, <1>5
    <3> QED BY <3>2, <3>3, <1>5
  <2> QED BY <2>1, <2>2, <2>3, <1>4 DEF InOrder
<1>7. PrevDescribes(d)'
  <2>1. PrevDescribes(d)
    BY <1>1 DEF PrevDescribesLast
  <2>2. conn[d].prev # "NEW" => stream'[LastStream(d)] = stream[LastStream(d)]
    BY <1>4, LastFacts
  <2> QED BY <2>1, <2>2 DEF PrevDescribes, LastStream
<1> QED BY <1>6, <1>7

(* Another packet for the last stream.                                     *)
LEMMA ContinueAcceptStep ==
  ASSUME IInv, NEW c \in ConnIds, NEW dir \in {"C2S", "S2C"},
         ContinueAccept(c, dir)
  PROVE  IInv'
<1> DEFINE last == LastStream(c)
<1>1. TypeOK /\ NoDangling /\ EndListSound /\ EndListInOrder
      /\ PrevDescribesLast /\ Control
  BY DEF IInv
<1>2. /\ c \in LiveConns /\ it \in 1..Len(connPool) /\ c = connPool[it]
      /\ LiveConns \subseteq ConnIds
  BY <1>1, PoolFacts DEF ContinueAccept, Matches
<1>3. conn[c].prev = dir /\ conn[c].prev # "NEW" /\ pc = "search"
  BY DEF ContinueAccept, Matches, Visiting
<1>4. ~conn[c].ended
  BY <1>1, <1>2, <1>3 DEF Control
<1>5. /\ last \in streamPool /\ last \in StreamIds /\ last \in StreamsOf(c)
      /\ stream[last].conn = c /\ last \notin ToSet(endList)
      /\ Len(conn[c].streams) \in Nat \ {0}
      /\ last = conn[c].streams[Len(conn[c].streams)]
  BY <1>2, <1>3, <1>4, LastFacts
<1> HIDE DEF last
<1>6. /\ connPool' = connPool /\ LiveConns' = LiveConns
      /\ conn' = conn /\ streamPool' = streamPool
      /\ endList' = endList /\ lastGc' = lastGc /\ it' = it /\ pc' = "flags"
      /\ pkt' = AcceptedBy(last)
      /\ stream' = [stream EXCEPT ![last] =
                      [[stream[last] EXCEPT !.state = "CONTINUE"] EXCEPT
                        !.updated = pkt.ts]]
  BY DEF ContinueAccept, LiveConns, last
<1>7. /\ stream' \in [StreamIds -> Stream]
      /\ stream'[last].conn = c /\ stream'[last].state = "CONTINUE"
      /\ stream'[last].dir = stream[last].dir
      /\ \A t \in StreamIds \ {last} : stream'[t] = stream[t]
  <2> DEFINE new == [[stream[last] EXCEPT !.state = "CONTINUE"] EXCEPT
                       !.updated = pkt.ts]
  <2>1. stream \in [StreamIds -> Stream] /\ pkt \in Packet
    BY <1>1 DEF TypeOK
  <2>2. stream[last] \in Stream /\ pkt.ts \in Int
    BY <2>1, <1>5 DEF Packet
  <2>3. /\ new \in Stream
        /\ new.conn = c /\ new.state = "CONTINUE" /\ new.dir = stream[last].dir
    BY <2>2, <1>5 DEF Stream, StreamState
  <2>4. stream' = [stream EXCEPT ![last] = new]
    BY <1>6
  <2> HIDE DEF new
  <2> QED BY <2>1, <2>3, <2>4, <1>5
<1>8. stream[last].state # "END"
  BY <1>1, <1>2, <1>3, <1>4 DEF PrevDescribesLast, PrevDescribes, last
<1>9. pkt' \in Packet
  BY <1>1, <1>5, <1>6 DEF AcceptedBy, TypeOK, Packet
<1>10. TypeOK'
  BY <1>1, <1>6, <1>7, <1>9 DEF TypeOK
<1>11. \A t \in StreamIds : stream'[t].conn = stream[t].conn
  BY <1>5, <1>7
<1>12. streamPool \subseteq StreamIds
  BY <1>1 DEF TypeOK
<1>13. NoDangling'
  BY <1>1, <1>6, <1>11, <1>12 DEF NoDangling, StreamsOf
<1>14. EndListSound'
  <2>1. {t \in streamPool' : stream'[t].state = "END"} =
        {t \in streamPool : stream[t].state = "END"}
    BY <1>6, <1>7, <1>8, <1>12
  <2> QED BY <2>1, <1>1, <1>6 DEF EndListSound
<1>15. ASSUME NEW d \in LiveConns PROVE InOrder(d)' /\ PrevDescribes(d)'
  <2>1. CASE d # c
    <3>1. \A t \in streamPool : stream[t].conn # c => stream'[t] = stream[t]
      BY <1>5, <1>7, <1>12
    <3> QED BY <2>1, <3>1, <1>2, <1>6, OtherConns
  <2>2. CASE d = c
    <3>1. IsInjective(conn[c].streams)
      BY <1>1, <1>2 DEF NoDangling
    <3>2. \A i \in 1..Len(conn[c].streams) :
            /\ conn[c].streams[i] \in StreamIds
            /\ i < Len(conn[c].streams) => conn[c].streams[i] # last
      BY <1>1, <1>2, <1>5, <3>1, ListFacts DEF IsInjective
    <3>3. InOrder(c) /\ PrevDescribes(c)
      BY <1>1, <1>2 DEF EndListInOrder, PrevDescribesLast
    <3>4. InOrder(c)'
      <4>1. \A i \in 1..Len(conn[c].streams) : i < Len(conn[c].streams) =>
              stream'[conn[c].streams[i]] = stream[conn[c].streams[i]]
        BY <3>2, <1>7
      <4>2. ASSUME NEW i \in 1..Len(conn[c].streams)
            PROVE  /\ i < Len(conn[c].streams) =>
                        stream'[conn[c].streams[i]].state = "END"
                   /\ \A k \in 1..Len(endList), j \in 1..i - 1 :
                        endList[k] = conn[c].streams[i] =>
                          \E l \in 1..k - 1 : endList[l] = conn[c].streams[j]
        <5>1. i < Len(conn[c].streams) =>
                stream[conn[c].streams[i]].state = "END"
          BY <3>3 DEF InOrder
        <5>2. \A k \in 1..Len(endList), j \in 1..i - 1 :
                endList[k] = conn[c].streams[i] =>
                  \E l \in 1..k - 1 : endList[l] = conn[c].streams[j]
          BY <3>3, Zenon DEF InOrder
        <5> QED BY <4>1, <5>1, <5>2
      <4> QED BY <1>6, <4>2 DEF InOrder
    <3>5. PrevDescribes(c)'
      BY <3>3, <1>3, <1>4, <1>6, <1>7 DEF PrevDescribes, LastStream, last
    <3> QED BY <2>2, <3>4, <3>5
  <2> QED BY <2>1, <2>2
<1>16. Control'
  BY <1>1, <1>2, <1>3, <1>6 DEF Control
<1> QED BY <1>6, <1>10, <1>13, <1>14, <1>15, <1>16
        DEF IInv, EndListInOrder, PrevDescribesLast

(* Listing the last stream of a connection keeps end_stream_list free of   *)
(* repetitions and in the order of the conversation.                       *)
LEMMA ListingLast ==
  ASSUME IInv, NEW c \in LiveConns, conn[c].prev # "NEW", ~conn[c].ended,
         endList' = EndListWith(LastStream(c))
  PROVE  /\ endList' \in Seq(StreamIds)
         /\ IsInjective(endList')
         /\ ToSet(endList') = ToSet(endList) \cup {LastStream(c)}
         /\ \A i \in 1..Len(conn[c].streams) :
              \A k \in 1..Len(endList'), j \in 1..i - 1 :
                endList'[k] = conn[c].streams[i] =>
                  \E l \in 1..k - 1 : endList'[l] = conn[c].streams[j]
<1> DEFINE last == LastStream(c)
           q == conn[c].streams
<1>1. TypeOK /\ NoDangling /\ EndListSound /\ InOrder(c)
  BY DEF IInv, EndListInOrder
<1>2. /\ last \in StreamIds /\ last \notin ToSet(endList)
      /\ Len(q) \in Nat \ {0}
  BY LastFacts
<1>3. /\ endList \in Seq(StreamIds) /\ IsInjective(endList)
      /\ Len(endList) \in Nat /\ DOMAIN endList = 1..Len(endList)
  BY <1>1, ListFacts DEF TypeOK, EndListSound
<1>4. /\ endList' \in Seq(StreamIds)
      /\ IsInjective(endList')
      /\ ToSet(endList') = ToSet(endList) \cup {last}
      /\ Len(endList') = Len(endList) + 1
      /\ \A i \in 1..Len(endList) : endList'[i] = endList[i]
      /\ endList'[Len(endList) + 1] = last
  BY <1>2, <1>3, AppendFacts DEF EndListWith
<1>5. ASSUME NEW i \in 1..Len(q), NEW k \in 1..Len(endList'),
             NEW j \in 1..i - 1, endList'[k] = q[i]
      PROVE  \E l \in 1..k - 1 : endList'[l] = q[j]
  <2>1. CASE k \in 1..Len(endList)
    <3>1. endList[k] = q[i]
      BY <1>4, <1>5, <2>1
    <3>2. PICK l \in 1..k - 1 : endList[l] = q[j]
      BY <1>1, <2>1, <3>1 DEF InOrder
    <3> QED BY <1>3, <1>4, <2>1, <3>2
  <2>2. CASE k = Len(endList) + 1
    <3>1. j \in 1..Len(q) /\ j < Len(q)
      BY <1>2, <1>5
    <3>2. stream[q[j]].state = "END"
      BY <1>1, <3>1 DEF InOrder
    <3>3. q[j] \in StreamsOf(c)
      BY <1>1, <3>1, PoolFacts, ListFacts
    <3>4. q[j] \in ToSet(endList)
      BY <1>1, <3>2, <3>3 DEF NoDangling, EndListSound
    <3>5. PICK l \in 1..Len(endList) : endList[l] = q[j]
      BY <1>3, <3>4 DEF ToSet
    <3> QED BY <1>3, <1>4, <2>2, <3>5
  <2> QED BY <1>3, <1>4, <2>1, <2>2
<1> QED BY <1>4, <1>5

(* FIN and RST.                                                            *)
LEMMA CloseStep ==
  ASSUME IInv, Close
  PROVE  IInv'
<1>1. TypeOK /\ NoDangling /\ EndListSound /\ EndListInOrder
      /\ PrevDescribesLast /\ Control
  BY DEF IInv
<1>0. PICK c \in LiveConns : c = connPool[it]
  BY <1>1, PoolFacts DEF Close, Control
<1>2. /\ c \in ConnIds
      /\ conn[c].prev # "NEW" /\ ~conn[c].ended
      /\ LiveConns \subseteq ConnIds
  BY <1>0, <1>1, PoolFacts DEF Close, Control
<1> DEFINE last == LastStream(c)
<1>3. /\ last \in streamPool /\ last \in StreamIds /\ last \in StreamsOf(c)
      /\ stream[last].conn = c /\ last \notin ToSet(endList)
      /\ Len(conn[c].streams) \in Nat \ {0}
      /\ last = conn[c].streams[Len(conn[c].streams)]
  BY <1>2, LastFacts
<1>4. stream[last].state # "END"
  BY <1>1, <1>2 DEF PrevDescribesLast, PrevDescribes
<1>5. /\ connPool' = connPool /\ LiveConns' = LiveConns
      /\ streamPool' = streamPool /\ pkt' = pkt
      /\ lastGc' = lastGc /\ it' = 0 /\ pc' = "clean"
      /\ endList' = EndListWith(last)
      /\ stream' = [stream EXCEPT ![last].state = "END"]
      /\ conn' = [conn EXCEPT ![c].ended = TRUE]
  BY <1>0, <1>4 DEF Close, LiveConns
<1>6. /\ endList' \in Seq(StreamIds) /\ IsInjective(endList')
      /\ ToSet(endList') = ToSet(endList) \cup {last}
      /\ \A i \in 1..Len(conn[c].streams) :
           \A k \in 1..Len(endList'), j \in 1..i - 1 :
             endList'[k] = conn[c].streams[i] =>
               \E l \in 1..k - 1 : endList'[l] = conn[c].streams[j]
  BY <1>2, <1>5, ListingLast
<1>7. endList' = Append(endList, last)
  BY <1>5 DEF EndListWith
<1> HIDE DEF last
<1>8. /\ stream' \in [StreamIds -> Stream]
      /\ stream'[last].state = "END" /\ stream'[last].dir = stream[last].dir
      /\ \A t \in StreamIds : stream'[t].conn = stream[t].conn
      /\ \A t \in StreamIds \ {last} : stream'[t] = stream[t]
  BY <1>1, <1>3, <1>5 DEF TypeOK, Stream, StreamState
<1>9. /\ conn' \in [ConnIds -> TcpConn]
      /\ conn'[c].ended /\ conn'[c].prev = conn[c].prev
      /\ \A d \in ConnIds : conn'[d].streams = conn[d].streams
      /\ \A d \in ConnIds \ {c} : conn'[d] = conn[d]
  BY <1>1, <1>2, <1>5 DEF TypeOK, TcpConn
<1>10. TypeOK'
  BY <1>1, <1>5, <1>6, <1>8, <1>9 DEF TypeOK
<1>11. streamPool \subseteq StreamIds
  BY <1>1 DEF TypeOK
<1>12. NoDangling'
  BY <1>1, <1>2, <1>5, <1>8, <1>9, <1>11 DEF NoDangling, StreamsOf
<1>13. EndListSound'
  <2>1. {t \in streamPool' : stream'[t].state = "END"} =
        {t \in streamPool : stream[t].state = "END"} \cup {last}
    BY <1>3, <1>5, <1>8, <1>11
  <2> QED BY <2>1, <1>1, <1>6 DEF EndListSound
<1>14. ASSUME NEW d \in LiveConns PROVE InOrder(d)' /\ PrevDescribes(d)'
  <2>1. CASE d # c
    <3>1. \A t \in streamPool : stream[t].conn # c => stream'[t] = stream[t]
      BY <1>3, <1>8, <1>11
    <3> QED BY <2>1, <3>1, <1>2, <1>3, <1>7, <1>9, OtherConns
  <2>2. CASE d = c
    <3>1. IsInjective(conn[c].streams)
      BY <1>1, <1>2 DEF NoDangling
    <3>2. \A i \in 1..Len(conn[c].streams) :
            /\ conn[c].streams[i] \in StreamIds
            /\ i < Len(conn[c].streams) => conn[c].streams[i] # last
      BY <1>1, <1>2, <1>3, <3>1, ListFacts DEF IsInjective
    <3>3. InOrder(c) /\ PrevDescribes(c)
      BY <1>1, <1>2 DEF EndListInOrder, PrevDescribesLast
    <3>4. \A i \in 1..Len(conn[c].streams) : i < Len(conn[c].streams) =>
            stream'[conn[c].streams[i]].state = "END"
      BY <3>2, <3>3, <1>8 DEF InOrder
    <3>5. conn'[c].streams = conn[c].streams
      BY <1>2, <1>9
    <3>6. InOrder(c)'
      <4> DEFINE Ordered(q) ==
            \A i \in 1..Len(q) :
              /\ i < Len(q) => stream'[q[i]].state = "END"
              /\ \A k \in 1..Len(endList'), j \in 1..i - 1 :
                   endList'[k] = q[i] => \E l \in 1..k - 1 : endList'[l] = q[j]
      <4>1. Ordered(conn[c].streams)
        BY <3>4, <1>6, Zenon
      <4>2. Ordered(conn'[c].streams) => InOrder(c)'
        BY Zenon DEF InOrder
      <4> HIDE DEF Ordered
      <4>3. Ordered(conn'[c].streams)
        BY <4>1, <3>5
      <4> QED BY <4>2, <4>3
    <3>7. PrevDescribes(c)'
      <4>1. LastStream(c)' = last
        BY <3>5 DEF LastStream, last
      <4>2. conn[c].streams # << >>
        BY <3>3, <1>2 DEF PrevDescribes
      <4>3. stream[last].dir = conn[c].prev
        BY <3>3, <1>2 DEF PrevDescribes, last
      <4> QED BY <4>1, <4>2, <4>3, <3>5, <1>2, <1>8, <1>9 DEF PrevDescribes
    <3> QED BY <2>2, <3>6, <3>7
  <2> QED BY <2>1, <2>2
<1>15. Control'
  BY <1>5 DEF Control
<1> QED BY <1>5, <1>10, <1>12, <1>13, <1>14, <1>15
        DEF IInv, EndListInOrder, PrevDescribesLast

(* The direction changes: the last stream ends and a new one follows it.   *)
LEMMA TurnPools ==
  ASSUME IInv, NEW c \in ConnIds, NEW s \in StreamIds,
         NEW dir \in {"C2S", "S2C"}, Turn(c, s, dir),
         it' \in Nat, pc' \in {"clean", "flags"}, pc' = "flags" => it' = it
  PROVE  IInv'
<1> DEFINE last == LastStream(c)
           q == conn[c].streams
<1>1. TypeOK /\ NoDangling /\ EndListSound /\ EndListInOrder
      /\ PrevDescribesLast /\ Control
  BY DEF IInv
<1>2. /\ c \in LiveConns /\ it \in 1..Len(connPool) /\ c = connPool[it]
      /\ LiveConns \subseteq ConnIds /\ streamPool \subseteq StreamIds
  BY <1>1, PoolFacts DEF Turn, Matches, TypeOK
<1>3. conn[c].prev # "NEW" /\ ~conn[c].ended /\ pc = "search"
  BY <1>1, <1>2 DEF Turn, Matches, Visiting, Control
<1>4. /\ last \in streamPool /\ last \in StreamIds /\ last \in StreamsOf(c)
      /\ stream[last].conn = c
      /\ Len(q) \in Nat \ {0} /\ last = q[Len(q)]
  BY <1>2, <1>3, LastFacts
<1>5. /\ connPool' = connPool /\ LiveConns' = LiveConns
      /\ streamPool' = streamPool \cup {s} /\ s \notin streamPool
      /\ lastGc' = lastGc
      /\ endList' = EndListWith(last)
      /\ endList' = Append(endList, last)
      /\ pkt' = AcceptedBy(s)
      /\ stream' = [stream EXCEPT ![last].state = "END",
                                  ![s] = NewStreamFor(c, dir)]
  BY DEF Turn, LiveConns, EndListWith
<1>6. /\ endList' \in Seq(StreamIds) /\ IsInjective(endList')
      /\ ToSet(endList') = ToSet(endList) \cup {last}
      /\ \A i \in 1..Len(q) :
           \A k \in 1..Len(endList'), j \in 1..i - 1 :
             endList'[k] = q[i] => \E l \in 1..k - 1 : endList'[l] = q[j]
  BY <1>2, <1>3, <1>5, ListingLast
<1>7. /\ conn' \in [ConnIds -> TcpConn]
      /\ conn'[c].streams = Append(q, s)
      /\ conn'[c].prev = dir
      /\ conn'[c].ended = conn[c].ended
      /\ \A d \in ConnIds \ {c} : conn'[d] = conn[d]
  BY <1>1, AttachFacts DEF Turn
<1>8. q \in Seq(StreamIds) /\ IsInjective(q) /\ ToSet(q) = StreamsOf(c)
  <2>1. q \in Seq(StreamIds) /\ ToSet(q) = StreamsOf(c)
    BY <1>1, <1>2, ListFacts DEF StreamsOf
  <2>2. IsInjective(q)
    BY <1>1, <1>2 DEF NoDangling
  <2> QED BY <2>1, <2>2
<1>9. s \notin StreamsOf(c) /\ s # last /\ s \notin ToSet(endList')
  <2> HIDE DEF last
  <2>1. s \notin StreamsOf(c) /\ s # last
    <3>1. StreamsOf(c) \subseteq streamPool
      BY <1>1, <1>2 DEF NoDangling
    <3> QED BY <3>1, <1>4, <1>5
  <2>2. s \notin ToSet(endList)
    BY <1>1, <1>5 DEF EndListSound
  <2> QED BY <2>1, <2>2, <1>6
<1> DEFINE r == Append(q, s)
<1>10. /\ r # << >> /\ Len(r) = Len(q) + 1 /\ r[Len(q) + 1] = s
       /\ \A i \in 1..Len(q) : r[i] = q[i]
       /\ Last(r) = s
       /\ ToSet(r) = StreamsOf(c) \cup {s}
       /\ IsInjective(r)
  BY <1>8, <1>9, AppendFacts
<1>11. conn'[c].streams = r
  BY <1>7
<1> HIDE DEF last, q, r
<1>12. /\ stream' \in [StreamIds -> Stream]
       /\ stream'[s].conn = c /\ stream'[s].state = "BEGIN"
       /\ stream'[s].dir = dir
       /\ stream'[last].state = "END" /\ stream'[last].conn = c
       /\ \A t \in StreamIds \ {s, last} : stream'[t] = stream[t]
  <2>1. NewStreamFor(c, dir) \in Stream
    BY <1>1 DEF NewStreamFor, Stream, StreamState, Direction, TypeOK, Packet
  <2>2. stream \in [StreamIds -> Stream]
    BY <1>1 DEF TypeOK
  <2>3. [stream[last] EXCEPT !.state = "END"] \in Stream
    BY <2>2, <1>4 DEF Stream, StreamState
  <2>4. stream' = [stream EXCEPT ![last] = [stream[last] EXCEPT !.state = "END"],
                                 ![s] = NewStreamFor(c, dir)]
    BY <1>5, <1>9
  <2>5. stream'[last] = [stream[last] EXCEPT !.state = "END"]
        /\ stream'[s] = NewStreamFor(c, dir)
    BY <2>2, <2>4, <1>4, <1>9
  <2>6. stream'[last].state = "END" /\ stream'[last].conn = c
    BY <2>2, <2>5, <1>4 DEF Stream
  <2>7. /\ stream'[s].conn = c /\ stream'[s].state = "BEGIN"
        /\ stream'[s].dir = dir
    BY <2>5 DEF NewStreamFor
  <2>8. /\ stream' \in [StreamIds -> Stream]
        /\ \A t \in StreamIds \ {s, last} : stream'[t] = stream[t]
    BY <2>1, <2>2, <2>3, <2>4
  <2> QED BY <2>6, <2>7, <2>8
<1>13. pkt' \in Packet
  BY <1>1, <1>5 DEF AcceptedBy, TypeOK, Packet
<1>14. TypeOK'
  BY <1>1, <1>2, <1>5, <1>6, <1>7, <1>12, <1>13 DEF TypeOK
<1>15. NoDangling'
  <2>1. IsInjective(connPool')
    BY <1>1, <1>5 DEF NoDangling
  <2>2. ASSUME NEW t \in streamPool'
        PROVE  stream'[t].conn \in LiveConns' /\ t \in StreamsOf(stream[t].conn)'
    <3>1. CASE t = s \/ t = last
      <4>1. stream'[t].conn = c /\ t \in ToSet(r)
        BY <3>1, <1>4, <1>10, <1>12
      <4> QED BY <4>1, <1>2, <1>5, <1>11 DEF StreamsOf
    <3>2. CASE t # s /\ t # last
      <4>1. t \in streamPool /\ stream'[t] = stream[t]
        BY <3>2, <1>2, <1>5, <1>12
      <4>2. stream[t].conn \in LiveConns /\ t \in StreamsOf(stream[t].conn)
        BY <4>1, <1>1 DEF NoDangling
      <4>3. CASE stream[t].conn = c
        BY <4>1, <4>2, <4>3, <1>2, <1>5, <1>10, <1>11 DEF StreamsOf
      <4>4. CASE stream[t].conn # c
        BY <4>1, <4>2, <4>4, <1>2, <1>5, <1>7 DEF StreamsOf
      <4> QED BY <4>3, <4>4
    <3> QED BY <3>1, <3>2
  <2>3. ASSUME NEW d \in LiveConns'
        PROVE  /\ \A t \in StreamsOf(d)' : t \in streamPool' /\ stream'[t].conn = d
               /\ IsInjective(conn'[d].streams)
    <3>1. CASE d = c
      <4>1. \A t \in StreamsOf(c) : t \in streamPool /\ stream[t].conn = c
        BY <1>1, <1>2 DEF NoDangling
      <4>2. \A t \in StreamsOf(c) \cup {s} : t \in streamPool' /\ stream'[t].conn = c
        BY <4>1, <1>2, <1>5, <1>12
      <4>3. StreamsOf(c)' = StreamsOf(c) \cup {s}
        BY <1>10, <1>11 DEF StreamsOf
      <4> QED BY <3>1, <4>2, <4>3, <1>10, <1>11
    <3>2. CASE d # c
      <4>1. conn'[d] = conn[d] /\ d \in LiveConns
        BY <3>2, <1>2, <1>5, <1>7
      <4>2. \A t \in StreamsOf(d) : t \in streamPool /\ stream[t].conn = d
        BY <4>1, <1>1 DEF NoDangling
      <4>3. \A t \in StreamsOf(d) : stream'[t] = stream[t]
        BY <3>2, <4>2, <1>2, <1>4, <1>5, <1>12
      <4>4. IsInjective(conn[d].streams)
        BY <4>1, <1>1 DEF NoDangling
      <4> QED BY <4>1, <4>2, <4>3, <4>4, <1>5 DEF StreamsOf
    <3> QED BY <3>1, <3>2
  <2> QED BY <2>1, <2>2, <2>3 DEF NoDangling
<1>16. EndListSound'
  <2>1. {t \in streamPool' : stream'[t].state = "END"} =
        {t \in streamPool : stream[t].state = "END"} \cup {last}
    <3>1. streamPool' = streamPool \cup {s} /\ s \notin streamPool
      BY <1>4, <1>5
    <3>2. last \in streamPool /\ last # s
      BY <1>4, <1>5
    <3>3. \A t \in streamPool : t # last => stream'[t] = stream[t]
      BY <3>1, <1>2, <1>12
    <3>4. stream'[last].state = "END" /\ stream'[s].state # "END"
      BY <1>12
    <3> QED BY <3>1, <3>2, <3>3, <3>4
  <2> QED BY <2>1, <1>1, <1>6 DEF EndListSound
<1>17. ASSUME NEW d \in LiveConns PROVE InOrder(d)' /\ PrevDescribes(d)'
  <2>1. CASE d # c
    <3>1. \A t \in streamPool : stream[t].conn # c => stream'[t] = stream[t]
      BY <1>2, <1>4, <1>5, <1>12
    <3> QED BY <2>1, <3>1, <1>2, <1>4, <1>5, <1>7, OtherConns
  <2>2. CASE d = c
    <3>1. InOrder(c)
      BY <1>1, <1>2 DEF EndListInOrder
    <3>2. \A i \in 1..Len(q) : /\ q[i] \in StreamIds
                               /\ i < Len(q) => q[i] # last /\ q[i] # s
      <4>1. \A i \in 1..Len(q) : q[i] \in StreamsOf(c) /\ q[i] \in StreamIds
        BY <1>1, <1>2, ListFacts DEF q
      <4>2. DOMAIN q = 1..Len(q) /\ Len(q) \in Nat
        BY <1>8, LenProperties
      <4> QED BY <4>1, <4>2, <1>4, <1>8, <1>9 DEF IsInjective
    <3>3. ASSUME NEW i \in 1..Len(r)
          PROVE  /\ i < Len(r) => stream'[r[i]].state = "END"
                 /\ \A k \in 1..Len(endList'), j \in 1..i - 1 :
                      endList'[k] = r[i] =>
                        \E l \in 1..k - 1 : endList'[l] = r[j]
      <4>1. CASE i \in 1..Len(q)
        <5>1. r[i] = q[i] /\ \A j \in 1..i - 1 : r[j] = q[j]
          BY <4>1, <1>4, <1>10
        <5>2. i < Len(q) => stream[q[i]].state = "END"
          BY <3>1, <4>1 DEF InOrder, q
        <5>3. stream'[q[i]].state = "END"
          BY <4>1, <5>2, <3>2, <1>4, <1>12
        <5>4. \A k \in 1..Len(endList'), j \in 1..i - 1 :
                endList'[k] = q[i] => \E l \in 1..k - 1 : endList'[l] = q[j]
          BY <4>1, <1>6, Zenon
        <5> QED BY <5>1, <5>3, <5>4
      <4>2. CASE i = Len(q) + 1
        <5>1. r[i] = s /\ ~(i < Len(r))
          BY <4>2, <1>4, <1>10
        <5>2. \A k \in 1..Len(endList') : endList'[k] # s
          BY <1>6, <1>9, LenProperties DEF ToSet
        <5> QED BY <5>1, <5>2
      <4>3. i \in 1..Len(q) \/ i = Len(q) + 1
        BY <1>4, <1>10
      <4> QED BY <4>1, <4>2, <4>3, Zenon
    <3>4. InOrder(c)'
      <4> DEFINE Ordered(p) ==
            \A i \in 1..Len(p) :
              /\ i < Len(p) => stream'[p[i]].state = "END"
              /\ \A k \in 1..Len(endList'), j \in 1..i - 1 :
                   endList'[k] = p[i] => \E l \in 1..k - 1 : endList'[l] = p[j]
      <4>1. Ordered(r)
        BY <3>3, Zenon
      <4>2. Ordered(conn'[c].streams) => InOrder(c)'
        BY Zenon DEF InOrder
      <4> HIDE DEF Ordered
      <4>3. Ordered(conn'[c].streams)
        BY <4>1, <1>11
      <4> QED BY <4>2, <4>3
    <3>5. PrevDescribes(c)'
      <4>1. LastStream(c)' = s
        BY <1>10, <1>11 DEF LastStream
      <4> QED BY <4>1, <1>3, <1>7, <1>10, <1>11, <1>12 DEF PrevDescribes
    <3> QED BY <2>2, <3>4, <3>5
  <2> QED BY <2>1, <2>2
<1>18. Control'
  <2>1. \A d \in LiveConns' : ~conn'[d].ended
    BY <1>1, <1>2, <1>3, <1>5, <1>7 DEF Control
  <2>2. pc' = "flags" => /\ it' \in 1..Len(connPool')
                         /\ conn'[connPool'[it']].prev # "NEW"
    BY <1>2, <1>5, <1>7
  <2> QED BY <2>1, <2>2 DEF Control
<1> QED BY <1>5, <1>14, <1>15, <1>16, <1>17, <1>18
        DEF IInv, EndListInOrder, PrevDescribesLast

LEMMA TurnStep ==
  ASSUME IInv, NEW c \in ConnIds, NEW s \in StreamIds,
         TurnForward(c, s) \/ TurnBackward(c, s)
  PROVE  IInv'
<1>1. it \in Nat
  BY DEF IInv, TypeOK
<1>2. CASE TurnForward(c, s)
  BY <1>1, <1>2, TurnPools DEF TurnForward
<1>3. CASE TurnBackward(c, s)
  BY <1>1, <1>3, TurnPools DEF TurnBackward
<1> QED BY <1>2, <1>3

-----------------------------------------------------------------------------
(* The destructors.                                                        *)

LEMMA PositionFacts ==
  ASSUME NEW S, NEW q \in Seq(S), NEW x \in ToSet(q)
  PROVE  Position(q, x) \in 1..Len(q) /\ q[Position(q, x)] = x
<1>1. DOMAIN q = 1..Len(q)
  BY LenProperties
<1>2. \E i \in 1..Len(q) : q[i] = x
  BY <1>1 DEF ToSet
<1> QED BY <1>2 DEF Position

(* With end_stream_list empty, which is where the collector works, every   *)
(* connection has at most one stream, and none has ended.                  *)
LEMMA AtMostOne ==
  ASSUME IInv, endList = << >>, NEW c \in LiveConns
  PROVE  Len(conn[c].streams) \in {0, 1} /\ ~conn[c].ended
<1>1. TypeOK /\ NoDangling /\ EndListSound /\ InOrder(c) /\ PrevDescribes(c)
  BY DEF IInv, EndListInOrder, PrevDescribesLast
<1>2. c \in ConnIds /\ Len(conn[c].streams) \in Nat
  BY <1>1, PoolFacts, ListFacts
<1>3. \A s \in streamPool : stream[s].state # "END"
  BY <1>1 DEF EndListSound, ToSet
<1>4. ~(Len(conn[c].streams) > 1)
  <2> SUFFICES ASSUME Len(conn[c].streams) > 1 PROVE FALSE
    OBVIOUS
  <2>1. 1 \in 1..Len(conn[c].streams) /\ 1 < Len(conn[c].streams)
    BY <1>2
  <2>2. stream[conn[c].streams[1]].state = "END"
    BY <1>1, <2>1 DEF InOrder
  <2>3. conn[c].streams[1] \in StreamsOf(c)
    BY <1>1, <1>2, <2>1, ListFacts
  <2> QED BY <1>1, <1>3, <2>2, <2>3 DEF NoDangling
<1>5. ~conn[c].ended
  <2> SUFFICES ASSUME conn[c].ended PROVE FALSE
    OBVIOUS
  <2>1. conn[c].prev # "NEW"
    BY <1>1 DEF PrevDescribes
  <2>2. LastStream(c) \in streamPool
    BY <2>1, LastFacts
  <2> QED BY <1>1, <1>3, <2>1, <2>2 DEF PrevDescribes
<1>6. \A n \in Nat : ~(n > 1) => n \in {0, 1}
  OBVIOUS
<1> QED BY <1>2, <1>4, <1>5, <1>6

(* So the first stream of a connection is all there is for ~TcpConn to     *)
(* delete.                                                                 *)
LEMMA FirstIsAll ==
  ASSUME IInv, endList = << >>, NEW c \in LiveConns
  PROVE  FirstStreamOf(c) = StreamsOf(c)
<1> DEFINE q == conn[c].streams
<1>1. q \in Seq(StreamIds) /\ Len(q) \in {0, 1}
  BY PoolFacts, ListFacts, AtMostOne DEF IInv
<1>2. CASE q = << >>
  BY <1>2 DEF FirstStreamOf, StreamsOf, ToSet
<1>3. CASE q # << >>
  <2>1. Len(q) = 1
    BY <1>1, <1>3, EmptySeq
  <2>2. DOMAIN q = 1..1 /\ Head(q) = q[1]
    BY <1>1, <2>1, LenProperties
  <2>3. ToSet(q) = {Head(q)}
    BY <2>2 DEF ToSet
  <2> QED BY <1>3, <2>3 DEF FirstStreamOf, StreamsOf
<1> QED BY <1>2, <1>3

(* Deleting a stream of one connection, and taking it from the front of    *)
(* end_stream_list if it was there, disturbs no other connection.          *)
LEMMA OthersKept ==
  ASSUME IInv, NEW c \in LiveConns, NEW d \in LiveConns, d # c,
         conn'[d] = conn[d],
         \A t \in streamPool : stream[t].conn # c => stream'[t] = stream[t],
         \/ endList' = endList
         \/ /\ endList # << >>
            /\ Head(endList) \in StreamsOf(c)
            /\ endList' = Tail(endList)
  PROVE  InOrder(d)' /\ PrevDescribes(d)'
<1>1. TypeOK /\ NoDangling /\ EndListInOrder /\ PrevDescribesLast
  BY DEF IInv
<1>2. CASE endList' = endList
  BY <1>2, OtherConns
<1>3. CASE /\ endList # << >>
           /\ Head(endList) \in StreamsOf(c)
           /\ endList' = Tail(endList)
  <2>1. d \in ConnIds /\ endList \in Seq(StreamIds)
    BY <1>1, PoolFacts DEF TypeOK
  <2>2. \A i \in 1..Len(conn[d].streams) : conn[d].streams[i] \in StreamsOf(d)
    BY <1>1, <2>1, ListFacts
  <2>3. \A t \in StreamsOf(d) : stream'[t] = stream[t]
    BY <1>1 DEF NoDangling
  <2>4. endList[1] \notin StreamsOf(d)
    BY <1>1, <1>3, <2>1, OneOwner, TailFacts
  <2>5. /\ Len(endList) \in Nat \ {0}
        /\ Len(endList') = Len(endList) - 1
        /\ \A k \in 1..Len(endList) - 1 : endList'[k] = endList[k + 1]
    BY <1>3, <2>1, TailFacts
  <2>6. InOrder(d) /\ PrevDescribes(d)
    BY <1>1 DEF EndListInOrder, PrevDescribesLast
  <2>7. InOrder(d)'
    <3> SUFFICES ASSUME NEW i \in 1..Len(conn'[d].streams)
                 PROVE  /\ i < Len(conn'[d].streams) =>
                             stream'[conn'[d].streams[i]].state = "END"
                        /\ \A k \in 1..Len(endList'), j \in 1..i - 1 :
                             endList'[k] = conn'[d].streams[i] =>
                               \E l \in 1..k - 1 : endList'[l] = conn'[d].streams[j]
      BY DEF InOrder
    <3>1. ASSUME NEW k \in 1..Len(endList'), NEW j \in 1..i - 1,
                 endList'[k] = conn[d].streams[i]
          PROVE  \E l \in 1..k - 1 : endList'[l] = conn[d].streams[j]
      <4>1. k + 1 \in 1..Len(endList) /\ endList[k + 1] = conn[d].streams[i]
        BY <2>5, <3>1
      <4>2. PICK l \in 1..k + 1 - 1 : endList[l] = conn[d].streams[j]
        BY <2>6, <4>1 DEF InOrder
      <4>3. j \in 1..Len(conn[d].streams)
        BY <1>1, <2>1, ListFacts
      <4>4. l # 1
        BY <2>2, <2>4, <4>2, <4>3
      <4>5. l - 1 \in 1..k - 1 /\ endList'[l - 1] = endList[l]
        BY <2>5, <4>2, <4>4
      <4> QED BY <4>2, <4>5
    <3>2. i < Len(conn[d].streams) => stream'[conn[d].streams[i]].state = "END"
      BY <2>2, <2>3, <2>6 DEF InOrder
    <3> QED BY <3>1, <3>2
  <2>8. conn[d].prev # "NEW" => stream'[LastStream(d)] = stream[LastStream(d)]
    BY <2>3, LastFacts
  <2>9. PrevDescribes(d)'
    BY <2>6, <2>8 DEF PrevDescribes, LastStream
  <2> QED BY <2>7, <2>9
<1> QED BY <1>2, <1>3

(* A connection goes, with all the streams it has.                         *)
LEMMA DropConn ==
  ASSUME IInv, NEW c \in LiveConns,
         connPool' = RemoveAt(connPool, Position(connPool, c)),
         conn' = [conn EXCEPT ![c] = FreeConn],
         streamPool' = streamPool \ StreamsOf(c),
         stream' = [s \in StreamIds |->
                      IF s \in StreamsOf(c) THEN FreeStream ELSE stream[s]],
         \/ endList = << >> /\ endList' = endList
         \/ /\ endList # << >>
            /\ StreamsOf(c) = {Head(endList)}
            /\ endList' = Tail(endList)
  PROVE  /\ connPool' \in Seq(ConnIds)
         /\ conn' \in [ConnIds -> TcpConn]
         /\ streamPool' \subseteq StreamIds
         /\ stream' \in [StreamIds -> Stream]
         /\ endList' \in Seq(StreamIds)
         /\ NoDangling' /\ EndListSound' /\ EndListInOrder' /\ PrevDescribesLast'
<1>1. TypeOK /\ NoDangling /\ EndListSound /\ EndListInOrder
      /\ PrevDescribesLast
  BY DEF IInv
<1>2. c \in ConnIds /\ LiveConns \subseteq ConnIds /\ streamPool \subseteq StreamIds
  BY <1>1, PoolFacts DEF TypeOK
<1>3. /\ connPool' \in Seq(ConnIds) /\ IsInjective(connPool')
      /\ LiveConns' = LiveConns \ {c}
  <2>1. connPool \in Seq(ConnIds) /\ IsInjective(connPool) /\ c \in ToSet(connPool)
    BY <1>1 DEF TypeOK, NoDangling, LiveConns
  <2>2. Position(connPool, c) \in 1..Len(connPool)
        /\ connPool[Position(connPool, c)] = c
    BY <2>1, PositionFacts
  <2> QED BY <2>1, <2>2, RemoveAtElements, RemoveAtFacts DEF LiveConns
<1>4. /\ conn' \in [ConnIds -> TcpConn]
      /\ \A d \in ConnIds \ {c} : conn'[d] = conn[d]
  <2>1. << >> \in Seq(StreamIds)
    BY EmptySeq
  <2>2. FreeConn \in TcpConn
    BY <2>1 DEF FreeConn, TcpConn, Direction
  <2> QED BY <1>1, <2>2 DEF TypeOK
<1>5. /\ streamPool' \subseteq StreamIds
      /\ stream' \in [StreamIds -> Stream]
      /\ \A t \in StreamIds \ StreamsOf(c) : stream'[t] = stream[t]
  <2>1. FreeStream \in Stream
    BY DEF FreeStream, Stream, Direction, StreamState
  <2> QED BY <1>1, <1>2, <2>1 DEF TypeOK
<1>6. /\ endList' \in Seq(StreamIds) /\ IsInjective(endList')
      /\ ToSet(endList') = ToSet(endList) \ StreamsOf(c)
  <2>1. endList \in Seq(StreamIds) /\ IsInjective(endList)
    BY <1>1 DEF TypeOK, EndListSound
  <2>2. CASE endList = << >> /\ endList' = endList
    <3>1. ToSet(endList) = {}
      BY <2>2 DEF ToSet
    <3> QED BY <2>1, <2>2, <3>1
  <2>3. CASE /\ endList # << >>
             /\ StreamsOf(c) = {Head(endList)}
             /\ endList' = Tail(endList)
    BY <2>1, <2>3, TailFacts
  <2> QED BY <2>2, <2>3
<1>7. NoDangling'
  <2>1. ASSUME NEW t \in streamPool'
        PROVE  stream'[t].conn \in LiveConns' /\ t \in StreamsOf(stream[t].conn)'
    <3>1. t \in streamPool /\ t \notin StreamsOf(c) /\ stream'[t] = stream[t]
      BY <1>2, <1>5
    <3>2. stream[t].conn \in LiveConns /\ t \in StreamsOf(stream[t].conn)
      BY <3>1, <1>1 DEF NoDangling
    <3>3. stream[t].conn # c
      BY <3>1, <3>2
    <3> QED BY <3>1, <3>2, <3>3, <1>2, <1>3, <1>4 DEF StreamsOf
  <2>2. ASSUME NEW d \in LiveConns'
        PROVE  /\ \A t \in StreamsOf(d)' : t \in streamPool' /\ stream'[t].conn = d
               /\ IsInjective(conn'[d].streams)
    <3>1. conn'[d] = conn[d] /\ d \in LiveConns /\ d # c
      BY <1>2, <1>3, <1>4
    <3>2. \A t \in StreamsOf(d) : t \in streamPool /\ stream[t].conn = d
      BY <3>1, <1>1 DEF NoDangling
    <3>3. \A t \in StreamsOf(d) : t \notin StreamsOf(c)
      BY <3>1, <1>1, OneOwner
    <3>4. IsInjective(conn[d].streams)
      BY <3>1, <1>1 DEF NoDangling
    <3> QED BY <3>1, <3>2, <3>3, <3>4, <1>2, <1>5 DEF StreamsOf
  <2> QED BY <2>1, <2>2, <1>3 DEF NoDangling
<1>8. EndListSound'
  <2>1. {t \in streamPool' : stream'[t].state = "END"} =
        {t \in streamPool : stream[t].state = "END"} \ StreamsOf(c)
    BY <1>2, <1>5
  <2> QED BY <2>1, <1>1, <1>6 DEF EndListSound
<1>9. ASSUME NEW d \in LiveConns' PROVE InOrder(d)' /\ PrevDescribes(d)'
  <2>1. d \in LiveConns /\ d # c /\ conn'[d] = conn[d]
    BY <1>2, <1>3, <1>4
  <2>2. \A t \in streamPool : stream[t].conn # c => stream'[t] = stream[t]
    BY <1>1, <1>2, <1>5 DEF NoDangling
  <2>3. \/ endList' = endList
        \/ /\ endList # << >>
           /\ Head(endList) \in StreamsOf(c)
           /\ endList' = Tail(endList)
    OBVIOUS
  <2> QED BY <2>1, <2>2, <2>3, OthersKept
<1> QED BY <1>3, <1>4, <1>5, <1>6, <1>7, <1>8, <1>9
        DEF EndListInOrder, PrevDescribesLast

(* A connection with one stream is dropped when that stream is deleted.    *)
LEMMA DeleteLastStream ==
  ASSUME IInv, NEW s \in streamPool, DeleteStream(s),
         Len(conn[stream[s].conn].streams) = 1
  PROVE  LET c == stream[s].conn
         IN /\ c \in LiveConns
            /\ StreamsOf(c) = {s}
            /\ connPool' = RemoveAt(connPool, Position(connPool, c))
            /\ conn' = [conn EXCEPT ![c] = FreeConn]
            /\ streamPool' = streamPool \ StreamsOf(c)
            /\ stream' = [t \in StreamIds |->
                 IF t \in StreamsOf(c) THEN FreeStream ELSE stream[t]]
<1>1. TypeOK /\ NoDangling
  BY DEF IInv
<1>2. PICK c \in LiveConns : c = stream[s].conn /\ s \in StreamsOf(c)
  BY <1>1 DEF NoDangling
<1> DEFINE q == conn[c].streams
<1>3. c \in ConnIds /\ q \in Seq(StreamIds) /\ s \in ToSet(q) /\ Len(q) = 1
  BY <1>1, <1>2, PoolFacts, ListFacts DEF StreamsOf
<1>4. StreamsOf(c) = {s}
  <2>1. DOMAIN q = 1..1
    BY <1>3, LenProperties
  <2>2. ToSet(q) = {q[1]}
    BY <2>1 DEF ToSet
  <2> QED BY <1>3, <2>2 DEF StreamsOf
<1>5. StreamsWithout(c, s) = << >>
  <2>1. Position(q, s) \in 1..Len(q)
    BY <1>3, PositionFacts
  <2>2. RemoveAt(q, Position(q, s)) \in Seq(StreamIds)
        /\ Len(RemoveAt(q, Position(q, s))) = Len(q) - 1
    BY <1>3, <2>1, RemoveAtElements
  <2> QED BY <1>3, <2>2, EmptySeq DEF StreamsWithout
<1>6. /\ connPool' = RemoveAt(connPool, Position(connPool, c))
      /\ conn' = [conn EXCEPT ![c] = FreeConn]
      /\ streamPool' = streamPool \ {s}
      /\ stream' = [stream EXCEPT ![s] = FreeStream]
  BY <1>2, <1>5 DEF DeleteStream
<1>7. stream' = [t \in StreamIds |->
                   IF t \in {s} THEN FreeStream ELSE stream[t]]
  BY <1>1, <1>6 DEF TypeOK
<1> QED BY <1>2, <1>4, <1>6, <1>7

(* The collector deletes a stream.                                         *)
LEMMA GcStreamStep ==
  ASSUME IInv, NEW s \in StreamIds, GcStream(s)
  PROVE  IInv'
<1>1. TypeOK /\ NoDangling /\ Control
  BY DEF IInv
<1>2. /\ s \in streamPool /\ DeleteStream(s) /\ endList = << >>
      /\ endList' = endList /\ pkt' = pkt /\ lastGc' = lastGc
      /\ pc = "streams" /\ pc' = pc /\ it' = it
  BY <1>1 DEF GcStream, Control
<1>3. PICK c \in LiveConns : c = stream[s].conn /\ s \in StreamsOf(c)
  BY <1>1, <1>2 DEF NoDangling
<1>4. Len(conn[c].streams) = 1
  <2>1. c \in ConnIds
    BY <1>1, PoolFacts
  <2>2. conn[c].streams # << >>
    BY <1>3 DEF StreamsOf, ToSet
  <2> QED BY <1>1, <1>2, <2>1, <2>2, AtMostOne, ListFacts
<1>5. /\ connPool' = RemoveAt(connPool, Position(connPool, c))
      /\ conn' = [conn EXCEPT ![c] = FreeConn]
      /\ streamPool' = streamPool \ StreamsOf(c)
      /\ stream' = [t \in StreamIds |->
           IF t \in StreamsOf(c) THEN FreeStream ELSE stream[t]]
  BY <1>2, <1>3, <1>4, DeleteLastStream
<1>6. /\ connPool' \in Seq(ConnIds)
      /\ conn' \in [ConnIds -> TcpConn]
      /\ streamPool' \subseteq StreamIds
      /\ stream' \in [StreamIds -> Stream]
      /\ endList' \in Seq(StreamIds)
      /\ NoDangling' /\ EndListSound' /\ EndListInOrder' /\ PrevDescribesLast'
  BY <1>2, <1>5, DropConn
<1>7. TypeOK'
  BY <1>1, <1>2, <1>6 DEF TypeOK
<1>8. Control'
  BY <1>2 DEF Control
<1> QED BY <1>6, <1>7, <1>8 DEF IInv

(* The iterator of the connection collector stays on the pool or its end.  *)
LEMMA BackAndForthFacts ==
  ASSUME NEW n \in Nat, NEW i \in 1..n, NEW bf \in BackAndForth(i, n)
  PROVE  bf[1] \in 1..n + 1 /\ bf[2] \in 1..n + 1
<1>1. CASE i > 1
  BY <1>1 DEF BackAndForth
<1>2. CASE i = 1 /\ n = 1
  BY <1>2 DEF BackAndForth
<1>3. CASE i = 1 /\ n = 2
  BY <1>3 DEF BackAndForth
<1>4. CASE i = 1 /\ n > 2
  <2>1. PICK j \in AfterEnd(n) : bf = <<n + 1, j>>
    BY <1>4 DEF BackAndForth
  <2> QED BY <1>4, <2>1 DEF AfterEnd
<1> QED BY <1>1, <1>2, <1>3, <1>4

(* The collector deletes a connection.                                     *)
LEMMA GcConnExpiredStep ==
  ASSUME IInv, GcConnExpired
  PROVE  IInv'
<1>1. TypeOK /\ NoDangling /\ EndListSound /\ EndListInOrder
      /\ PrevDescribesLast /\ Control
  BY DEF IInv
<1>2. /\ endList = << >> /\ endList' = endList /\ pkt' = pkt
      /\ lastGc' = lastGc /\ pc' = pc /\ pc = "conns"
      /\ it <= Len(connPool) /\ it \in Nat /\ Len(connPool) \in Nat
  BY <1>1, PoolFacts DEF GcConnExpired, Control, TypeOK
<1>3. PICK bf \in BackAndForth(it, Len(connPool)) :
        IF bf[2] <= Len(connPool)
        THEN /\ DeleteConn(connPool[bf[2]])
             /\ it' \in IF bf[1] > Len(connPool)
                        THEN AfterEnd(Len(connPool) - 1) ELSE {bf[1] + 1}
        ELSE /\ it' = bf[1] + 1
             /\ UNCHANGED <<connPool, conn, streamPool, stream>>
  BY DEF GcConnExpired
<1>4. it \in 1..Len(connPool)
  BY <1>1, <1>2 DEF Control
<1>5. bf[1] \in 1..Len(connPool) + 1 /\ bf[2] \in 1..Len(connPool) + 1
  BY <1>2, <1>3, <1>4, BackAndForthFacts
<1>6. it' \in Nat /\ it' >= 1
  <2>1. \A n : \A i \in AfterEnd(n) : n \in Int => i \in Nat /\ i >= 1
    BY DEF AfterEnd
  <2> QED BY <1>2, <1>3, <1>5, <2>1
<1>7. CASE ~(bf[2] <= Len(connPool))
  <2>1. UNCHANGED <<connPool, conn, streamPool, stream>>
    BY <1>3, <1>7
  <2>2. UNCHANGED Pools
    BY <1>2, <2>1 DEF Pools
  <2>3. NoDangling' /\ EndListSound' /\ EndListInOrder' /\ PrevDescribesLast'
    BY <1>1, <2>2, PoolsUnchanged
  <2>4. TypeOK'
    BY <1>1, <1>2, <1>6, <2>1 DEF TypeOK
  <2>5. Control'
    BY <1>2, <1>6 DEF Control
  <2> QED BY <2>3, <2>4, <2>5 DEF IInv
<1>8. CASE bf[2] <= Len(connPool)
  <2>1. PICK c \in LiveConns : c = connPool[bf[2]]
    BY <1>1, <1>2, <1>5, <1>8, PoolFacts
  <2>2. DeleteConn(c)
    BY <1>3, <1>8, <2>1
  <2>3. FirstStreamOf(c) = StreamsOf(c)
    BY <1>2, FirstIsAll
  <2>4. /\ connPool' = RemoveAt(connPool, Position(connPool, c))
        /\ conn' = [conn EXCEPT ![c] = FreeConn]
        /\ streamPool' = streamPool \ StreamsOf(c)
        /\ stream' = [t \in StreamIds |->
             IF t \in StreamsOf(c) THEN FreeStream ELSE stream[t]]
    BY <2>2, <2>3 DEF DeleteConn
  <2>5. /\ connPool' \in Seq(ConnIds)
        /\ conn' \in [ConnIds -> TcpConn]
        /\ streamPool' \subseteq StreamIds
        /\ stream' \in [StreamIds -> Stream]
        /\ endList' \in Seq(StreamIds)
        /\ NoDangling' /\ EndListSound' /\ EndListInOrder'
        /\ PrevDescribesLast'
    BY <1>2, <2>4, DropConn
  <2>6. TypeOK'
    BY <1>1, <1>2, <1>6, <2>5 DEF TypeOK
  <2>7. Control'
    BY <1>2, <1>6 DEF Control
  <2> QED BY <2>5, <2>6, <2>7 DEF IInv
<1> QED BY <1>7, <1>8

(* The first stream of end_stream_list is deleted.  If its connection has  *)
(* another, the order of the list makes the deleted one its first.         *)
LEMMA DeleteEndedStep ==
  ASSUME IInv, DeleteEnded
  PROVE  IInv'
<1>1. TypeOK /\ NoDangling /\ EndListSound /\ EndListInOrder
      /\ PrevDescribesLast /\ Control
  BY DEF IInv
<1>2. /\ endList \in Seq(StreamIds) /\ endList # << >>
      /\ endList' = Tail(endList)
      /\ pkt' = pkt /\ lastGc' = lastGc /\ pc' = "ends" /\ it' = it
  BY <1>1 DEF DeleteEnded, TypeOK
<1>3. Control'
  BY <1>2 DEF Control
<1>4. PICK s \in streamPool : s = Head(endList) /\ stream[s].state = "END"
  BY <1>1, <1>2, TailFacts DEF EndListSound
<1>5. PICK c \in LiveConns : c = stream[s].conn /\ s \in StreamsOf(c)
  BY <1>1, <1>4 DEF NoDangling
<1>6. DeleteStream(s)
  BY <1>4 DEF DeleteEnded
<1> DEFINE q == conn[c].streams
<1>7. /\ c \in ConnIds /\ LiveConns \subseteq ConnIds
      /\ streamPool \subseteq StreamIds /\ s \in StreamIds
      /\ q \in Seq(StreamIds) /\ IsInjective(q) /\ s \in ToSet(q)
      /\ Len(q) \in Nat \ {0} /\ DOMAIN q = 1..Len(q)
      /\ ToSet(q) = StreamsOf(c)
  <2>1. q # << >>
    BY <1>5 DEF StreamsOf, ToSet
  <2> QED BY <2>1, <1>1, <1>4, <1>5, PoolFacts, ListFacts
          DEF StreamsOf, TypeOK, NoDangling
<1>8. CASE Len(q) = 1
  <2>1. /\ StreamsOf(c) = {s}
        /\ connPool' = RemoveAt(connPool, Position(connPool, c))
        /\ conn' = [conn EXCEPT ![c] = FreeConn]
        /\ streamPool' = streamPool \ StreamsOf(c)
        /\ stream' = [t \in StreamIds |->
             IF t \in StreamsOf(c) THEN FreeStream ELSE stream[t]]
    BY <1>5, <1>6, <1>8, DeleteLastStream
  <2>2. /\ connPool' \in Seq(ConnIds)
        /\ conn' \in [ConnIds -> TcpConn]
        /\ streamPool' \subseteq StreamIds
        /\ stream' \in [StreamIds -> Stream]
        /\ endList' \in Seq(StreamIds)
        /\ NoDangling' /\ EndListSound' /\ EndListInOrder'
        /\ PrevDescribesLast'
    BY <1>2, <1>4, <2>1, DropConn
  <2>3. TypeOK'
    BY <1>1, <1>2, <2>2 DEF TypeOK
  <2> QED BY <1>3, <2>2, <2>3 DEF IInv
<1>9. CASE Len(q) # 1
  <2> DEFINE p == Position(q, s)
             r == RemoveAt(q, p)
  <2>1. p \in 1..Len(q) /\ q[p] = s
    BY <1>7, PositionFacts
  <2>2. endList[1] = s /\ 1 \in 1..Len(endList)
    BY <1>2, <1>4, TailFacts
  <2>3. InOrder(c) /\ PrevDescribes(c)
    BY <1>1 DEF EndListInOrder, PrevDescribesLast
  <2>4. p = 1
    <3> SUFFICES ASSUME p # 1 PROVE FALSE
      OBVIOUS
    <3>1. 1 \in 1..p - 1
      BY <1>7, <2>1
    <3>2. endList[1] = q[p]
      BY <2>1, <2>2
    <3>3. \E l \in 1..1 - 1 : endList[l] = q[1]
      BY <2>1, <2>2, <2>3, <3>1, <3>2 DEF InOrder
    <3> QED BY <3>3
  <2>5. /\ r \in Seq(StreamIds) /\ Len(r) = Len(q) - 1
        /\ \A i \in 1..Len(q) - 1 : r[i] = q[i + 1]
        /\ IsInjective(r) /\ ToSet(r) = StreamsOf(c) \ {s}
    <3>1. /\ r \in Seq(StreamIds) /\ Len(r) = Len(q) - 1
          /\ \A i \in p..Len(q) - 1 : r[i] = q[i + 1]
      BY <1>7, <2>1, RemoveAtElements
    <3>2. IsInjective(r) /\ ToSet(r) = ToSet(q) \ {q[p]}
      BY <1>7, <2>1, RemoveAtFacts
    <3> HIDE DEF p, r, q
    <3> QED BY <1>7, <2>1, <2>4, <3>1, <3>2
  <2>6. r # << >>
    <3> HIDE DEF r, p, q
    <3>1. Len(r) # 0
      BY <1>7, <1>9, <2>5
    <3> QED BY <3>1, EmptySeq
  <2>7. /\ connPool' = connPool /\ LiveConns' = LiveConns
        /\ conn' = [conn EXCEPT ![c].streams = r]
        /\ streamPool' = streamPool \ {s}
        /\ stream' = [stream EXCEPT ![s] = FreeStream]
    BY <1>5, <1>6, <2>6 DEF DeleteStream, StreamsWithout, LiveConns
  <2> HIDE DEF p, r, q
  <2>8. /\ conn' \in [ConnIds -> TcpConn]
        /\ conn'[c].streams = r
        /\ conn'[c].prev = conn[c].prev /\ conn'[c].ended = conn[c].ended
        /\ \A d \in ConnIds \ {c} : conn'[d] = conn[d]
    BY <1>1, <1>7, <2>5, <2>7 DEF TypeOK, TcpConn
  <2>9. /\ stream' \in [StreamIds -> Stream]
        /\ \A t \in StreamIds \ {s} : stream'[t] = stream[t]
    <3>1. FreeStream \in Stream
      BY DEF FreeStream, Stream, Direction, StreamState
    <3> QED BY <1>1, <2>7, <3>1 DEF TypeOK
  <2>10. /\ endList' \in Seq(StreamIds) /\ IsInjective(endList')
         /\ ToSet(endList') = ToSet(endList) \ {s}
         /\ Len(endList) \in Nat \ {0}
         /\ Len(endList') = Len(endList) - 1
         /\ \A k \in 1..Len(endList) - 1 : endList'[k] = endList[k + 1]
    BY <1>1, <1>2, <1>4, TailFacts DEF EndListSound
  <2>11. TypeOK'
    BY <1>1, <1>2, <2>7, <2>8, <2>9, <2>10 DEF TypeOK
  <2>12. NoDangling'
    <3>1. IsInjective(connPool')
      BY <1>1, <2>7 DEF NoDangling
    <3>2. ASSUME NEW t \in streamPool'
          PROVE  /\ stream'[t].conn \in LiveConns'
                 /\ t \in StreamsOf(stream[t].conn)'
      <4>1. t \in streamPool /\ t # s /\ stream'[t] = stream[t]
        BY <1>7, <2>7, <2>9
      <4>2. stream[t].conn \in LiveConns /\ t \in StreamsOf(stream[t].conn)
        BY <4>1, <1>1 DEF NoDangling
      <4>3. CASE stream[t].conn = c
        <5>1. t \in ToSet(r)
          BY <4>1, <4>2, <4>3, <2>5
        <5> QED BY <4>1, <4>2, <4>3, <5>1, <2>7, <2>8 DEF StreamsOf
      <4>4. CASE stream[t].conn # c
        BY <4>1, <4>2, <4>4, <1>7, <2>7, <2>8 DEF StreamsOf
      <4> QED BY <4>3, <4>4
    <3>3. ASSUME NEW d \in LiveConns'
          PROVE  /\ \A t \in StreamsOf(d)' :
                      t \in streamPool' /\ stream'[t].conn = d
                 /\ IsInjective(conn'[d].streams)
      <4>1. d \in LiveConns
        BY <2>7
      <4>2. \A t \in StreamsOf(d) : t \in streamPool /\ stream[t].conn = d
        BY <4>1, <1>1 DEF NoDangling
      <4>3. CASE d = c
        <5>1. StreamsOf(c)' = StreamsOf(c) \ {s}
          BY <2>5, <2>8 DEF StreamsOf
        <5> QED BY <4>2, <4>3, <5>1, <1>7, <2>5, <2>7, <2>8, <2>9
      <4>4. CASE d # c
        <5>1. conn'[d] = conn[d] /\ s \notin StreamsOf(d)
          BY <4>1, <4>2, <4>4, <1>5, <1>7, <2>8
        <5>2. IsInjective(conn[d].streams)
          BY <4>1, <1>1 DEF NoDangling
        <5> QED BY <4>2, <5>1, <5>2, <1>7, <2>7, <2>9 DEF StreamsOf
      <4> QED BY <4>3, <4>4
    <3> QED BY <3>1, <3>2, <3>3 DEF NoDangling
  <2>13. EndListSound'
    <3>1. {t \in streamPool' : stream'[t].state = "END"} =
          {t \in streamPool : stream[t].state = "END"} \ {s}
      BY <1>7, <2>7, <2>9
    <3> QED BY <3>1, <1>1, <2>10 DEF EndListSound
  <2>14. ASSUME NEW d \in LiveConns PROVE InOrder(d)' /\ PrevDescribes(d)'
    <3>1. CASE d # c
      <4>1. \A t \in streamPool : stream[t].conn # c => stream'[t] = stream[t]
        BY <1>5, <1>7, <2>9
      <4>2. /\ endList # << >>
            /\ Head(endList) \in StreamsOf(c)
            /\ endList' = Tail(endList)
        BY <1>2, <1>4, <1>5
      <4>3. conn'[d] = conn[d]
        BY <3>1, <1>7, <2>8
      <4> QED BY <3>1, <4>1, <4>2, <4>3, OthersKept
    <3>2. CASE d = c
      <4>1. \A i \in 1..Len(q) : q[i] \in StreamIds /\ (i # 1 => q[i] # s)
        <5>1. \A i \in 1..Len(q) : q[i] \in StreamIds
          BY <1>7
        <5>2. 1 \in 1..Len(q) /\ q[1] = s
          BY <1>7, <2>1, <2>4
        <5> QED BY <5>1, <5>2, <1>7 DEF IsInjective
      <4>2. ASSUME NEW i \in 1..Len(r)
            PROVE  /\ i < Len(r) => stream'[r[i]].state = "END"
                   /\ \A k \in 1..Len(endList'), j \in 1..i - 1 :
                        endList'[k] = r[i] =>
                          \E l \in 1..k - 1 : endList'[l] = r[j]
        <5>1. i + 1 \in 1..Len(q) /\ r[i] = q[i + 1] /\ i + 1 # 1
          BY <1>7, <2>5
        <5>2. i < Len(r) => stream'[r[i]].state = "END"
          <6>1. i < Len(r) => i + 1 < Len(q)
            BY <1>7, <2>5
          <6>2. i + 1 < Len(q) => stream[q[i + 1]].state = "END"
            BY <2>3, <5>1 DEF InOrder, q
          <6>3. stream'[q[i + 1]] = stream[q[i + 1]]
            BY <4>1, <5>1, <2>9
          <6> QED BY <5>1, <6>1, <6>2, <6>3
        <5>3. ASSUME NEW k \in 1..Len(endList'), NEW j \in 1..i - 1,
                     endList'[k] = r[i]
              PROVE  \E l \in 1..k - 1 : endList'[l] = r[j]
          <6>1. k + 1 \in 1..Len(endList) /\ endList[k + 1] = q[i + 1]
            <7>1. k + 1 \in 1..Len(endList) /\ endList'[k] = endList[k + 1]
              BY <2>10
            <7> QED BY <7>1, <5>1, <5>3
          <6>2. j + 1 \in 1..i + 1 - 1
            BY <1>7, <2>5
          <6>3. PICK l \in 1..k + 1 - 1 : endList[l] = q[j + 1]
            <7>1. \A m \in 1..Len(endList), n \in 1..i + 1 - 1 :
                    endList[m] = q[i + 1] =>
                      \E l \in 1..m - 1 : endList[l] = q[n]
              BY <2>3, <5>1 DEF InOrder, q
            <7> HIDE DEF q
            <7> QED BY <7>1, <6>1, <6>2
          <6>4. r[j] = q[j + 1] /\ q[j + 1] # s
            BY <4>1, <1>7, <2>5
          <6>5. l # 1
            BY <2>2, <6>3, <6>4
          <6>6. l - 1 \in 1..k - 1 /\ endList'[l - 1] = endList[l]
            <7>1. k \in Nat /\ k <= Len(endList) - 1 /\ Len(endList) \in Nat
              BY <2>10
            <7>2. l \in Nat /\ 2 <= l /\ l <= k
              BY <6>3, <6>5, <7>1
            <7>3. l - 1 \in 1..k - 1 /\ l - 1 \in 1..Len(endList) - 1
              BY <7>1, <7>2
            <7>4. endList'[l - 1] = endList[(l - 1) + 1] /\ (l - 1) + 1 = l
              BY <2>10, <7>2, <7>3
            <7> QED BY <7>3, <7>4
          <6> QED BY <6>3, <6>4, <6>6
        <5> QED BY <5>2, <5>3
      <4>3. InOrder(c)'
        <5> DEFINE Ordered(a) ==
              \A i \in 1..Len(a) :
                /\ i < Len(a) => stream'[a[i]].state = "END"
                /\ \A k \in 1..Len(endList'), j \in 1..i - 1 :
                     endList'[k] = a[i] =>
                       \E l \in 1..k - 1 : endList'[l] = a[j]
        <5>1. Ordered(r)
          BY <4>2, Zenon
        <5>2. Ordered(conn'[c].streams) => InOrder(c)'
          BY Zenon DEF InOrder
        <5> HIDE DEF Ordered
        <5>3. Ordered(conn'[c].streams)
          BY <5>1, <2>8
        <5> QED BY <5>2, <5>3
      <4>4. PrevDescribes(c)'
        <5>1. LastStream(c) = q[Len(q)] /\ LastStream(c)' = r[Len(r)]
          BY <2>8 DEF LastStream, Last, q
        <5>2. r[Len(r)] = q[Len(q)] /\ Len(q) # 1
          BY <1>7, <1>9, <2>5
        <5>3. stream'[q[Len(q)]] = stream[q[Len(q)]]
          BY <4>1, <5>2, <1>7, <2>9
        <5>4. /\ conn[c].prev # "NEW"
              /\ stream[q[Len(q)]].dir = conn[c].prev
              /\ stream[q[Len(q)]].state = "END" <=> conn[c].ended
          <6>1. q # << >>
            BY <1>5 DEF StreamsOf, ToSet, q
          <6> QED BY <2>3, <5>1, <6>1 DEF PrevDescribes, q
        <5> QED BY <5>1, <5>2, <5>3, <5>4, <2>6, <2>8 DEF PrevDescribes
      <4> QED BY <3>2, <4>3, <4>4
    <3> QED BY <3>1, <3>2
  <2> QED BY <1>3, <2>7, <2>11, <2>12, <2>13, <2>14
          DEF IInv, EndListInOrder, PrevDescribesLast
<1> QED BY <1>8, <1>9

-----------------------------------------------------------------------------
(* The theorems.                                                           *)

LEMMA InitIInv == Init => IInv
<1> SUFFICES ASSUME Init PROVE IInv
  OBVIOUS
<1>1. << >> \in Seq(ConnIds) /\ << >> \in Seq(StreamIds)
  BY EmptySeq
<1>2. FreeConn \in TcpConn
  BY <1>1 DEF FreeConn, TcpConn, Direction
<1>3. FreeStream \in Stream
  BY DEF FreeStream, Stream, Direction, StreamState
<1>4. NoPacket \in Packet
  BY NewPacketType DEF NoPacket
<1>5. TypeOK
  BY <1>1, <1>2, <1>3, <1>4 DEF Init, TypeOK
<1>6. ToSet(<< >>) = {} /\ IsInjective(<< >>)
  BY DEF ToSet, IsInjective
<1>7. LiveConns = {} /\ NoDangling /\ EndListSound
  BY <1>6 DEF Init, LiveConns, NoDangling, EndListSound
<1>8. EndListInOrder /\ PrevDescribesLast
  BY <1>7 DEF EndListInOrder, PrevDescribesLast
<1>9. Control
  BY DEF Init, Control
<1> QED BY <1>5, <1>7, <1>8, <1>9 DEF IInv

LEMMA StepIInv == IInv /\ [Next]_vars => IInv'
<1> SUFFICES ASSUME IInv, [Next]_vars PROVE IInv'
  OBVIOUS
<1>1. CASE UNCHANGED vars
  BY <1>1, QuietStep
<1>2. CASE CaptureNext
  <2>1. PICK t \in Times :
          \/ CaptureOther(t)
          \/ \E h \in Headers :
               \/ CaptureDiscard(h, t)
               \/ CaptureSearch(h, t)
               \/ \E c \in ConnIds : CaptureSyn(h, t, c)
    BY <1>2 DEF CaptureNext
  <2>2. CASE CaptureOther(t)
    BY <2>2, QuietStep
  <2>3. CASE \E h \in Headers : CaptureDiscard(h, t) \/ CaptureSearch(h, t)
    BY <2>3, QuietStep
  <2>4. CASE \E h \in Headers, c \in ConnIds : CaptureSyn(h, t, c)
    BY <2>4, CaptureSynStep
  <2> QED BY <2>1, <2>2, <2>3, <2>4
<1>3. CASE SearchNext
  <2>1. CASE SearchDone \/ NextConn
    BY <2>1, QuietStep
  <2>2. CASE Close
    BY <2>2, CloseStep
  <2>3. ASSUME NEW c \in ConnIds, Skip(c) PROVE IInv'
    BY <2>3, QuietStep
  <2>4. ASSUME NEW c \in ConnIds, NEW dir \in {"C2S", "S2C"},
               ContinueAccept(c, dir)
        PROVE  IInv'
    BY <2>4, ContinueAcceptStep
  <2>5. ASSUME NEW c \in ConnIds, NEW dir \in {"C2S", "S2C"},
               ContinueReject(c, dir)
        PROVE  IInv'
    BY <2>5, QuietStep
  <2>6. ASSUME NEW c \in ConnIds, NEW dir \in {"C2S", "S2C"},
               NEW s \in StreamIds, Open(c, s, dir)
        PROVE  IInv'
    BY <2>6, OpenStep
  <2>7. ASSUME NEW c \in ConnIds, NEW s \in StreamIds,
               TurnForward(c, s) \/ TurnBackward(c, s)
        PROVE  IInv'
    BY <2>7, TurnStep
  <2> QED BY <1>3, <2>1, <2>2, <2>3, <2>4, <2>5, <2>6, <2>7 DEF SearchNext
<1>4. CASE CleanNext
  <2>1. CASE \/ DeletePacket \/ SkipGc \/ StartGc \/ GcStreamsDone
             \/ GcConnKeep \/ GcDone
    BY <2>1, QuietStep
  <2>2. CASE DeleteEnded
    BY <2>2, DeleteEndedStep
  <2>3. ASSUME NEW s \in StreamIds, GcStream(s) PROVE IInv'
    BY <2>3, GcStreamStep
  <2>4. CASE GcConnExpired
    BY <2>4, GcConnExpiredStep
  <2> QED BY <1>4, <2>1, <2>2, <2>3, <2>4 DEF CleanNext
<1> QED BY <1>1, <1>2, <1>3, <1>4 DEF Next, Process

(* The invariant holds in every state the program reaches.                 *)
THEOREM Invariance == Spec => []IInv
<1>1. Init => IInv
  BY InitIInv
<1>2. IInv /\ [Next]_vars => IInv'
  BY StepIInv
<1> QED BY <1>1, <1>2, PTL DEF Spec

(* Every variable keeps its type: the objects, the pools and the lists of  *)
(* StreamRebuild and PacketClean.                                          *)
THEOREM TypeCorrect == Spec => []TypeOK
<1>1. IInv => TypeOK
  BY DEF IInv
<1> QED BY <1>1, Invariance, PTL

(* Connections and streams only point to live ones, and to each other: the *)
(* pointers the destructors follow never dangle.                           *)
THEOREM NothingDangles == Spec => []NoDangling
<1>1. IInv => NoDangling
  BY DEF IInv
<1> QED BY <1>1, Invariance, PTL

(* SearchStream can take the last stream of a connection whose             *)
(* prev_direction_ is not NEW, and that stream has that direction.         *)
THEOREM PrevCorrect == Spec => []PrevDescribesLast
<1>1. IInv => PrevDescribesLast
  BY DEF IInv
<1> QED BY <1>1, Invariance, PTL

(* ~TcpConn deletes all the streams of a connection, although its loop     *)
(* stops at the first: there is no other when it runs.                     *)
THEOREM CollectorLeavesNoStream == Spec => []OneStreamAtGc
<1>1. IInv => OneStreamAtGc
  <2> SUFFICES ASSUME IInv, pc \notin {"search", "flags", "clean", "ends"},
                      NEW c \in LiveConns
               PROVE  Len(conn[c].streams) <= 1
    BY DEF OneStreamAtGc
  <2>1. pc \in {"idle", "streams", "conns"}
    BY DEF IInv, TypeOK
  <2>2. endList = << >>
    BY <2>1 DEF IInv, Control
  <2>3. \A n \in {0, 1} : n <= 1
    OBVIOUS
  <2> QED BY <2>2, <2>3, AtMostOne
<1> QED BY <1>1, Invariance, PTL

(* PacketClean deletes every ended stream, once: end_stream_list holds the *)
(* ended streams without repetition, older streams of a connection before  *)
(* newer ones, and a connection that a FIN or RST ended is gone with the   *)
(* packet.                                                                 *)
THEOREM EndListCorrect == Spec => []EndList
<1>1. IInv => NoEndedConnAtRest
  <2> SUFFICES ASSUME IInv, pc \in {"idle", "streams", "conns"},
                      NEW c \in LiveConns
               PROVE  ~conn[c].ended
    BY DEF NoEndedConnAtRest
  <2>1. endList = << >>
    BY DEF IInv, Control
  <2> QED BY <2>1, AtMostOne
<1>2. IInv => EndList
  BY <1>1 DEF IInv, EndList
<1> QED BY <1>2, Invariance, PTL

-----------------------------------------------------------------------------
(***************************************************************************)
(* What connection tracking promises to others, on top of the invariant.   *)
(*                                                                         *)
(* To the packet: SearchStream looks at every connection that one of its   *)
(* two branches is for, although it starts at the first connection of the  *)
(* port key and stops at the first of another key.  That is because the    *)
(* multimap is sorted and because a packet's ends and those of its         *)
(* connection have the same key; so what is still to be looked at lies at  *)
(* the iterator or behind it (SInv).                                       *)
(*                                                                         *)
(* To the objects: a stream or a connection goes for a reason, and         *)
(* ConnTrack implements Ownership.                                         *)
(***************************************************************************)

KeyAt(i) == PortMapKey(conn[connPool[i]].ends)

\* The pool is in the order of its keys, as a multimap is.
Sorted ==
  /\ \A c \in LiveConns : conn[c].ends \in [src : Endpoint, dst : Endpoint]
  /\ \A i, j \in 1..Len(connPool) : i < j => KeyAt(i) <= KeyAt(j)

\* Between two packets nothing is left of the last one.
PacketGone ==
  pc \in {"idle", "ends", "streams", "conns"} =>
    pkt.taken = {} /\ pkt.stream = None

Found == pkt.taken # {} \/ pkt.error

\* The connections one of SearchStream's two branches is for.
Reached(h) == {c \in LiveConns : Forward(h, c) \/ Backward(h, c)}

Owed(h) == NotSyn(h) /\ ~Discarded(h)

OldestReached(h, c) ==
  /\ c \in Reached(h)
  /\ \A d \in Reached(h) : Position(connPool, c) <= Position(connPool, d)

NoneBefore == \A j \in 1..it - 1 : connPool[j] \notin Reached(pkt.hdr)

\* How far the search is.
Searching ==
  pc \in {"search", "flags"} =>
    /\ pkt.hdr \in Headers /\ NotSyn(pkt.hdr) /\ ~Discarded(pkt.hdr)
    /\ it \in 1..Len(connPool) + 1
    /\ HasKey(it, pkt.hdr) \/ (it > 1 /\ HasKey(it - 1, pkt.hdr))
    /\ NoneBefore \/ Found
    /\ Closes(pkt.hdr) => NoneBefore
    /\ Found => Reached(pkt.hdr) # {}
    /\ pc = "search" /\ Closes(pkt.hdr) => endList = << >>
    /\ pc = "flags" => /\ HasKey(it, pkt.hdr)
                       /\ connPool[it] \in Reached(pkt.hdr)
                       /\ Found
    /\ pc = "flags" /\ Closes(pkt.hdr) /\ Forward(pkt.hdr, connPool[it]) =>
         endList = << >>

\* What the search has come to, in terms of the two branches.
DropInv == Searched => (Found <=> Owed(pkt.hdr) /\ Reached(pkt.hdr) # {})

EndInv ==
  Searched =>
    \A c \in LiveConns :
      conn[c].ended <=> /\ Owed(pkt.hdr) /\ Closes(pkt.hdr)
                        /\ OldestReached(pkt.hdr, c)
                        /\ ~TurnedForward(pkt.hdr, c)

SInv ==
  /\ Sorted
  /\ PacketGone
  /\ PacketInItsStreams
  /\ Searching
  /\ DropInv
  /\ EndInv

-----------------------------------------------------------------------------
(* Keys.                                                                   *)

LEMMA KeyFacts ==
  /\ \A e \in [src : Endpoint, dst : Endpoint] : PortMapKey(e) \in Nat
  /\ \A h \in Headers : PortMapKey(h) \in Nat
<1>1. \A e \in [src : Endpoint, dst : Endpoint] : PortMapKey(e) \in Nat
  BY DEF PortMapKey, Endpoint
<1>2. \A h \in Headers : PortMapKey(h) \in Nat
  BY HeadersAssumption DEF PortMapKey, Endpoint, Header
<1> QED BY <1>1, <1>2

(* By the ends alone: what no branch is for, although the packet belongs   *)
(* to the connection, are the server's packets between equal ports.        *)
LEMMA ReadIsReached ==
  ASSUME Sorted, NEW h \in Headers
  PROVE  Read(h) = IF Owed(h) THEN Reached(h) ELSE {}
<1>1. ASSUME NEW c \in LiveConns
      PROVE  (Forward(h, c) \/ FromServer(h, c)) /\ ~Shadowed(h, c)
             <=> Forward(h, c) \/ Backward(h, c)
  <2>1. FromServer(h, c) =>
          (PortsForward(h, conn[c].ends) <=>
             conn[c].ends.src.port = conn[c].ends.dst.port)
    BY DEF FromServer, PortsForward
  <2> QED BY <2>1 DEF Shadowed, FromServer, Backward
<1>2. {c \in Matching(h) : ~Shadowed(h, c)} = Reached(h)
  BY <1>1 DEF Matching, Reached
<1> QED BY <1>2 DEF Read, Owed

(* A packet has the key of every connection it matches: the bigger port is *)
(* the same in both directions.                                            *)
LEMMA MatchHasKey ==
  ASSUME Sorted, NEW h \in Headers, NEW c \in Reached(h)
  PROVE  PortMapKey(conn[c].ends) = PortMapKey(h)
<1>1. conn[c].ends \in [src : Endpoint, dst : Endpoint]
  BY DEF Sorted, Reached
<1>2. h \in Header
  BY HeadersAssumption
<1>3. /\ h.src.port \in Nat /\ h.dst.port \in Nat
      /\ conn[c].ends.src.port \in Nat /\ conn[c].ends.dst.port \in Nat
  BY <1>1, <1>2 DEF Header, Endpoint
<1>4. CASE Forward(h, c)
  <2>1. h.src = conn[c].ends.src /\ h.dst = conn[c].ends.dst
    BY <1>4 DEF Forward, Ends
  <2> QED BY <2>1 DEF PortMapKey
<1>5. CASE Backward(h, c)
  <2>1. h.src = conn[c].ends.dst /\ h.dst = conn[c].ends.src
    BY <1>5 DEF Backward
  <2> QED BY <1>3, <2>1 DEF PortMapKey
<1> QED BY <1>4, <1>5 DEF Reached

(* Once the search is past the connections of the key, everything the      *)
(* packet matches lies before it.                                          *)
LEMMA BehindTheKey ==
  ASSUME TypeOK, Sorted, pkt.hdr \in Headers, it \in 2..Len(connPool) + 1,
         HasKey(it - 1, pkt.hdr), ~HasKey(it, pkt.hdr),
         NEW j \in 1..Len(connPool), connPool[j] \in Reached(pkt.hdr)
  PROVE  j \in 1..it - 1
<1>1. Len(connPool) \in Nat /\ \A i \in 1..Len(connPool) : connPool[i] \in LiveConns
  BY PoolFacts
<1>2. \A i \in 1..Len(connPool) : KeyAt(i) \in Nat
  BY <1>1, KeyFacts DEF Sorted, KeyAt
<1>3. KeyAt(j) = PortMapKey(pkt.hdr)
  BY MatchHasKey DEF KeyAt
<1>4. it - 1 \in 1..Len(connPool) /\ KeyAt(it - 1) = PortMapKey(pkt.hdr)
  BY DEF HasKey, KeyAt
<1>5. it \in 1..Len(connPool) => KeyAt(it) # PortMapKey(pkt.hdr)
  BY DEF HasKey, KeyAt
<1>6. ASSUME j > it - 1 PROVE FALSE
  <2>1. it \in 1..Len(connPool) /\ j >= it
    BY <1>1, <1>6
  <2>2. KeyAt(it - 1) <= KeyAt(it)
    BY <1>1, <1>4, <2>1 DEF Sorted
  <2>3. it # j
    BY <1>3, <1>5, <2>1
  <2>4. KeyAt(it) <= KeyAt(j)
    BY <1>1, <2>1, <2>3 DEF Sorted
  <2> QED BY <1>2, <1>3, <1>4, <1>5, <2>1, <2>2, <2>4
<1> QED BY <1>1, <1>6

-----------------------------------------------------------------------------
(* The pool stays sorted.                                                  *)

EndsKept ==
  /\ connPool' = connPool
  /\ \A c \in LiveConns : conn'[c].ends = conn[c].ends

(* As long as no connection comes, goes or changes its ends, the pool is   *)
(* sorted and the packet matches the same connections.                     *)
LEMMA ViewKept ==
  ASSUME TypeOK, EndsKept
  PROVE  /\ LiveConns' = LiveConns
         /\ Sorted => Sorted'
         /\ \A h : Reached(h)' = Reached(h)
         /\ \A h : \A i \in 1..Len(connPool) :
              PortMapKey(conn'[connPool'[i]].ends) = KeyAt(i)
<1>1. LiveConns' = LiveConns /\ connPool' = connPool
  BY DEF EndsKept, LiveConns
<1>2. \A c \in LiveConns : conn'[c].ends = conn[c].ends
  BY DEF EndsKept
<1>3. \A i \in 1..Len(connPool) : connPool[i] \in LiveConns
  BY PoolFacts
<1>4. \A i \in 1..Len(connPool) : KeyAt(i)' = KeyAt(i)
  BY <1>1, <1>2, <1>3 DEF KeyAt
<1>5. Sorted => Sorted'
  BY <1>1, <1>2, <1>3 DEF Sorted, KeyAt
<1>6. \A h : Reached(h)' = Reached(h)
  BY <1>1, <1>2 DEF Reached, Forward, Backward
<1> QED BY <1>1, <1>2, <1>3, <1>5, <1>6 DEF KeyAt

(* Erasing a connection from the multimap.                                 *)
LEMMA SortedWithout ==
  ASSUME TypeOK, NoDangling, Sorted, NEW c \in LiveConns,
         connPool' = RemoveAt(connPool, Position(connPool, c)),
         \A d \in LiveConns \ {c} : conn'[d].ends = conn[d].ends
  PROVE  Sorted'
<1> DEFINE n == Len(connPool)
           p == Position(connPool, c)
<1>1. connPool \in Seq(ConnIds) /\ IsInjective(connPool) /\ c \in ToSet(connPool)
      /\ n \in Nat /\ DOMAIN connPool = 1..n
      /\ \A i \in 1..n : connPool[i] \in LiveConns
  BY PoolFacts DEF TypeOK, NoDangling, LiveConns
<1>2. p \in 1..n /\ connPool[p] = c
  <2>1. connPool \in Seq(ConnIds) /\ c \in ToSet(connPool)
    BY <1>1
  <2> QED BY ONLY <2>1, PositionFacts
<1>3. /\ Len(connPool') = n - 1
      /\ \A j \in 1..p - 1 : connPool'[j] = connPool[j]
      /\ \A j \in p..n - 1 : connPool'[j] = connPool[j + 1]
      /\ ToSet(connPool') = ToSet(connPool) \ {connPool[p]}
  <2>1. connPool \in Seq(ConnIds) /\ IsInjective(connPool) /\ p \in 1..n
    BY <1>1, <1>2
  <2>2. connPool' = RemoveAt(connPool, p)
    OBVIOUS
  <2> HIDE DEF p
  <2>3. /\ Len(RemoveAt(connPool, p)) = n - 1
        /\ \A j \in 1..p - 1 : RemoveAt(connPool, p)[j] = connPool[j]
        /\ \A j \in p..n - 1 : RemoveAt(connPool, p)[j] = connPool[j + 1]
    BY <2>1, RemoveAtElements
  <2>4. ToSet(RemoveAt(connPool, p)) = ToSet(connPool) \ {connPool[p]}
    BY <2>1, RemoveAtFacts
  <2> QED BY <2>2, <2>3, <2>4
<1>4. LiveConns' = LiveConns \ {c}
  BY <1>2, <1>3 DEF LiveConns
<1> DEFINE o(j) == IF j < p THEN j ELSE j + 1
<1> HIDE DEF n, p
<1>5. \A j \in 1..n - 1 : /\ o(j) \in 1..n /\ o(j) # p
                          /\ connPool'[j] = connPool[o(j)]
  BY <1>1, <1>2, <1>3
<1>6. \A i, j \in 1..n - 1 : i < j => o(i) < o(j)
  BY <1>1, <1>2
<1> HIDE DEF o
<1>7. \A j \in 1..n - 1 : connPool[o(j)] \in LiveConns \ {c}
  BY <1>1, <1>2, <1>5 DEF IsInjective
<1>8. ASSUME NEW i \in 1..n - 1, NEW j \in 1..n - 1, i < j
      PROVE  KeyAt(i)' <= KeyAt(j)'
  <2>1. KeyAt(o(i)) <= KeyAt(o(j))
    BY <1>5, <1>6, <1>8 DEF Sorted, n
  <2>2. KeyAt(i)' = KeyAt(o(i)) /\ KeyAt(j)' = KeyAt(o(j))
    BY <1>5, <1>7 DEF KeyAt
  <2> QED BY <2>1, <2>2
<1>9. \A d \in LiveConns' : conn'[d].ends \in [src : Endpoint, dst : Endpoint]
  BY <1>4 DEF Sorted
<1> QED BY <1>3, <1>8, <1>9 DEF Sorted

(* multimap::insert: what it counts is the connections before the place.   *)
LEMMA InsertPosSplits ==
  ASSUME TypeOK, Sorted, NEW h \in Headers
  PROVE  /\ InsertPos(h) \in 1..Len(connPool) + 1
         /\ \A i \in 1..InsertPos(h) - 1 : KeyAt(i) <= PortMapKey(h)
         /\ \A i \in InsertPos(h)..Len(connPool) : PortMapKey(h) <= KeyAt(i)
<1> DEFINE n == Len(connPool)
           below == {i \in 1..n : KeyAt(i) <= PortMapKey(h)}
<1>1. n \in Nat /\ \A i \in 1..n : connPool[i] \in LiveConns
  BY PoolFacts
<1>2. \A i \in 1..n : KeyAt(i) \in Nat
  BY <1>1, KeyFacts DEF Sorted, KeyAt
<1>3. PortMapKey(h) \in Nat
  BY KeyFacts
<1>4. \A i \in below, j \in 1..n : j < i => j \in below
  <2> SUFFICES ASSUME NEW i \in below, NEW j \in 1..n, j < i
               PROVE  KeyAt(j) <= PortMapKey(h)
    OBVIOUS
  <2>1. KeyAt(j) <= KeyAt(i)
    BY DEF Sorted
  <2> QED BY <1>2, <1>3, <2>1
<1>5. below \in SUBSET (1..n)
  OBVIOUS
<1>6. InsertPos(h) = 1 + Cardinality(below)
  BY Zenon DEF InsertPos, KeyAt
<1>7. InsertPos(h) \in 1..n + 1
  BY InsertPosType
<1> HIDE DEF below, n
<1>8. below = 1..Cardinality(below)
  BY <1>1, <1>4, <1>5, FirstPositions
<1>9. Cardinality(below) \in Nat
  <2>1. 1 \in Int /\ n \in Int
    BY <1>1
  <2>2. IsFiniteSet(1..n)
    BY <2>1, FS_Interval, Zenon
  <2> QED BY <1>5, <2>2, FS_Subset, FS_CardinalityType
<1>10. \A i \in 1..InsertPos(h) - 1 : i \in below
  BY <1>6, <1>8, <1>9
<1>11. \A i \in InsertPos(h)..n : i \in 1..n /\ i \notin below
  BY <1>1, <1>6, <1>7, <1>8, <1>9
<1> QED BY <1>2, <1>3, <1>7, <1>10, <1>11 DEF below, n

(* A SYN inserts its connection where the order is kept.                   *)
LEMMA SortedWith ==
  ASSUME IInv, Sorted, NEW h \in Headers, NEW t \in Times, NEW c \in ConnIds,
         CaptureSyn(h, t, c)
  PROVE  Sorted'
<1> DEFINE n == Len(connPool)
<1>1. /\ TypeOK /\ connPool \in Seq(ConnIds) /\ n \in Nat
      /\ IsInjective(connPool)
      /\ LiveConns \subseteq ConnIds
      /\ \A i \in 1..n : connPool[i] \in LiveConns
  BY PoolFacts DEF IInv, TypeOK, NoDangling
<1>2. /\ c \notin LiveConns /\ connPool' = InsertAt(connPool, InsertPos(h), c)
      /\ conn' = [conn EXCEPT ![c] = NewConn(h, t)]
  BY DEF CaptureSyn
<1>3. PICK p \in 1..n + 1 :
        /\ p = InsertPos(h)
        /\ \A i \in 1..p - 1 : KeyAt(i) <= PortMapKey(h)
        /\ \A i \in p..n : PortMapKey(h) <= KeyAt(i)
  BY <1>1, InsertPosSplits
<1>4. /\ Len(connPool') = n + 1
      /\ \A j \in 1..p - 1 : connPool'[j] = connPool[j]
      /\ connPool'[p] = c
      /\ \A j \in p + 1..n + 1 : connPool'[j] = connPool[j - 1]
  <2>1. PICK q \in Seq(ConnIds) : q = connPool
    BY <1>1
  <2>2. PICK r : r = InsertAt(q, p, c)
    OBVIOUS
  <2>3. p \in 1..Len(q) + 1
    BY <2>1
  <2>4. /\ Len(r) = Len(q) + 1
        /\ \A j \in 1..p - 1 : r[j] = q[j]
        /\ r[p] = c
        /\ \A j \in p + 1..Len(q) + 1 : r[j] = q[j - 1]
    <3>1. q \in Seq(ConnIds) /\ c \in ConnIds
      OBVIOUS
    <3>2. /\ Len(InsertAt(q, p, c)) = Len(q) + 1
          /\ \A j \in 1..p - 1 : InsertAt(q, p, c)[j] = q[j]
          /\ InsertAt(q, p, c)[p] = c
          /\ \A j \in p + 1..Len(q) + 1 : InsertAt(q, p, c)[j] = q[j - 1]
      BY ONLY <2>3, <3>1, InsertAtElements
    <3> QED BY <2>2, <3>2, Zenon
  <2>5. connPool' = r
    BY <1>2, <1>3, <2>1, <2>2
  <2> QED BY <2>1, <2>4, <2>5
<1>5. LiveConns' = LiveConns \cup {c}
  BY <1>1, <1>2, <1>3, InsertAtFacts DEF LiveConns
<1>6. /\ conn'[c].ends = Ends(h)
      /\ \A d \in LiveConns : conn'[d] = conn[d]
  BY <1>1, <1>2 DEF TypeOK, NewConn
<1>7. Ends(h) \in [src : Endpoint, dst : Endpoint]
      /\ PortMapKey(Ends(h)) = PortMapKey(h)
  BY HeadersAssumption DEF Ends, Header, PortMapKey
<1>8. \A d \in LiveConns' : conn'[d].ends \in [src : Endpoint, dst : Endpoint]
  BY <1>5, <1>6, <1>7 DEF Sorted
<1>9. /\ \A j \in 1..p - 1 : KeyAt(j)' = KeyAt(j)
      /\ KeyAt(p)' = PortMapKey(h)
      /\ \A j \in p + 1..n + 1 : KeyAt(j)' = KeyAt(j - 1)
  <2>1. ASSUME NEW j \in 1..p - 1 PROVE KeyAt(j)' = KeyAt(j)
    <3>1. j \in 1..n
      BY <1>1, <1>3
    <3> QED BY <3>1, <1>1, <1>4, <1>6 DEF KeyAt
  <2>2. PortMapKey(conn'[connPool'[p]].ends) = PortMapKey(h)
    BY <1>4, <1>6, <1>7
  <2>3. ASSUME NEW j \in p + 1..n + 1 PROVE KeyAt(j)' = KeyAt(j - 1)
    <3>1. j - 1 \in 1..n
      BY <1>1, <1>3
    <3> QED BY <3>1, <1>1, <1>4, <1>6 DEF KeyAt
  <2> QED BY <2>1, <2>2, <2>3 DEF KeyAt
<1>10. ASSUME NEW i \in 1..n + 1, NEW j \in 1..n + 1, i < j
       PROVE  KeyAt(i)' <= KeyAt(j)'
  <2>1. \A k, l \in 1..n : k < l => KeyAt(k) <= KeyAt(l)
    BY DEF Sorted
  <2>2. CASE j < p
    BY <1>1, <1>3, <1>9, <1>10, <2>1, <2>2
  <2>3. CASE j = p
    BY <1>1, <1>3, <1>9, <1>10, <2>3
  <2>4. CASE i = p
    BY <1>1, <1>3, <1>9, <1>10, <2>4
  <2>5. CASE i < p /\ j > p
    <3>1. i \in 1..n /\ j - 1 \in 1..n /\ i \in 1..p - 1 /\ j - 1 \in p..n
      BY <1>1, <1>3, <2>5
    <3>2. i < j - 1
      BY <1>3, <2>5
    <3> QED BY <3>1, <3>2, <1>9, <2>1, <2>5
  <2>6. CASE i > p /\ j > p
    <3>1. i - 1 \in 1..n /\ j - 1 \in 1..n /\ i - 1 < j - 1
      BY <1>1, <1>3, <1>10, <2>6
    <3>2. i \in p + 1..n + 1 /\ j \in p + 1..n + 1
      BY <1>1, <1>3, <2>6
    <3> QED BY <3>1, <3>2, <1>9, <2>1
  <2> QED BY <1>3, <1>10, <2>2, <2>3, <2>4, <2>5, <2>6
<1> QED BY <1>4, <1>8, <1>10 DEF Sorted

(* The steps that leave the pool of connections and their ends alone.      *)
LEMMA EndsKeptBy ==
  ASSUME TypeOK,
         \/ UNCHANGED vars
         \/ \E t \in Times : CaptureOther(t)
         \/ \E t \in Times, h \in Headers :
              CaptureDiscard(h, t) \/ CaptureSearch(h, t)
         \/ SearchNext
         \/ DeletePacket \/ SkipGc \/ StartGc \/ GcStreamsDone \/ GcConnKeep
         \/ GcDone
  PROVE  EndsKept
<1>1. LiveConns \subseteq ConnIds /\ conn \in [ConnIds -> TcpConn]
  BY PoolFacts DEF TypeOK
<1>2. CASE UNCHANGED <<connPool, conn>>
  BY <1>2 DEF EndsKept
<1>3. CASE SearchNext
  <2>1. CASE SearchDone \/ NextConn \/ (\E c \in ConnIds : Skip(c))
    BY <2>1, <1>2 DEF SearchDone, NextConn, Skip
  <2>2. ASSUME NEW c \in ConnIds, NEW dir \in {"C2S", "S2C"},
               ContinueAccept(c, dir) \/ ContinueReject(c, dir)
        PROVE  EndsKept
    BY <2>2, <1>2 DEF ContinueAccept, ContinueReject
  <2>3. ASSUME NEW c \in ConnIds, NEW s \in StreamIds,
               NEW dir \in {"C2S", "S2C"},
               AttachStream(c, s, dir), connPool' = connPool
        PROVE  EndsKept
    <3>1. conn' = [conn EXCEPT ![c] = [[[conn[c] EXCEPT
                     !.streams = Append(conn[c].streams, s)] EXCEPT
                     !.updated = pkt.ts] EXCEPT !.prev = dir]]
      BY <2>3 DEF AttachStream
    <3>2. conn'[c].ends = conn[c].ends
      BY <3>1, <1>1 DEF TcpConn
    <3>3. \A d \in LiveConns \ {c} : conn'[d] = conn[d]
      BY <3>1, <1>1
    <3> QED BY <3>2, <3>3, <2>3 DEF EndsKept
  <2>4. ASSUME NEW c \in ConnIds, NEW s \in StreamIds,
               NEW dir \in {"C2S", "S2C"}, Open(c, s, dir)
        PROVE  EndsKept
    BY <2>3, <2>4 DEF Open
  <2>5. ASSUME NEW c \in ConnIds, NEW s \in StreamIds,
               TurnForward(c, s) \/ TurnBackward(c, s)
        PROVE  EndsKept
    BY <2>3, <2>5 DEF TurnForward, TurnBackward, Turn
  <2>6. CASE Close
    <3>1. connPool' = connPool
      BY <2>6 DEF Close
    <3>2. CASE conn' = conn
      BY <3>1, <3>2 DEF EndsKept
    <3>3. CASE conn' = [conn EXCEPT ![connPool[it]].ended = TRUE]
      BY <3>1, <3>3, <1>1 DEF EndsKept, TcpConn
    <3> QED BY <2>6, <3>2, <3>3 DEF Close
  <2> QED BY <1>3, <2>1, <2>2, <2>4, <2>5, <2>6 DEF SearchNext
<1> QED BY <1>2, <1>3
        DEF vars, CaptureOther, CaptureDiscard, CaptureSearch, DeletePacket,
            SkipGc, StartGc, GcStreamsDone, GcConnKeep, GcDone, FinishPacket

(* A destructor takes at most one connection out of the pool.              *)
LEMMA DestructorSorted ==
  ASSUME IInv, Sorted,
         DeleteEnded \/ (\E s \in StreamIds : GcStream(s)) \/ GcConnExpired
  PROVE  Sorted'
<1>1. TypeOK /\ NoDangling /\ LiveConns \subseteq ConnIds
      /\ conn \in [ConnIds -> TcpConn]
  BY PoolFacts DEF IInv, TypeOK
<1>2. ASSUME NEW s \in streamPool, DeleteStream(s) PROVE Sorted'
  <2>1. PICK c \in LiveConns : c = stream[s].conn
    BY <1>1 DEF NoDangling
  <2>2. CASE /\ connPool' = RemoveAt(connPool, Position(connPool, c))
             /\ conn' = [conn EXCEPT ![c] = FreeConn]
    <3>1. \A d \in LiveConns \ {c} : conn'[d].ends = conn[d].ends
      BY <1>1, <2>2
    <3> QED BY <1>1, <2>2, <3>1, SortedWithout
  <2>3. CASE /\ connPool' = connPool
             /\ \E left : conn' = [conn EXCEPT ![c].streams = left]
    <3>1. EndsKept
      BY <1>1, <2>3 DEF EndsKept, TcpConn
    <3> QED BY <1>1, <3>1, ViewKept
  <2> QED BY <1>2, <2>1, <2>2, <2>3 DEF DeleteStream
<1>3. CASE DeleteEnded
  <2>1. Head(endList) \in streamPool /\ DeleteStream(Head(endList))
    <3>1. endList \in Seq(StreamIds) /\ endList # << >>
      BY <1>1, <1>3 DEF DeleteEnded, TypeOK
    <3>2. Head(endList) \in ToSet(endList)
      BY <3>1, TailFacts
    <3> QED BY <1>3, <3>2 DEF DeleteEnded, IInv, EndListSound
  <2> QED BY <1>2, <2>1
<1>4. ASSUME NEW s \in StreamIds, GcStream(s) PROVE Sorted'
  BY <1>2, <1>4 DEF GcStream
<1>5. CASE GcConnExpired
  <2>1. PICK bf \in BackAndForth(it, Len(connPool)) :
          \/ bf[2] <= Len(connPool) /\ DeleteConn(connPool[bf[2]])
          \/ UNCHANGED <<connPool, conn>>
    BY <1>5 DEF GcConnExpired
  <2>2. CASE UNCHANGED <<connPool, conn>>
    BY <1>1, <2>2, ViewKept DEF EndsKept
  <2>3. CASE bf[2] <= Len(connPool) /\ DeleteConn(connPool[bf[2]])
    <3>1. Len(connPool) \in Nat /\ it \in 1..Len(connPool)
      BY <1>1, <1>5, PoolFacts DEF GcConnExpired, IInv, Control, TypeOK
    <3>2. bf[2] \in 1..Len(connPool)
      BY <2>3, <3>1, BackAndForthFacts
    <3>3. PICK c \in LiveConns : c = connPool[bf[2]]
      BY <1>1, <3>2, PoolFacts
    <3>4. /\ connPool' = RemoveAt(connPool, Position(connPool, c))
          /\ conn' = [conn EXCEPT ![c] = FreeConn]
      BY <2>3, <3>3 DEF DeleteConn
    <3>5. \A d \in LiveConns \ {c} : conn'[d].ends = conn[d].ends
      BY <1>1, <3>4
    <3> QED BY <1>1, <3>4, <3>5, SortedWithout
  <2> QED BY <2>1, <2>2, <2>3
<1> QED BY <1>3, <1>4, <1>5

LEMMA SortedStep ==
  ASSUME IInv, Sorted, [Next]_vars
  PROVE  Sorted'
<1>1. TypeOK
  BY DEF IInv
<1>2. CASE \E t \in Times, h \in Headers, c \in ConnIds : CaptureSyn(h, t, c)
  BY <1>2, SortedWith
<1>3. CASE DeleteEnded \/ (\E s \in StreamIds : GcStream(s)) \/ GcConnExpired
  BY <1>3, DestructorSorted
<1>4. CASE \/ UNCHANGED vars
           \/ \E t \in Times : CaptureOther(t)
           \/ \E t \in Times, h \in Headers :
                CaptureDiscard(h, t) \/ CaptureSearch(h, t)
           \/ SearchNext
           \/ DeletePacket \/ SkipGc \/ StartGc \/ GcStreamsDone \/ GcConnKeep
           \/ GcDone
  BY <1>1, <1>4, EndsKeptBy, ViewKept
<1> QED BY <1>2, <1>3, <1>4 DEF Next, CaptureNext, Process, CleanNext

-----------------------------------------------------------------------------
(* The packet and the streams that took it.                                *)

StreamsKept ==
  /\ streamPool \subseteq streamPool'
  /\ \A s \in streamPool : /\ stream'[s].dir = stream[s].dir
                           /\ stream'[s].conn = stream[s].conn

(* A stream that has taken the packet keeps its direction and connection,  *)
(* and the connection its ends; so it still is one the packet belongs to.  *)
LEMMA TakenKept ==
  ASSUME NoDangling, PacketInItsStreams, EndsKept, StreamsKept,
         pkt'.hdr = pkt.hdr
  PROVE  \A s \in pkt.taken :
           /\ s \in streamPool'
           /\ IF stream'[s].dir = "C2S"
              THEN Forward(pkt.hdr, stream[s].conn)'
              ELSE Backward(pkt.hdr, stream[s].conn)'
<1> SUFFICES ASSUME NEW s \in pkt.taken
             PROVE  /\ s \in streamPool'
                    /\ IF stream'[s].dir = "C2S"
                       THEN Forward(pkt.hdr, stream[s].conn)'
                       ELSE Backward(pkt.hdr, stream[s].conn)'
  OBVIOUS
<1>1. /\ s \in streamPool
      /\ IF stream[s].dir = "C2S" THEN Forward(pkt.hdr, stream[s].conn)
         ELSE Backward(pkt.hdr, stream[s].conn)
  BY DEF PacketInItsStreams
<1>2. /\ s \in streamPool' /\ stream'[s].dir = stream[s].dir
      /\ stream'[s].conn = stream[s].conn
  BY <1>1 DEF StreamsKept
<1>3. conn'[stream[s].conn].ends = conn[stream[s].conn].ends
  BY <1>1 DEF NoDangling, EndsKept
<1>4. /\ Forward(pkt.hdr, stream[s].conn)' <=> Forward(pkt.hdr, stream[s].conn)
      /\ Backward(pkt.hdr, stream[s].conn)' <=> Backward(pkt.hdr, stream[s].conn)
  BY <1>2, <1>3 DEF Forward, Backward
<1> QED BY <1>1, <1>2, <1>4

LEMMA PacketKept ==
  ASSUME NoDangling, PacketInItsStreams, EndsKept, StreamsKept,
         pkt'.hdr = pkt.hdr, pkt'.taken = pkt.taken, pkt'.stream = pkt.stream
  PROVE  PacketInItsStreams'
BY TakenKept DEF PacketInItsStreams

(* A stream takes the packet.                                              *)
LEMMA PacketAccepted ==
  ASSUME TypeOK, NoDangling, PacketInItsStreams, EndsKept, StreamsKept,
         NEW c \in LiveConns, NEW s \in streamPool', NEW dir \in {"C2S", "S2C"},
         IF dir = "C2S" THEN Forward(pkt.hdr, c) ELSE Backward(pkt.hdr, c),
         stream'[s].dir = dir, stream'[s].conn = c, pkt' = AcceptedBy(s)
  PROVE  /\ PacketInItsStreams'
         /\ pkt'.hdr = pkt.hdr /\ pkt'.taken # {}
<1>1. /\ pkt'.hdr = pkt.hdr /\ pkt'.taken = pkt.taken \cup {s}
      /\ pkt'.stream = s
  BY DEF AcceptedBy, TypeOK, Packet
<1>2. conn'[c].ends = conn[c].ends
  BY DEF EndsKept
<1>3. IF stream'[s].dir = "C2S" THEN Forward(pkt.hdr, stream[s].conn)'
      ELSE Backward(pkt.hdr, stream[s].conn)'
  BY <1>1, <1>2 DEF Forward, Backward
<1>4. \A r \in pkt.taken :
        /\ r \in streamPool'
        /\ IF stream'[r].dir = "C2S" THEN Forward(pkt.hdr, stream[r].conn)'
           ELSE Backward(pkt.hdr, stream[r].conn)'
  BY <1>1, TakenKept
<1> QED BY <1>1, <1>3, <1>4 DEF PacketInItsStreams

(* The packet is gone, or has just come.                                   *)
LEMMA PacketInNone ==
  ASSUME pkt'.taken = {}, pkt'.stream = None
  PROVE  PacketInItsStreams' /\ PacketGone'
BY DEF PacketInItsStreams, PacketGone

-----------------------------------------------------------------------------
(* The steps.                                                              *)

(* A packet the search is not made for, or finds nothing for: it is in no  *)
(* stream and not marked, and it has ended nothing.                        *)
LEMMA NothingDone ==
  ASSUME ~Found', \A c \in LiveConns' : ~conn'[c].ended,
         pkt'.hdr # None => ~Owed(pkt'.hdr) \/ Reached(pkt.hdr)' = {}
  PROVE  DropInv' /\ EndInv'
<1>1. Searched' => pkt'.hdr # None
  BY DEF Searched
<1>2. \A c : Reached(pkt.hdr)' = {} => ~OldestReached(pkt.hdr, c)'
  BY DEF OldestReached
<1>3. Owed(pkt.hdr)' <=> Owed(pkt'.hdr)
  BY DEF Owed, NotSyn, Discarded
<1> QED BY <1>1, <1>2, <1>3 DEF DropInv, EndInv

LEMMA CaptureKeeps ==
  ASSUME IInv, SInv, Sorted', CaptureNext
  PROVE  SInv'
<1>1. TypeOK /\ NoDangling /\ Control /\ Sorted
  BY DEF IInv, SInv
<1>2. PICK h \in Headers \cup {None}, t \in Times :
        /\ Capture(h, t)
        /\ \/ CaptureOther(t) /\ h = None
           \/ h \in Headers /\ CaptureDiscard(h, t)
           \/ h \in Headers /\ CaptureSearch(h, t)
           \/ h \in Headers /\ \E c \in ConnIds : CaptureSyn(h, t, c)
  BY DEF CaptureNext, CaptureOther, CaptureDiscard, CaptureSearch, CaptureSyn
<1>3. /\ pkt'.hdr = h /\ pkt'.taken = {} /\ pkt'.stream = None
      /\ pkt'.error = FALSE
      /\ pc = "idle" /\ endList = << >>
  BY <1>1, <1>2 DEF Capture, NewPacket, Control
<1> \A c \in LiveConns : ~conn[c].ended
  BY <1>3, AtMostOne
<1> ~Found'
  BY <1>3 DEF Found
<1>4. PacketInItsStreams' /\ PacketGone'
  BY <1>3, PacketInNone
<1>5. CASE CaptureOther(t) /\ h = None
  <2>1. pc' = "clean" /\ ~Searched'
    BY <1>3, <1>5 DEF CaptureOther, Searched
  <2> QED BY <1>4, <2>1 DEF SInv, Searching, DropInv, EndInv
<1>6. ASSUME h \in Headers, NEW c \in ConnIds, CaptureSyn(h, t, c)
      PROVE  SInv'
  <2>1. pc' = "clean" /\ ~Owed(h)
    BY <1>6 DEF CaptureSyn, Owed, NotSyn
  <2>2. /\ c \notin LiveConns /\ connPool' = InsertAt(connPool, InsertPos(h), c)
        /\ conn' = [conn EXCEPT ![c] = NewConn(h, t)]
    BY <1>6 DEF CaptureSyn
  <2>3. LiveConns' = LiveConns \cup {c}
    <3>1. connPool \in Seq(ConnIds) /\ IsInjective(connPool)
          /\ InsertPos(h) \in 1..Len(connPool) + 1
      BY <1>1, InsertPosType DEF TypeOK, NoDangling
    <3> QED BY <2>2, <3>1, InsertAtFacts DEF LiveConns
  <2>4. \A d \in LiveConns' : ~conn'[d].ended
    BY <1>1, <2>2, <2>3, PoolFacts DEF TypeOK, NewConn
  <2>5. DropInv' /\ EndInv'
    BY <1>3, <2>1, <2>4, NothingDone
  <2> QED BY <1>4, <2>1, <2>5 DEF SInv, Searching
<1>7. CASE h \in Headers /\ CaptureDiscard(h, t)
  <2>1. EndsKept /\ pc' = "clean"
    BY <1>1, <1>7, EndsKeptBy DEF CaptureDiscard
  <2>2. Reached(pkt.hdr)' = Reached(h)
    BY <2>1, <1>3 DEF EndsKept, Reached, Forward, Backward, LiveConns
  <2>3. Discarded(h) \/ Reached(h) = {}
    <3> SUFFICES ASSUME NEW c \in Reached(h),
                        \A i \in 1..Len(connPool) : ~HasKey(i, h)
                 PROVE  FALSE
      BY <1>7 DEF CaptureDiscard
    <3>1. PICK i \in 1..Len(connPool) : c = connPool[i]
      BY <1>1, PoolFacts DEF Reached, LiveConns, ToSet
    <3>2. PortMapKey(conn[c].ends) = PortMapKey(h)
      BY <1>1, <1>7, MatchHasKey
    <3> QED BY <3>1, <3>2 DEF HasKey
  <2>4. \A c \in LiveConns' : ~conn'[c].ended
    BY <1>7 DEF CaptureDiscard, LiveConns
  <2>5. DropInv' /\ EndInv'
    BY <1>3, <2>2, <2>3, <2>4, NothingDone DEF Owed
  <2> QED BY <1>4, <2>1, <2>5 DEF SInv, Searching
<1>8. CASE h \in Headers /\ CaptureSearch(h, t)
  <2>1. EndsKept /\ pc' = "search" /\ endList' = endList
    BY <1>1, <1>8, EndsKeptBy DEF CaptureSearch
  <2>2. PICK i \in 1..Len(connPool) :
          /\ it' = i /\ HasKey(i, h)
          /\ \A j \in 1..i - 1 : ~HasKey(j, h)
          /\ NotSyn(h) /\ ~Discarded(h)
    BY <1>8 DEF CaptureSearch
  <2>3. Reached(pkt.hdr)' = Reached(h) /\ connPool' = connPool
    BY <2>1, <1>3 DEF EndsKept, Reached, Forward, Backward, LiveConns
  <2>4. /\ Len(connPool) \in Nat
        /\ \A k \in 1..Len(connPool) : connPool[k] \in LiveConns
    BY <1>1, PoolFacts
  <2>5. HasKey(it, pkt.hdr)'
    BY <1>3, <2>1, <2>2, <2>4 DEF HasKey, EndsKept
  <2>6. NoneBefore'
    <3> SUFFICES ASSUME NEW j \in 1..i - 1, connPool[j] \in Reached(h)
                 PROVE  FALSE
      BY <2>2, <2>3 DEF NoneBefore
    <3>1. j \in 1..Len(connPool)
      BY <2>4
    <3>2. PortMapKey(conn[connPool[j]].ends) = PortMapKey(h)
      BY <1>1, <1>8, MatchHasKey
    <3> QED BY <2>2, <3>1, <3>2 DEF HasKey
  <2>7. it' \in 1..Len(connPool') + 1
    BY <2>2, <2>3, <2>4
  <2>8. Searching'
    BY <1>3, <1>8, <2>1, <2>2, <2>5, <2>6, <2>7 DEF Searching
  <2> QED BY <1>4, <2>1, <2>8 DEF SInv, Searched, DropInv, EndInv
<1> QED BY <1>2, <1>5, <1>6, <1>7, <1>8

(* PacketClean: the packet goes before anything else does.                 *)
LEMMA CleanKeeps ==
  ASSUME IInv, SInv, Sorted', CleanNext
  PROVE  SInv'
<1>1. pkt \in Packet
  BY DEF IInv, TypeOK
<1>2. pc' \notin {"search", "flags", "clean"}
  BY DEF CleanNext, DeletePacket, DeleteEnded, SkipGc, StartGc, GcStream,
         GcStreamsDone, GcConnKeep, GcConnExpired, GcDone, FinishPacket
<1>3. pkt'.taken = {} /\ pkt'.stream = None
  <2>1. CASE DeletePacket \/ SkipGc \/ GcDone
    BY <2>1 DEF DeletePacket, SkipGc, GcDone, FinishPacket, NoPacket, NewPacket
  <2>2. CASE ~(DeletePacket \/ SkipGc \/ GcDone)
    <3>1. pc \in {"ends", "streams", "conns"} /\ pkt' = pkt
      BY <2>2 DEF CleanNext, DeleteEnded, StartGc, GcStream, GcStreamsDone,
                  GcConnKeep, GcConnExpired
    <3> QED BY <3>1 DEF SInv, PacketGone
  <2> QED BY <2>1, <2>2
<1>4. PacketInItsStreams' /\ PacketGone'
  BY <1>3, PacketInNone
<1>5. Searching' /\ DropInv' /\ EndInv'
  BY <1>2 DEF Searching, DropInv, EndInv, Searched
<1> QED BY <1>4, <1>5 DEF SInv

(* The connection the search is at, when the packet is one of its own.     *)
LEMMA VisitFacts ==
  ASSUME IInv, Searching, NEW c \in ConnIds, NEW dir \in {"C2S", "S2C"},
         Matches(c, dir)
  PROVE  /\ c \in LiveConns /\ it \in 1..Len(connPool) /\ c = connPool[it]
         /\ c \in Reached(pkt.hdr)
         /\ IF dir = "C2S" THEN Forward(pkt.hdr, c) ELSE Backward(pkt.hdr, c)
         /\ HasKey(it, pkt.hdr) /\ pc = "search"
         /\ ~conn[c].ended
<1>1. TypeOK /\ Control
  BY DEF IInv
<1>2. /\ Visiting(c)
      /\ IF dir = "C2S" THEN Forward(pkt.hdr, c) ELSE Backward(pkt.hdr, c)
  BY DEF Matches
<1>3. c \in LiveConns /\ it \in 1..Len(connPool) /\ c = connPool[it]
  BY <1>1, <1>2, PoolFacts
<1>4. c \in Reached(pkt.hdr)
  BY <1>2, <1>3 DEF Reached
<1>5. HasKey(it, pkt.hdr) /\ pc = "search"
  BY <1>2 DEF Visiting
<1>6. ~conn[c].ended
  BY <1>1, <1>3, <1>5 DEF Control
<1> QED BY <1>2, <1>3, <1>4, <1>5, <1>6

(* A step of the search that stays at the connection, having put the       *)
(* packet into a stream of it or marked the packet.                        *)
LEMMA MatchKeeps ==
  ASSUME IInv, SInv, Sorted', EndsKept, PacketInItsStreams',
         NEW c \in ConnIds, NEW dir \in {"C2S", "S2C"}, Matches(c, dir),
         pc' = "flags", it' = it, pkt'.hdr = pkt.hdr,
         pkt'.taken # {} \/ pkt'.error, Forward(pkt.hdr, c) => endList' = endList
  PROVE  SInv'
<1>1. TypeOK /\ Searching /\ pc = "search"
  BY VisitFacts DEF IInv, SInv
<1>2. /\ it \in 1..Len(connPool) /\ connPool[it] \in Reached(pkt.hdr)
      /\ HasKey(it, pkt.hdr) /\ c = connPool[it] /\ c \in LiveConns
  BY <1>1, VisitFacts
<1>3. Reached(pkt.hdr)' = Reached(pkt.hdr) /\ connPool' = connPool
  BY DEF EndsKept, Reached, Forward, Backward, LiveConns
<1>4. HasKey(it, pkt.hdr)'
  BY <1>1, <1>2, PoolFacts DEF HasKey, EndsKept
<1>5. NoneBefore' <=> NoneBefore
  BY <1>3 DEF NoneBefore
<1>6. Found'
  BY DEF Found
<1>7. /\ pkt.hdr \in Headers /\ NotSyn(pkt.hdr) /\ ~Discarded(pkt.hdr)
      /\ it \in 1..Len(connPool) + 1
      /\ Closes(pkt.hdr) => NoneBefore
  BY <1>1 DEF Searching
<1>8. /\ Found' => Reached(pkt.hdr)' # {}
      /\ Closes(pkt.hdr) /\ Forward(pkt.hdr, connPool[it])' => endList' = << >>
  <2>1. Forward(pkt.hdr, connPool[it])' <=> Forward(pkt.hdr, c)
    BY <1>2, <1>3 DEF Forward, EndsKept
  <2> QED BY <1>1, <1>2, <1>3, <2>1 DEF Searching
<1>9. Searching'
  BY <1>2, <1>3, <1>4, <1>5, <1>6, <1>7, <1>8 DEF Searching
<1>10. PacketGone' /\ DropInv' /\ EndInv'
  BY DEF PacketGone, DropInv, EndInv, Searched
<1> QED BY <1>9, <1>10 DEF SInv

LEMMA ContinueKeeps ==
  ASSUME IInv, SInv, Sorted', NEW c \in ConnIds, NEW dir \in {"C2S", "S2C"},
         ContinueAccept(c, dir) \/ ContinueReject(c, dir)
  PROVE  SInv'
<1>1. TypeOK /\ NoDangling /\ PacketInItsStreams /\ PrevDescribesLast
  BY DEF IInv, SInv
<1>2. Matches(c, dir) /\ conn[c].prev = dir /\ pc' = "flags" /\ it' = it
  BY DEF ContinueAccept, ContinueReject
<1>3. EndsKept
  BY <1>1, EndsKeptBy DEF SearchNext
<1>4. c \in LiveConns
      /\ IF dir = "C2S" THEN Forward(pkt.hdr, c) ELSE Backward(pkt.hdr, c)
  BY <1>2, VisitFacts DEF SInv
<1>5. CASE ContinueReject(c, dir)
  <2>1. /\ pkt'.hdr = pkt.hdr /\ pkt'.taken = pkt.taken
        /\ pkt'.stream = pkt.stream /\ pkt'.error = TRUE
    BY <1>1, <1>5 DEF ContinueReject, TypeOK, Packet
  <2>2. StreamsKept
    BY <1>5 DEF ContinueReject, StreamsKept
  <2>3. PacketInItsStreams'
    BY <1>1, <1>3, <2>1, <2>2, PacketKept
  <2> QED BY <1>2, <1>3, <1>5, <2>1, <2>3, MatchKeeps DEF ContinueReject
<1>6. CASE ContinueAccept(c, dir)
  <2> DEFINE last == LastStream(c)
  <2>1. /\ last \in streamPool /\ stream[last].conn = c
        /\ last \in StreamIds /\ stream[last].dir = dir
    BY <1>1, <1>2, <1>4, LastFacts DEF PrevDescribesLast, PrevDescribes
  <2>2. /\ stream' = [stream EXCEPT ![last] =
                        [[stream[last] EXCEPT !.state = "CONTINUE"] EXCEPT
                          !.updated = pkt.ts]]
        /\ streamPool' = streamPool /\ pkt' = AcceptedBy(last)
    BY <1>6 DEF ContinueAccept
  <2> HIDE DEF last
  <2>3. /\ stream'[last].dir = stream[last].dir
        /\ stream'[last].conn = stream[last].conn
        /\ \A s \in streamPool : s # last => stream'[s] = stream[s]
    BY <1>1, <2>1, <2>2 DEF TypeOK, Stream
  <2>4. StreamsKept
    BY <2>2, <2>3 DEF StreamsKept
  <2>5. PacketInItsStreams' /\ pkt'.hdr = pkt.hdr /\ pkt'.taken # {}
    <3>1. last \in streamPool' /\ stream'[last].dir = dir /\ stream'[last].conn = c
      BY <2>1, <2>2, <2>3
    <3> QED BY <1>1, <1>3, <1>4, <2>2, <2>4, <3>1, PacketAccepted
  <2> QED BY <1>2, <1>3, <1>6, <2>5, MatchKeeps DEF ContinueAccept
<1> QED BY <1>5, <1>6

(* A stream starts, and takes the packet.                                  *)
LEMMA StartFacts ==
  ASSUME IInv, SInv, EndsKept, NEW c \in ConnIds, NEW s \in StreamIds,
         NEW dir \in {"C2S", "S2C"}, Open(c, s, dir) \/ Turn(c, s, dir)
  PROVE  PacketInItsStreams' /\ pkt'.hdr = pkt.hdr /\ pkt'.taken # {}
<1>1. TypeOK /\ NoDangling /\ PacketInItsStreams /\ streamPool \subseteq StreamIds
  BY DEF IInv, SInv, TypeOK
<1>2. Matches(c, dir)
  BY DEF Open, Turn
<1>3. c \in LiveConns
      /\ IF dir = "C2S" THEN Forward(pkt.hdr, c) ELSE Backward(pkt.hdr, c)
  BY <1>2, VisitFacts DEF SInv
<1>4. /\ s \notin streamPool /\ streamPool' = streamPool \cup {s}
      /\ pkt' = AcceptedBy(s)
  BY DEF Open, Turn
<1>5. stream'[s] = NewStreamFor(c, dir) /\ StreamsKept
  <2>1. CASE Open(c, s, dir)
    <3>1. stream' = [stream EXCEPT ![s] = NewStreamFor(c, dir)]
      BY <2>1 DEF Open
    <3> QED BY <1>1, <1>4, <3>1 DEF TypeOK, StreamsKept
  <2>2. CASE Turn(c, s, dir)
    <3> DEFINE last == LastStream(c)
    <3>1. last \in streamPool /\ last \in StreamIds
      BY <1>3, <2>2, LastFacts DEF Turn
    <3>2. stream' = [stream EXCEPT ![last].state = "END",
                                   ![s] = NewStreamFor(c, dir)]
      BY <2>2 DEF Turn
    <3> HIDE DEF last
    <3>3. stream'[last] = [stream[last] EXCEPT !.state = "END"]
          /\ stream'[s] = NewStreamFor(c, dir)
          /\ \A r \in StreamIds \ {s, last} : stream'[r] = stream[r]
      BY <1>1, <1>4, <3>1, <3>2 DEF TypeOK
    <3>4. /\ stream'[last].dir = stream[last].dir
          /\ stream'[last].conn = stream[last].conn
      BY <1>1, <3>1, <3>3 DEF TypeOK, Stream
    <3> QED BY <1>1, <1>4, <3>3, <3>4 DEF StreamsKept
  <2> QED BY <2>1, <2>2
<1>6. stream'[s].dir = dir /\ stream'[s].conn = c
  BY <1>5 DEF NewStreamFor
<1> QED BY <1>1, <1>3, <1>4, <1>5, <1>6, PacketAccepted

(* If no connection before the iterator matches, the one it is at is the   *)
(* oldest that does.                                                       *)
LEMMA OldestMatch ==
  ASSUME TypeOK, NoDangling, NoneBefore, it \in 1..Len(connPool),
         NEW d \in Reached(pkt.hdr), d # connPool[it]
  PROVE  Position(connPool, connPool[it]) < Position(connPool, d)
<1>1. connPool \in Seq(ConnIds) /\ DOMAIN connPool = 1..Len(connPool)
      /\ Len(connPool) \in Nat
  BY PoolFacts DEF TypeOK
<1>2. \A i, j \in 1..Len(connPool) : connPool[i] = connPool[j] => i = j
  BY <1>1 DEF NoDangling, IsInjective
<1>3. connPool[it] \in ToSet(connPool) /\ d \in ToSet(connPool)
  BY <1>1 DEF ToSet, Reached, LiveConns
<1>4. Position(connPool, connPool[it]) = it
  BY <1>1, <1>2, <1>3, PositionFacts
<1>5. Position(connPool, d) \in 1..Len(connPool)
      /\ connPool[Position(connPool, d)] = d
  BY <1>1, <1>3, PositionFacts
<1>6. Position(connPool, d) \notin 1..it - 1
  BY <1>5 DEF NoneBefore
<1>7. Position(connPool, d) # it
  BY <1>5
<1> QED BY <1>1, <1>4, <1>5, <1>6, <1>7

(* The search returns with the packet in a stream, or marked.              *)
LEMMA ReturnKeeps ==
  ASSUME IInv, SInv, Sorted', EndsKept, PacketInItsStreams',
         pc' = "clean", pkt'.hdr = pkt.hdr, pkt'.taken # {} \/ pkt'.error,
         it \in 1..Len(connPool), NoneBefore,
         pc \in {"search", "flags"}, Closes(pkt.hdr),
         connPool[it] \in Reached(pkt.hdr),
         \A d \in LiveConns \ {connPool[it]} : ~conn'[d].ended,
         conn'[connPool[it]].ended <=>
           ~(Forward(pkt.hdr, connPool[it])
               /\ Len(conn'[connPool[it]].streams) = 2)
  PROVE  SInv'
<1>1. TypeOK /\ NoDangling
  BY DEF IInv
<1>2. Reached(pkt.hdr)' = Reached(pkt.hdr) /\ connPool' = connPool
      /\ LiveConns' = LiveConns
  BY DEF EndsKept, Reached, Forward, Backward, LiveConns
<1>3. PICK c \in Reached(pkt.hdr) : c = connPool[it]
  OBVIOUS
<1>4. \A d \in Reached(pkt.hdr) \ {c} :
        Position(connPool, c) < Position(connPool, d)
  BY <1>1, <1>3, OldestMatch
<1>5. \A d \in Reached(pkt.hdr) : Position(connPool, d) \in Int
  <2> SUFFICES ASSUME NEW d \in LiveConns PROVE Position(connPool, d) \in Int
    BY DEF Reached
  <2>1. connPool \in Seq(ConnIds) /\ d \in ToSet(connPool)
    BY <1>1 DEF TypeOK, LiveConns
  <2>2. Position(connPool, d) \in 1..Len(connPool)
    BY ONLY <2>1, PositionFacts
  <2> QED BY <2>2
<1>6. \A d \in LiveConns : OldestReached(pkt.hdr, d)' <=> d = c
  <2>1. \A d : OldestReached(pkt.hdr, d)' <=>
          /\ d \in Reached(pkt.hdr)
          /\ \A e \in Reached(pkt.hdr) :
               Position(connPool, d) <= Position(connPool, e)
    BY <1>2 DEF OldestReached
  <2>2. \A e \in Reached(pkt.hdr) :
          Position(connPool, c) <= Position(connPool, e)
    BY <1>4, <1>5
  <2>3. \A d \in Reached(pkt.hdr) \ {c} :
          ~(Position(connPool, d) <= Position(connPool, c))
    BY <1>4, <1>5
  <2> QED BY <2>1, <2>2, <2>3
<1>7. Owed(pkt.hdr)' /\ Closes(pkt.hdr)'
  BY DEF SInv, Searching, Owed, NotSyn, Discarded, Closes
<1>8. TurnedForward(pkt.hdr, c)' <=>
        Forward(pkt.hdr, c) /\ Len(conn'[c].streams) = 2
  BY <1>3 DEF TurnedForward, EndsKept, Reached, Forward
<1>9. EndInv'
  <2> SUFFICES ASSUME NEW d \in LiveConns
               PROVE  conn'[d].ended <=> /\ OldestReached(pkt.hdr, d)'
                                         /\ ~TurnedForward(pkt.hdr, d)'
    BY <1>2, <1>7 DEF EndInv
  <2>1. CASE d = c
    BY <1>3, <1>6, <1>8, <2>1
  <2>2. CASE d # c
    BY <1>3, <1>6, <2>2
  <2> QED BY <2>1, <2>2
<1>10. DropInv'
  <2>1. Found' /\ Reached(pkt.hdr)' # {}
    BY <1>2 DEF Found
  <2> QED BY <1>7, <2>1 DEF DropInv
<1>11. PacketGone' /\ Searching'
  BY DEF PacketGone, Searching
<1> QED BY <1>9, <1>10, <1>11 DEF SInv

(* The direction changes to C2S, and the search returns.                   *)
LEMMA TurnForwardKeeps ==
  ASSUME IInv, SInv, Sorted', NEW c \in ConnIds, NEW s \in StreamIds,
         TurnForward(c, s)
  PROVE  SInv'
<1>1. TypeOK /\ NoDangling /\ Searching /\ Control
  BY DEF IInv, SInv
<1>2. Turn(c, s, "C2S") /\ Matches(c, "C2S") /\ pc' = "clean"
  BY DEF TurnForward, Turn
<1>3. EndsKept
  BY <1>1, EndsKeptBy DEF SearchNext
<1>4. /\ c \in LiveConns /\ it \in 1..Len(connPool) /\ c = connPool[it]
      /\ c \in Reached(pkt.hdr) /\ Forward(pkt.hdr, c)
      /\ pc = "search"
  BY <1>1, <1>2, VisitFacts
<1>5. PacketInItsStreams' /\ pkt'.hdr = pkt.hdr /\ pkt'.taken # {}
  BY <1>2, <1>3, StartFacts
<1>6. CASE ~Closes(pkt.hdr)
  <2>1. \A d \in LiveConns : ~conn'[d].ended
    BY <1>1, <1>2, <1>4, AttachFacts, PoolFacts DEF Control, Turn
  <2>2. Reached(pkt.hdr)' = Reached(pkt.hdr) /\ LiveConns' = LiveConns
    BY <1>3, <1>5 DEF EndsKept, Reached, Forward, Backward, LiveConns
  <2>3. EndInv'
    BY <1>5, <1>6, <2>1, <2>2 DEF EndInv, Closes
  <2>4. Owed(pkt.hdr)'
    BY <1>1, <1>4, <1>5 DEF Searching, Owed, NotSyn, Discarded
  <2>5. DropInv'
    BY <1>4, <1>5, <2>2, <2>4 DEF DropInv, Found
  <2> QED BY <1>2, <1>5, <2>3, <2>5 DEF SInv, PacketGone, Searching
<1>7. CASE Closes(pkt.hdr)
  <2>1. NoneBefore /\ endList = << >>
    BY <1>1, <1>4, <1>7 DEF Searching
  <2>2. /\ conn'[c].streams = Append(conn[c].streams, s)
        /\ \A d \in ConnIds \ {c} : conn'[d] = conn[d]
    BY <1>1, <1>2, AttachFacts DEF Turn
  <2>3. \A d \in LiveConns : ~conn'[d].ended
    BY <1>1, <1>2, <1>4, AttachFacts, PoolFacts DEF Control, Turn
  <2>4. Len(conn[c].streams) \in {0, 1} /\ conn[c].streams \in Seq(StreamIds)
    BY <1>1, <1>4, <2>1, AtMostOne, ListFacts
  <2>5. Len(conn[c].streams) \in Nat \ {0}
    BY <1>2, <1>4, LastFacts DEF Turn
  <2>6. Len(Append(conn[c].streams, s)) = Len(conn[c].streams) + 1
    BY <2>4, AppendFacts
  <2>7. Len(conn[c].streams) = 1
    BY ONLY <2>4, <2>5
  <2>8. Len(conn'[c].streams) = 2
    BY <2>2, <2>6, <2>7
  <2> QED BY <1>2, <1>3, <1>4, <1>5, <1>7, <2>1, <2>3, <2>8, ReturnKeeps
<1> QED BY <1>6, <1>7

(* FIN or RST at a matching connection.                                    *)
LEMMA CloseKeeps ==
  ASSUME IInv, SInv, Sorted', Close
  PROVE  SInv'
<1>1. TypeOK /\ NoDangling /\ Searching /\ Control /\ PacketInItsStreams
      /\ PrevDescribesLast
  BY DEF IInv, SInv
<1>2. pc = "flags" /\ Closes(pkt.hdr) /\ pc' = "clean" /\ pkt' = pkt
      /\ streamPool' = streamPool
  BY DEF Close
<1>3. EndsKept
  BY <1>1, EndsKeptBy DEF SearchNext
<1>4. PICK c \in LiveConns : c = connPool[it]
  BY <1>1, <1>2, PoolFacts DEF Control
<1>5. /\ it \in 1..Len(connPool) /\ c \in Reached(pkt.hdr) /\ NoneBefore
      /\ Found /\ c \in ConnIds /\ conn[c].prev # "NEW" /\ ~conn[c].ended
  BY <1>1, <1>2, <1>4, PoolFacts DEF Searching, Control
<1> DEFINE last == LastStream(c)
<1>6. /\ last \in StreamIds /\ stream[last].state # "END"
  BY <1>1, <1>4, <1>5, LastFacts DEF PrevDescribesLast, PrevDescribes
<1>7. /\ stream' = [stream EXCEPT ![last].state = "END"]
      /\ conn' = [conn EXCEPT ![c].ended = TRUE]
  BY <1>4, <1>6 DEF Close
<1> HIDE DEF last
<1>8. StreamsKept
  BY <1>1, <1>2, <1>6, <1>7 DEF TypeOK, Stream, StreamsKept
<1>9. PacketInItsStreams'
  BY <1>1, <1>2, <1>3, <1>8, PacketKept
<1>10. conn'[c].ended /\ \A d \in ConnIds \ {c} : conn'[d] = conn[d]
  BY <1>1, <1>5, <1>7 DEF TypeOK, TcpConn
<1>11. \A d \in LiveConns \ {c} : ~conn'[d].ended
  BY <1>1, <1>2, <1>10, PoolFacts DEF Control
<1>12. ~(Forward(pkt.hdr, c) /\ Len(conn'[c].streams) = 2)
  <2> SUFFICES ASSUME Forward(pkt.hdr, c) PROVE Len(conn'[c].streams) # 2
    OBVIOUS
  <2>1. endList = << >>
    BY <1>1, <1>2, <1>4 DEF Searching
  <2>2. Len(conn[c].streams) \in {0, 1}
    BY <2>1, AtMostOne
  <2>3. conn'[c].streams = conn[c].streams
    BY <1>1, <1>5, <1>7 DEF TypeOK, TcpConn
  <2>4. \A n \in {0, 1} : n # 2
    OBVIOUS
  <2> QED BY <2>2, <2>3, <2>4, Zenon
<1> QED BY <1>2, <1>3, <1>4, <1>5, <1>9, <1>10, <1>11, <1>12, ReturnKeeps
        DEF Found

(* The search goes on, or has looked at every connection of the key.       *)
LEMMA MoveOnKeeps ==
  ASSUME IInv, SInv, Sorted',
         SearchDone \/ NextConn \/ (\E c \in ConnIds : Skip(c))
  PROVE  SInv'
<1>1. TypeOK /\ NoDangling /\ Searching /\ Control /\ PacketInItsStreams
      /\ Sorted /\ it \in Nat
  BY DEF IInv, SInv, TypeOK
<1>2. /\ UNCHANGED <<connPool, conn, streamPool, stream, endList, pkt>>
      /\ pc \in {"search", "flags"}
  BY DEF SearchDone, NextConn, Skip, Visiting
<1>3. /\ EndsKept /\ StreamsKept
      /\ Reached(pkt.hdr)' = Reached(pkt.hdr) /\ connPool' = connPool
      /\ LiveConns' = LiveConns
  BY <1>2 DEF EndsKept, StreamsKept, Reached, Forward, Backward, LiveConns
<1>4. PacketInItsStreams'
  BY <1>1, <1>2, <1>3, PacketKept
<1>5. /\ pkt.hdr \in Headers /\ NotSyn(pkt.hdr) /\ ~Discarded(pkt.hdr)
      /\ it \in 1..Len(connPool) + 1
      /\ Len(connPool) \in Nat
  BY <1>1, <1>2, PoolFacts DEF Searching
<1>6. CASE SearchDone
  <2>1. pc = "search" /\ ~HasKey(it, pkt.hdr) /\ pc' = "clean"
    BY <1>6 DEF SearchDone
  <2>2. it > 1 /\ HasKey(it - 1, pkt.hdr)
    BY <1>1, <2>1 DEF Searching
  <2>3. ASSUME NEW c \in Reached(pkt.hdr)
        PROVE  ~NoneBefore
    <3>1. PICK j \in 1..Len(connPool) : c = connPool[j]
      BY <1>1, PoolFacts DEF Reached, LiveConns, ToSet
    <3>2. it \in 2..Len(connPool) + 1
      BY <1>5, <2>2
    <3>3. j \in 1..it - 1
      BY <1>1, <1>5, <2>1, <2>2, <3>1, <3>2, BehindTheKey
    <3> QED BY <3>1, <3>3 DEF NoneBefore
  <2>4. /\ Reached(pkt.hdr) # {} => ~Closes(pkt.hdr)
        /\ Reached(pkt.hdr) # {} <=> Found
    BY <1>1, <1>2, <2>3 DEF Searching
  <2>5. Owed(pkt.hdr) /\ \A c \in LiveConns : ~conn[c].ended
    BY <1>1, <1>2, <1>5 DEF Control, Owed
  <2>6. \A c : OldestReached(pkt.hdr, c)' => ~Closes(pkt.hdr)
    BY <1>3, <2>4 DEF OldestReached
  <2>7. EndInv'
    BY <1>2, <1>3, <2>5, <2>6 DEF EndInv
  <2>8. DropInv'
    BY <1>2, <1>3, <2>4, <2>5 DEF DropInv, Found
  <2> QED BY <1>4, <2>1, <2>7, <2>8 DEF SInv, PacketGone, Searching
<1>7. CASE NextConn \/ (\E c \in ConnIds : Skip(c))
  <2>1. pc' = "search" /\ it' = it + 1
    BY <1>7 DEF NextConn, Skip, Visiting
  <2>2. HasKey(it, pkt.hdr)
    BY <1>1, <1>7 DEF NextConn, Skip, Visiting, Searching
  <2>3. it \in 1..Len(connPool) /\ it' \in 1..Len(connPool') + 1
    <3>1. it \in 1..Len(connPool)
      BY <2>2 DEF HasKey
    <3> QED BY <1>1, <1>3, <1>5, <2>1, <3>1
  <2>4. HasKey(it - 1, pkt.hdr)' /\ it' > 1
    <3>1. it' - 1 = it
      BY <1>1, <2>1
    <3> QED BY <1>1, <1>2, <2>1, <2>2, <2>3, <3>1 DEF HasKey
  <2>5. CASE NextConn
    <3>1. ~Closes(pkt.hdr) /\ Found /\ Reached(pkt.hdr) # {}
      BY <1>1, <2>5 DEF NextConn, Searching
    <3> QED BY <1>2, <1>3, <1>4, <1>5, <2>1, <2>3, <2>4, <3>1
            DEF SInv, PacketGone, Searching, Found, DropInv,
                EndInv, Searched
  <2>6. CASE \E c \in ConnIds : Skip(c)
    <3>1. connPool[it] \notin Reached(pkt.hdr) /\ pc = "search"
      BY <2>6 DEF Skip, Visiting, Reached
    <3>2. NoneBefore => NoneBefore'
      <4> SUFFICES ASSUME NoneBefore, NEW j \in 1..it
                   PROVE  connPool[j] \notin Reached(pkt.hdr)
        BY <1>1, <1>3, <2>1 DEF NoneBefore
      <4>1. j = it \/ j \in 1..it - 1
        BY <1>1
      <4> QED BY <3>1, <4>1 DEF NoneBefore
    <3>3. /\ NoneBefore' \/ Found'
          /\ Found' => Reached(pkt.hdr)' # {}
          /\ Closes(pkt.hdr) => NoneBefore' /\ endList' = << >>
      BY <1>1, <1>2, <1>3, <3>1, <3>2 DEF Searching, Found
    <3> QED BY <1>2, <1>4, <1>5, <2>1, <2>3, <2>4, <3>3
            DEF SInv, PacketGone, Searching, DropInv, EndInv,
                Searched
  <2> QED BY <1>7, <2>5, <2>6
<1> QED BY <1>6, <1>7

LEMMA SearchKeeps ==
  ASSUME IInv, SInv, Sorted', SearchNext
  PROVE  SInv'
<1>1. TypeOK
  BY DEF IInv
<1>2. EndsKept
  BY <1>1, EndsKeptBy
<1>3. ASSUME NEW c \in ConnIds, NEW s \in StreamIds,
             NEW dir \in {"C2S", "S2C"}, Open(c, s, dir)
      PROVE  SInv'
  <2>1. Matches(c, dir) /\ pc' = "flags" /\ it' = it
    BY <1>3 DEF Open
  <2>2. PacketInItsStreams' /\ pkt'.hdr = pkt.hdr /\ pkt'.taken # {}
    BY <1>2, <1>3, StartFacts
  <2> QED BY <1>2, <1>3, <2>1, <2>2, MatchKeeps DEF Open
<1>4. ASSUME NEW c \in ConnIds, NEW s \in StreamIds, TurnBackward(c, s)
      PROVE  SInv'
  <2>1. Turn(c, s, "S2C") /\ Matches(c, "S2C") /\ pc' = "flags" /\ it' = it
    BY <1>4 DEF TurnBackward, Turn
  <2>2. PacketInItsStreams' /\ pkt'.hdr = pkt.hdr /\ pkt'.taken # {}
    BY <1>2, <2>1, StartFacts
  <2>3. ~Forward(pkt.hdr, c)
    BY <2>1 DEF Matches, Forward, Backward, PortsForward, Ends
  <2> QED BY <1>2, <2>1, <2>2, <2>3, MatchKeeps
<1> QED BY <1>3, <1>4, ContinueKeeps, TurnForwardKeeps, CloseKeeps, MoveOnKeeps
        DEF SearchNext

LEMMA StutterKeeps ==
  ASSUME SInv, UNCHANGED vars
  PROVE  SInv'
BY DEF SInv, vars, Sorted, LiveConns, KeyAt, PacketGone, PacketInItsStreams,
       Forward, Backward, Searching, NoneBefore, Reached, HasKey, Found,
       DropInv, EndInv, Searched, Owed, NotSyn, Discarded, OldestReached,
       TurnedForward, Closes

LEMMA InitSInv == Init => SInv
<1> SUFFICES ASSUME Init PROVE SInv
  OBVIOUS
<1>1. Len(connPool) = 0 /\ LiveConns = {}
  BY EmptySeq DEF Init, LiveConns, ToSet
<1>2. Sorted
  BY <1>1 DEF Sorted
<1> QED BY <1>2 DEF Init, SInv, PacketGone, PacketInItsStreams, Searching,
                    DropInv, EndInv, Searched, NoPacket, NewPacket

(* How far the search is and what it owes to the packet, in every state    *)
(* the program reaches.                                                    *)
THEOREM SearchInvariance == Spec => []SInv
<1>1. Init => SInv
  BY InitSInv
<1>2. IInv /\ SInv /\ [Next]_vars => SInv'
  <2> SUFFICES ASSUME IInv, SInv, [Next]_vars PROVE SInv'
    OBVIOUS
  <2>1. Sorted'
    BY SortedStep DEF SInv
  <2> QED BY <2>1, CaptureKeeps, SearchKeeps, CleanKeeps, StutterKeeps
          DEF Next, Process
<1> QED BY <1>1, <1>2, Invariance, PTL DEF Spec

(* The packet's stream_ is alive while ~Packet can still unlink from it,   *)
(* and a packet is only in streams of its own connection and direction.    *)
THEOREM PacketBelongs == Spec => []PacketInItsStreams
<1>1. SInv => PacketInItsStreams
  BY DEF SInv
<1> QED BY <1>1, SearchInvariance, PTL

(* SearchStream leaves a packet in a stream or marked as an error if and   *)
(* only if there is a live connection it owes it to: what is dropped       *)
(* without a mark is a SYN, has neither data nor FIN, has no connection, or *)
(* comes from the server between equal ports.                              *)
THEOREM DropsKnown == Spec => []DropsOnlyUnread
<1>1. IInv /\ SInv => DropsOnlyUnread
  <2> SUFFICES ASSUME IInv, SInv, Searched
               PROVE  pkt.taken # {} \/ pkt.error <=> Read(pkt.hdr) # {}
    BY DEF DropsOnlyUnread
  <2>1. pkt.hdr \in Headers /\ Sorted /\ DropInv
    BY DEF IInv, TypeOK, Packet, Searched, SInv
  <2>2. Read(pkt.hdr) = IF Owed(pkt.hdr) THEN Reached(pkt.hdr) ELSE {}
    BY <2>1, ReadIsReached
  <2> QED BY <2>1, <2>2 DEF DropInv, Found
<1> QED BY <1>1, Invariance, SearchInvariance, PTL

(* A connection is ended by a FIN or RST that SearchStream owes to it, if  *)
(* it is the oldest such connection and the packet does not turn the       *)
(* conversation to the client, and by nothing else.                        *)
THEOREM OldestReadEnds == Spec => []EndsOldestRead
<1>1. IInv /\ SInv => EndsOldestRead
  <2> SUFFICES ASSUME IInv, SInv, Searched, NEW c \in LiveConns
               PROVE  conn[c].ended <=> /\ Closes(pkt.hdr)
                                        /\ OldestRead(pkt.hdr, c)
                                        /\ ~TurnedForward(pkt.hdr, c)
    BY DEF EndsOldestRead
  <2>1. pkt.hdr \in Headers /\ Sorted /\ EndInv
    BY DEF IInv, TypeOK, Packet, Searched, SInv
  <2>2. Read(pkt.hdr) = IF Owed(pkt.hdr) THEN Reached(pkt.hdr) ELSE {}
    BY <2>1, ReadIsReached
  <2>3. OldestRead(pkt.hdr, c) <=> Owed(pkt.hdr) /\ OldestReached(pkt.hdr, c)
    BY <2>2 DEF OldestRead, OldestReached
  <2> QED BY <2>1, <2>3 DEF EndInv
<1> QED BY <1>1, Invariance, SearchInvariance, PTL

-----------------------------------------------------------------------------
(* ConnTrack implements Ownership.                                         *)

Owner == [s \in StreamIds |-> stream[s].conn]

Retired == {s \in streamPool : stream[s].state = "END"}

\* A stream that is not in use belongs to no connection.
FreeOwner == \A s \in StreamIds \ streamPool : stream[s].conn = None

(* The streams of a live connection, by owner and by list.                 *)
LEMMA OwnedStreams ==
  ASSUME IInv, FreeOwner, NEW c \in LiveConns
  PROVE  Lifetimes!Streams(c) = StreamsOf(c)
<1>1. /\ c \in ConnIds /\ c # None
      /\ NoDangling
      /\ \A s \in StreamsOf(c) : s \in StreamIds
  BY PoolFacts, ListFacts, NoneAssumption DEF IInv
<1>2. ASSUME NEW s \in StreamIds, stream[s].conn = c PROVE s \in StreamsOf(c)
  BY <1>1, <1>2 DEF FreeOwner, NoDangling
<1>3. ASSUME NEW s \in StreamsOf(c) PROVE stream[s].conn = c
  BY <1>1 DEF NoDangling
<1> QED BY <1>1, <1>2, <1>3 DEF Lifetimes!Streams

(* A stream that is deleted takes its connection with it if it is the last *)
(* one.                                                                    *)
LEMMA DeleteStreamFacts ==
  ASSUME IInv, NEW s \in streamPool, DeleteStream(s)
  PROVE  /\ s \in StreamIds
         /\ stream[s].conn \in LiveConns
         /\ s \in StreamsOf(stream[s].conn)
         /\ streamPool' = streamPool \ {s}
         /\ stream' = [stream EXCEPT ![s] = FreeStream]
         /\ LiveConns' = IF StreamsOf(stream[s].conn) = {s}
                         THEN LiveConns \ {stream[s].conn} ELSE LiveConns
<1>1. TypeOK /\ NoDangling
  BY DEF IInv
<1>2. PICK c \in LiveConns : c = stream[s].conn /\ s \in StreamsOf(c)
  BY <1>1 DEF NoDangling
<1> DEFINE q == conn[c].streams
           p == Position(q, s)
           left == RemoveAt(q, p)
<1>3. /\ c \in ConnIds /\ q \in Seq(StreamIds) /\ IsInjective(q)
      /\ s \in ToSet(q) /\ ToSet(q) = StreamsOf(c) /\ s \in StreamIds
  BY <1>1, <1>2, PoolFacts, ListFacts DEF StreamsOf, NoDangling
<1>4. p \in 1..Len(q) /\ q[p] = s
  <2> HIDE DEF q
  <2> QED BY <1>3, PositionFacts
<1>5. left \in Seq(StreamIds) /\ ToSet(left) = StreamsOf(c) \ {s}
  <2> HIDE DEF q, p
  <2>1. left \in Seq(StreamIds)
    BY <1>3, <1>4, RemoveAtElements
  <2>2. ToSet(left) = ToSet(q) \ {q[p]}
    BY <1>3, <1>4, RemoveAtFacts
  <2> QED BY <1>3, <1>4, <2>1, <2>2
<1>6. /\ streamPool' = streamPool \ {s}
      /\ stream' = [stream EXCEPT ![s] = FreeStream]
      /\ IF left = << >>
         THEN connPool' = RemoveAt(connPool, Position(connPool, c))
         ELSE connPool' = connPool
  BY <1>2 DEF DeleteStream, StreamsWithout
<1> HIDE DEF left, p, q
<1>7. left = << >> <=> StreamsOf(c) = {s}
  <2>1. CASE left = << >>
    <3>1. ToSet(left) = {}
      BY <2>1 DEF ToSet
    <3> QED BY <1>2, <1>5, <2>1, <3>1
  <2>2. CASE left # << >>
    <3>1. Head(left) \in ToSet(left)
      BY <1>5, <2>2, TailFacts
    <3> QED BY <1>5, <2>2, <3>1
  <2> QED BY <2>1, <2>2
<1>8. ToSet(RemoveAt(connPool, Position(connPool, c))) = LiveConns \ {c}
  <2>1. connPool \in Seq(ConnIds) /\ IsInjective(connPool) /\ c \in ToSet(connPool)
    BY <1>1 DEF TypeOK, NoDangling, LiveConns
  <2>2. Position(connPool, c) \in 1..Len(connPool)
        /\ connPool[Position(connPool, c)] = c
    BY <2>1, PositionFacts
  <2> QED BY <2>1, <2>2, RemoveAtFacts DEF LiveConns
<1> QED BY <1>2, <1>3, <1>6, <1>7, <1>8 DEF LiveConns

(* A connection that is deleted takes all its streams with it.             *)
LEMMA DeleteConnFacts ==
  ASSUME IInv, endList = << >>, NEW c \in LiveConns, DeleteConn(c)
  PROVE  /\ LiveConns' = LiveConns \ {c}
         /\ streamPool' = streamPool \ StreamsOf(c)
         /\ stream' = [s \in StreamIds |->
                         IF s \in StreamsOf(c) THEN FreeStream ELSE stream[s]]
<1>1. TypeOK /\ NoDangling
  BY DEF IInv
<1>2. FirstStreamOf(c) = StreamsOf(c)
  BY FirstIsAll
<1>3. connPool \in Seq(ConnIds) /\ IsInjective(connPool) /\ c \in ToSet(connPool)
  BY <1>1 DEF TypeOK, NoDangling, LiveConns
<1>4. Position(connPool, c) \in 1..Len(connPool)
      /\ connPool[Position(connPool, c)] = c
  BY <1>3, PositionFacts
<1>5. ToSet(RemoveAt(connPool, Position(connPool, c))) = ToSet(connPool) \ {c}
  BY <1>3, <1>4, RemoveAtFacts
<1> QED BY <1>2, <1>5 DEF DeleteConn, LiveConns

(* The collector of connections deletes the one at the iterator, unless    *)
(* that is the first one.                                                  *)
LEMMA CollectorFacts ==
  ASSUME IInv, GcConnExpired
  PROVE  \/ UNCHANGED <<connPool, conn, streamPool, stream, endList>>
         \/ \E c \in LiveConns :
              /\ DeleteConn(c)
              /\ endList = << >> /\ endList' = endList
              /\ ConnExpired(c) \/ ConnExpired(connPool[1])
<1>1. /\ TypeOK /\ endList = << >> /\ endList' = endList
      /\ it \in 1..Len(connPool) /\ Len(connPool) \in Nat
      /\ ConnExpired(connPool[it])
  BY PoolFacts DEF GcConnExpired, IInv, Control, TypeOK
<1>2. PICK bf \in BackAndForth(it, Len(connPool)) :
        \/ bf[2] <= Len(connPool) /\ DeleteConn(connPool[bf[2]])
        \/ UNCHANGED <<connPool, conn, streamPool, stream>>
  BY DEF GcConnExpired
<1>3. CASE bf[2] <= Len(connPool) /\ DeleteConn(connPool[bf[2]])
  <2>1. bf[2] \in 1..Len(connPool)
    BY <1>1, <1>2, <1>3, BackAndForthFacts
  <2>2. PICK c \in LiveConns : c = connPool[bf[2]]
    BY <1>1, <2>1, PoolFacts
  <2>3. it = 1 \/ bf[2] = it
    BY <1>1, <1>2 DEF BackAndForth
  <2> QED BY <1>1, <1>3, <2>2, <2>3
<1> QED BY <1>1, <1>2, <1>3

(* What an unused stream is does not change while it is unused.            *)
LEMMA FreeOwnerStep ==
  ASSUME IInv, FreeOwner, [Next]_vars
  PROVE  FreeOwner'
<1>1. TypeOK /\ streamPool \subseteq StreamIds
  BY DEF IInv, TypeOK
<1>2. ASSUME NEW s \in streamPool, DeleteStream(s) PROVE FreeOwner'
  <2>1. /\ s \in StreamIds
        /\ streamPool' = streamPool \ {s}
        /\ stream' = [stream EXCEPT ![s] = FreeStream]
    BY <1>2, DeleteStreamFacts
  <2> QED BY <1>1, <2>1 DEF FreeOwner, FreeStream, TypeOK
<1>3. ASSUME NEW d \in SUBSET StreamIds, streamPool' = streamPool \ d,
             stream' = [s \in StreamIds |-> IF s \in d THEN FreeStream ELSE stream[s]]
      PROVE  FreeOwner'
  BY <1>3 DEF FreeOwner, FreeStream
<1>4. ASSUME streamPool \subseteq streamPool',
             \A s \in StreamIds \ streamPool' : stream'[s] = stream[s]
      PROVE  FreeOwner'
  BY <1>4 DEF FreeOwner
<1>5. CASE DeleteEnded
  <2>1. endList \in Seq(StreamIds) /\ endList # << >>
    BY <1>1, <1>5 DEF DeleteEnded, TypeOK
  <2>2. Head(endList) \in ToSet(endList)
    BY <2>1, TailFacts
  <2> QED BY <1>2, <1>5, <2>2 DEF DeleteEnded, IInv, EndListSound
<1>6. ASSUME NEW s \in StreamIds, GcStream(s) PROVE FreeOwner'
  BY <1>2, <1>6 DEF GcStream
<1>7. CASE GcConnExpired
  <2>1. CASE UNCHANGED <<streamPool, stream>>
    BY <1>4, <2>1
  <2>2. ASSUME NEW c \in LiveConns, DeleteConn(c), endList = << >>
        PROVE  FreeOwner'
    <3>1. StreamsOf(c) \in SUBSET StreamIds
      BY <1>1, PoolFacts, ListFacts
    <3> QED BY <1>3, <2>2, <3>1, DeleteConnFacts
  <2> QED BY <1>7, <2>1, <2>2, CollectorFacts
<1>8. CASE SearchNext
  <2>1. CASE UNCHANGED <<streamPool, stream>>
    BY <1>4, <2>1
  <2>2. ASSUME NEW c \in ConnIds, NEW dir \in {"C2S", "S2C"},
               ContinueAccept(c, dir)
        PROVE  FreeOwner'
    <3>1. c \in LiveConns /\ conn[c].prev # "NEW"
      BY <1>1, <2>2, PoolFacts DEF ContinueAccept, Matches
    <3>2. LastStream(c) \in streamPool
      BY <3>1, LastFacts
    <3>3. /\ streamPool' = streamPool
          /\ stream' = [stream EXCEPT ![LastStream(c)] =
                          [[stream[LastStream(c)] EXCEPT !.state = "CONTINUE"]
                            EXCEPT !.updated = pkt.ts]]
      BY <2>2 DEF ContinueAccept
    <3> QED BY <1>1, <1>4, <3>2, <3>3 DEF TypeOK
  <2>3. ASSUME NEW c \in ConnIds, NEW s \in StreamIds,
               NEW dir \in {"C2S", "S2C"}, Open(c, s, dir)
        PROVE  FreeOwner'
    BY <1>1, <1>4, <2>3 DEF Open, TypeOK
  <2>4. ASSUME NEW c \in ConnIds, NEW s \in StreamIds,
               NEW dir \in {"C2S", "S2C"}, Turn(c, s, dir)
        PROVE  FreeOwner'
    <3>1. c \in LiveConns /\ conn[c].prev # "NEW"
      BY <1>1, <2>4, PoolFacts DEF Turn, Matches
    <3>2. LastStream(c) \in streamPool
      BY <3>1, LastFacts
    <3>3. /\ streamPool' = streamPool \cup {s}
          /\ stream' = [stream EXCEPT ![LastStream(c)].state = "END",
                                      ![s] = NewStreamFor(c, dir)]
      BY <2>4 DEF Turn
    <3> QED BY <1>1, <1>4, <3>2, <3>3 DEF TypeOK
  <2>5. CASE Close
    <3>1. PICK c \in LiveConns : c = connPool[it] /\ conn[c].prev # "NEW"
      BY <1>1, <2>5, PoolFacts DEF Close, IInv, Control
    <3>2. LastStream(c) \in streamPool
      BY <3>1, LastFacts
    <3>3. /\ streamPool' = streamPool
          /\ stream' = stream
             \/ stream' = [stream EXCEPT ![LastStream(c)].state = "END"]
      BY <2>5, <3>1 DEF Close
    <3> QED BY <1>1, <1>4, <3>2, <3>3 DEF TypeOK
  <2> QED BY <1>8, <2>1, <2>2, <2>3, <2>4, <2>5
          DEF SearchNext, SearchDone, Skip, ContinueReject, NextConn,
              TurnForward, TurnBackward
<1>9. CASE \/ UNCHANGED vars \/ CaptureNext
           \/ DeletePacket \/ SkipGc \/ StartGc \/ GcStreamsDone \/ GcConnKeep
           \/ GcDone
  <2>1. UNCHANGED <<streamPool, stream>>
    BY <1>9 DEF vars, CaptureNext, CaptureOther, CaptureDiscard, CaptureSearch,
         CaptureSyn, DeletePacket, SkipGc, StartGc, GcStreamsDone, GcConnKeep,
         GcDone, FinishPacket
  <2> QED BY <1>4, <2>1
<1> QED BY <1>5, <1>6, <1>7, <1>8, <1>9 DEF Next, Process, CleanNext

(* A step that keeps the connections, the owners and the retired streams   *)
(* is a stutter of Ownership.                                              *)
LEMMA StutterMaps ==
  ASSUME LiveConns' = LiveConns, Retired' = Retired,
         \A s \in StreamIds : stream'[s].conn = stream[s].conn
  PROVE  UNCHANGED Lifetimes!vars
BY DEF Lifetimes!vars, Retired

LEMMA DeleteStreamMaps ==
  ASSUME IInv, FreeOwner, NEW s \in streamPool, DeleteStream(s)
  PROVE  Lifetimes!DropStream(s)
<1> DEFINE c == stream[s].conn
<1>1. /\ s \in StreamIds /\ c \in LiveConns /\ s \in StreamsOf(c)
      /\ streamPool' = streamPool \ {s}
      /\ stream' = [stream EXCEPT ![s] = FreeStream]
      /\ LiveConns' = IF StreamsOf(c) = {s} THEN LiveConns \ {c} ELSE LiveConns
  BY DeleteStreamFacts
<1>2. Lifetimes!Streams(c) = StreamsOf(c)
  BY <1>1, OwnedStreams
<1>3. stream \in [StreamIds -> Stream] /\ streamPool \subseteq StreamIds
  BY DEF IInv, TypeOK
<1>4. Owner' = [Owner EXCEPT ![s] = None]
  BY <1>1, <1>3 DEF Owner, FreeStream
<1>5. Retired' = Retired \ {s}
  BY <1>1, <1>3 DEF Retired
<1>6. Owner[s] = c
  BY <1>1 DEF Owner
<1> HIDE DEF c
<1>7. Lifetimes!Streams(Owner[s]) = StreamsOf(c)
  BY <1>2, <1>6
<1> QED BY <1>1, <1>4, <1>5, <1>6, <1>7 DEF Lifetimes!DropStream, Owner, Retired

LEMMA DeleteConnMaps ==
  ASSUME IInv, FreeOwner, endList = << >>, NEW c \in LiveConns, DeleteConn(c)
  PROVE  Lifetimes!DropConn(c)
<1>1. /\ LiveConns' = LiveConns \ {c}
      /\ streamPool' = streamPool \ StreamsOf(c)
      /\ stream' = [s \in StreamIds |->
                      IF s \in StreamsOf(c) THEN FreeStream ELSE stream[s]]
  BY DeleteConnFacts
<1>2. Lifetimes!Streams(c) = StreamsOf(c)
  BY OwnedStreams
<1>3. streamPool \subseteq StreamIds
      /\ StreamsOf(c) = {s \in StreamIds : stream[s].conn = c}
  BY <1>2 DEF IInv, TypeOK, Lifetimes!Streams
<1>4. Owner' = [s \in StreamIds |-> IF Owner[s] = c THEN None ELSE Owner[s]]
  BY <1>1, <1>3 DEF Owner, FreeStream
<1>5. Retired' = Retired \ StreamsOf(c)
  BY <1>1, <1>3 DEF Retired
<1> QED BY <1>1, <1>2, <1>4, <1>5 DEF Lifetimes!DropConn, Owner, Retired

(* A stream starts in a connection, whose other streams have then ended.   *)
LEMMA StartMaps ==
  ASSUME IInv, FreeOwner, NEW c \in ConnIds, NEW s \in StreamIds,
         NEW dir \in {"C2S", "S2C"}, Open(c, s, dir) \/ Turn(c, s, dir)
  PROVE  Lifetimes!StartStream(c, s)
<1>1. /\ TypeOK /\ NoDangling /\ InOrder(c) /\ PrevDescribes(c)
      /\ stream \in [StreamIds -> Stream] /\ streamPool \subseteq StreamIds
      /\ c \in LiveConns
  BY PoolFacts DEF Open, Turn, Matches, IInv, EndListInOrder, PrevDescribesLast,
                   TypeOK
<1>2. /\ s \notin streamPool /\ streamPool' = streamPool \cup {s}
      /\ connPool' = connPool
  BY DEF Open, Turn
<1>3. stream[s].conn = None
  BY <1>2 DEF FreeOwner
<1>4. Lifetimes!Streams(c) = StreamsOf(c)
  BY <1>1, OwnedStreams
<1>5. /\ \A t \in StreamIds \ {s} : stream'[t].conn = stream[t].conn
      /\ stream'[s].conn = c
      /\ Retired' = Retired \cup StreamsOf(c)
  <2>1. CASE Open(c, s, dir)
    <3>1. stream' = [stream EXCEPT ![s] = NewStreamFor(c, dir)]
      BY <2>1 DEF Open
    <3>2. /\ \A t \in StreamIds \ {s} : stream'[t] = stream[t]
          /\ stream'[s].conn = c /\ stream'[s].state = "BEGIN"
      BY <1>1, <3>1 DEF NewStreamFor
    <3>3. conn[c].streams = << >>
      BY <1>1, <2>1 DEF Open, PrevDescribes
    <3>4. StreamsOf(c) = {}
      BY <3>3 DEF StreamsOf, ToSet
    <3>5. Retired' = Retired
      BY <1>1, <1>2, <3>2 DEF Retired
    <3> QED BY <3>2, <3>4, <3>5
  <2>2. CASE Turn(c, s, dir)
    <3> DEFINE last == LastStream(c)
    <3>1. /\ last \in streamPool /\ last \in StreamIds /\ last \in StreamsOf(c)
          /\ last = conn[c].streams[Len(conn[c].streams)]
          /\ Len(conn[c].streams) \in Nat \ {0}
      BY <1>1, <2>2, LastFacts DEF Turn
    <3>2. stream' = [stream EXCEPT ![last].state = "END",
                                   ![s] = NewStreamFor(c, dir)]
      BY <2>2 DEF Turn
    <3>3. \A t \in StreamsOf(c) \ {last} : stream[t].state = "END"
      <4> SUFFICES ASSUME NEW t \in StreamsOf(c) \ {last}
                   PROVE  stream[t].state = "END"
        OBVIOUS
      <4>1. DOMAIN conn[c].streams = 1..Len(conn[c].streams)
        BY <1>1, ListFacts
      <4>2. PICK i \in 1..Len(conn[c].streams) : t = conn[c].streams[i]
        BY <4>1 DEF StreamsOf, ToSet
      <4>3. i < Len(conn[c].streams)
        <5>1. i # Len(conn[c].streams)
          BY <3>1, <4>2
        <5>2. Len(conn[c].streams) \in Nat
          BY ONLY <3>1
        <5> HIDE DEF last
        <5> QED BY ONLY <5>1, <5>2, i \in 1..Len(conn[c].streams)
      <4> QED BY <1>1, <4>2, <4>3 DEF InOrder
    <3> HIDE DEF last
    <3>4. stream'[last] = [stream[last] EXCEPT !.state = "END"]
          /\ stream'[s] = NewStreamFor(c, dir)
          /\ \A r \in StreamIds \ {s, last} : stream'[r] = stream[r]
      BY <1>1, <1>2, <3>1, <3>2
    <3>5. /\ stream'[last].conn = stream[last].conn
          /\ stream'[last].state = "END"
      BY <1>1, <3>1, <3>4 DEF Stream
    <3>6. stream'[s].conn = c /\ stream'[s].state = "BEGIN"
      BY <3>4 DEF NewStreamFor
    <3>7. \A t \in StreamsOf(c) : t \in streamPool
      BY <1>1 DEF NoDangling
    <3>8. Retired' = Retired \cup {last}
      <4>1. /\ streamPool' = streamPool \cup {s} /\ s \notin streamPool
            /\ last \in streamPool /\ last # s
        BY <1>2, <3>1
      <4>2. \A t \in streamPool : t # last => stream'[t] = stream[t]
        BY <1>1, <1>2, <3>4
      <4>3. stream'[last].state = "END" /\ stream'[s].state # "END"
        BY <3>5, <3>6
      <4> QED BY ONLY <4>1, <4>2, <4>3 DEF Retired
    <3>9. Retired \cup {last} = Retired \cup StreamsOf(c)
      BY <3>1, <3>3, <3>7 DEF Retired
    <3> QED BY <3>4, <3>5, <3>6, <3>8, <3>9
  <2> QED BY <2>1, <2>2
<1>6. Owner' = [Owner EXCEPT ![s] = c]
  BY <1>5 DEF Owner
<1>7. Owner[s] = None /\ LiveConns' = LiveConns
  BY <1>2, <1>3 DEF Owner, LiveConns
<1> QED BY <1>1, <1>4, <1>5, <1>6, <1>7
        DEF Lifetimes!StartStream, Owner, Retired

(* Every step of the search that starts no stream either retires one, as   *)
(* FIN and RST do, or changes nothing that Ownership knows of.             *)
LEMMA SearchMaps ==
  ASSUME IInv, FreeOwner, SearchNext
  PROVE  [Lifetimes!Next]_(Lifetimes!vars)
<1>1. /\ TypeOK /\ PrevDescribesLast /\ LiveConns \subseteq ConnIds
      /\ stream \in [StreamIds -> Stream]
  BY PoolFacts DEF IInv, TypeOK
<1>2. CASE SearchDone \/ NextConn \/ (\E c \in ConnIds : Skip(c))
           \/ (\E c \in ConnIds, dir \in {"C2S", "S2C"} : ContinueReject(c, dir))
  <2>1. LiveConns' = LiveConns /\ stream' = stream /\ streamPool' = streamPool
    BY <1>2 DEF SearchDone, NextConn, Skip, ContinueReject, LiveConns
  <2> QED BY <2>1, StutterMaps DEF Retired
<1>3. ASSUME NEW c \in ConnIds, NEW dir \in {"C2S", "S2C"},
             ContinueAccept(c, dir)
      PROVE  UNCHANGED Lifetimes!vars
  <2> DEFINE last == LastStream(c)
  <2>1. c \in LiveConns /\ conn[c].prev # "NEW" /\ ~conn[c].ended
    BY <1>1, <1>3, PoolFacts
       DEF ContinueAccept, Matches, Visiting, IInv, Control
  <2>2. last \in StreamIds /\ stream[last].state # "END"
    BY <1>1, <2>1, LastFacts DEF PrevDescribesLast, PrevDescribes
  <2>3. /\ LiveConns' = LiveConns /\ streamPool' = streamPool
        /\ stream' = [stream EXCEPT ![last] =
                        [[stream[last] EXCEPT !.state = "CONTINUE"] EXCEPT
                          !.updated = pkt.ts]]
    BY <1>3 DEF ContinueAccept, LiveConns
  <2> HIDE DEF last
  <2>4. /\ stream'[last].conn = stream[last].conn
        /\ stream'[last].state = "CONTINUE"
        /\ \A s \in StreamIds \ {last} : stream'[s] = stream[s]
    BY <1>1, <2>2, <2>3 DEF Stream
  <2>5. \A s \in StreamIds : /\ stream'[s].conn = stream[s].conn
                             /\ stream'[s].state = "END" <=> stream[s].state = "END"
    BY <2>2, <2>4
  <2>6. Retired' = Retired
    BY <1>1, <2>3, <2>5 DEF Retired, TypeOK
  <2> QED BY <2>3, <2>5, <2>6, StutterMaps
<1>4. CASE Close
  <2>1. PICK c \in LiveConns : c = connPool[it] /\ conn[c].prev # "NEW"
                               /\ ~conn[c].ended
    BY <1>1, <1>4, PoolFacts DEF Close, IInv, Control
  <2>2. PICK last \in StreamIds :
          /\ last = LastStream(c) /\ last \in streamPool
          /\ stream[last].conn = c /\ stream[last].state # "END"
    BY <1>1, <2>1, LastFacts DEF PrevDescribesLast, PrevDescribes
  <2>3. /\ LiveConns' = LiveConns /\ streamPool' = streamPool
        /\ stream' = [stream EXCEPT ![last].state = "END"]
    BY <1>4, <2>1, <2>2 DEF Close, LiveConns
  <2>4. /\ stream'[last].conn = stream[last].conn
        /\ stream'[last].state = "END"
        /\ \A s \in StreamIds \ {last} : stream'[s] = stream[s]
    BY <1>1, <2>2, <2>3 DEF Stream
  <2>5. Retired' = Retired \cup {last}
    BY <1>1, <2>2, <2>3, <2>4 DEF Retired, TypeOK
  <2>6. Owner' = Owner /\ Owner[last] \in LiveConns
    BY <2>1, <2>2, <2>4 DEF Owner
  <2>7. Lifetimes!Retire(last)
    BY <2>3, <2>5, <2>6 DEF Lifetimes!Retire, Owner, Retired
  <2> QED BY <2>7 DEF Lifetimes!Next
<1>5. ASSUME NEW c \in ConnIds, NEW s \in StreamIds,
             NEW dir \in {"C2S", "S2C"}, Open(c, s, dir) \/ Turn(c, s, dir)
      PROVE  Lifetimes!Next
  BY <1>5, StartMaps DEF Lifetimes!Next
<1>6. ASSUME NEW c \in ConnIds, NEW s \in StreamIds,
             TurnForward(c, s) \/ TurnBackward(c, s)
      PROVE  Lifetimes!Next
  BY <1>5, <1>6 DEF TurnForward, TurnBackward
<1> QED BY <1>2, <1>3, <1>4, <1>5, <1>6 DEF SearchNext

LEMMA StepMaps ==
  ASSUME IInv, FreeOwner, [Next]_vars
  PROVE  [Lifetimes!Next]_(Lifetimes!vars)
<1>1. TypeOK /\ streamPool \subseteq StreamIds /\ LiveConns \subseteq ConnIds
  BY PoolFacts DEF IInv, TypeOK
<1>2. CASE UNCHANGED <<connPool, streamPool, stream>>
  BY <1>2, StutterMaps DEF LiveConns, Retired
<1>3. ASSUME NEW t \in Times, NEW h \in Headers, NEW c \in ConnIds,
             CaptureSyn(h, t, c)
      PROVE  Lifetimes!Next
  <2>1. /\ c \notin LiveConns /\ stream' = stream /\ streamPool' = streamPool
        /\ connPool' = InsertAt(connPool, InsertPos(h), c)
    BY <1>3 DEF CaptureSyn
  <2>2. connPool \in Seq(ConnIds) /\ IsInjective(connPool)
    BY DEF IInv, TypeOK, NoDangling
  <2>3. InsertPos(h) \in 1..Len(connPool) + 1
    BY <1>1, InsertPosType
  <2>4. LiveConns' = LiveConns \cup {c}
    BY <2>1, <2>2, <2>3, InsertAtFacts DEF LiveConns
  <2>5. Retired' = Retired /\ Owner' = Owner
    BY <2>1 DEF Retired, Owner
  <2>6. Lifetimes!OpenConn(c)
    BY <2>1, <2>4, <2>5 DEF Lifetimes!OpenConn, Owner, Retired
  <2> QED BY <2>6 DEF Lifetimes!Next
<1>4. CASE DeleteEnded
  <2>1. endList \in Seq(StreamIds) /\ endList # << >>
    BY <1>1, <1>4 DEF DeleteEnded, TypeOK
  <2>2. Head(endList) \in streamPool
    BY <2>1, TailFacts DEF IInv, EndListSound
  <2> QED BY <1>1, <1>4, <2>2, DeleteStreamMaps DEF DeleteEnded, Lifetimes!Next
<1>5. ASSUME NEW s \in StreamIds, GcStream(s) PROVE Lifetimes!Next
  BY <1>5, DeleteStreamMaps DEF GcStream, Lifetimes!Next
<1>6. CASE GcConnExpired
  <2>1. CASE \E c \in LiveConns : DeleteConn(c) /\ endList = << >>
    BY <1>1, <2>1, DeleteConnMaps DEF Lifetimes!Next
  <2> QED BY <1>2, <1>6, <2>1, CollectorFacts
<1> QED BY <1>2, <1>3, <1>4, <1>5, <1>6, SearchMaps
        DEF Next, Process, CaptureNext, CleanNext, vars, CaptureOther,
            CaptureDiscard, CaptureSearch, DeletePacket, SkipGc, StartGc,
            GcStreamsDone, GcConnKeep, GcDone, FinishPacket

LEMMA InitMaps == Init => Lifetimes!Init /\ FreeOwner
<1> SUFFICES ASSUME Init PROVE Lifetimes!Init /\ FreeOwner
  OBVIOUS
<1>1. LiveConns = {} /\ streamPool = {}
  BY DEF Init, LiveConns, ToSet
<1>2. \A s \in StreamIds : stream[s].conn = None
  BY DEF Init, FreeStream
<1> QED BY <1>1, <1>2 DEF Lifetimes!Init, FreeOwner

(* The pools and lists of StreamRebuild and PacketClean implement the life *)
(* of connections and streams that Ownership describes: every step of the  *)
(* program opens or drops a connection, starts, retires or drops a stream, *)
(* or is invisible there.                                                  *)
THEOREM Implements == Spec => ImplementsOwnership
<1>1. Init => Lifetimes!Init /\ FreeOwner
  BY InitMaps
<1>2. IInv /\ FreeOwner /\ [Next]_vars => FreeOwner'
  BY FreeOwnerStep
<1>3. IInv /\ FreeOwner /\ [Next]_vars => [Lifetimes!Next]_(Lifetimes!vars)
  BY StepMaps
<1> QED BY <1>1, <1>2, <1>3, Invariance, PTL
        DEF Spec, ImplementsOwnership, Lifetimes!Spec

-----------------------------------------------------------------------------
(* Nothing goes without a reason.                                          *)

(* A stream is deleted because it has ended, because it has timed out, or  *)
(* with its connection.                                                    *)
THEOREM DeletedForAReason == Spec => NoEarlyDelete
<1>1. ASSUME IInv, [Next]_vars, NEW s \in streamPool \ streamPool'
      PROVE  \/ stream[s].state = "END"
             \/ pkt.ts - stream[s].updated >= GcRemoveTime
             \/ pc = "conns" /\ stream[s].conn \notin ToSet(connPool')
  <2>1. TypeOK /\ NoDangling
    BY <1>1 DEF IInv
  <2>2. CASE DeleteEnded
    <3>1. endList \in Seq(StreamIds) /\ endList # << >>
      BY <2>1, <2>2 DEF DeleteEnded, TypeOK
    <3>2. Head(endList) \in streamPool /\ stream[Head(endList)].state = "END"
      BY <1>1, <3>1, TailFacts DEF IInv, EndListSound
    <3>3. s = Head(endList)
      BY <1>1, <2>2 DEF DeleteEnded, DeleteStream
    <3> QED BY <3>2, <3>3
  <2>3. CASE \E t \in StreamIds : GcStream(t)
    BY <1>1, <2>3 DEF GcStream, DeleteStream, StreamExpired, TimedOut
  <2>4. CASE GcConnExpired
    <3>1. PICK c \in LiveConns : DeleteConn(c) /\ endList = << >>
      BY <1>1, <2>4, CollectorFacts
    <3>2. LiveConns' = LiveConns \ {c} /\ s \in StreamsOf(c)
      BY <1>1, <3>1, DeleteConnFacts
    <3>3. stream[s].conn = c /\ pc = "conns"
      BY <2>1, <2>4, <3>2 DEF NoDangling, GcConnExpired
    <3> QED BY <3>2, <3>3 DEF LiveConns
  <2>5. CASE SearchNext
    BY <1>1, <2>5 DEF SearchNext, SearchDone, Skip, ContinueAccept,
       ContinueReject, Open, TurnForward, TurnBackward, Turn, Close, NextConn
  <2> QED BY <1>1, <2>2, <2>3, <2>4, <2>5
          DEF Next, Process, CaptureNext, CleanNext, vars, CaptureOther,
              CaptureSyn, CaptureDiscard, CaptureSearch, DeletePacket, SkipGc,
              StartGc, GcStreamsDone, GcConnKeep, GcDone, FinishPacket
<1>2. IInv /\ [Next]_vars =>
        [\A s \in streamPool \ streamPool' :
           \/ stream[s].state = "END"
           \/ pkt.ts - stream[s].updated >= GcRemoveTime
           \/ pc = "conns" /\ stream[s].conn \notin ToSet(connPool')]_vars
  BY <1>1
<1> QED BY <1>2, Invariance, PTL DEF Spec, NoEarlyDelete

(* The connection collector deletes one connection at a time, and a        *)
(* connection that has not timed out only while the first of the multimap  *)
(* has: the element its iterator comes back to past the first is the one   *)
(* it looked at.                                                           *)
THEOREM CollectsOneAtATime == Spec => GcSparesUnlessFirst
<1>1. ASSUME IInv, [Next]_vars, NEW c \in LiveConns \ ToSet(connPool'),
             pc = "conns"
      PROVE  /\ LiveConns \ ToSet(connPool') = {c}
             /\ ConnExpired(c) \/ ConnExpired(connPool[1])
  <2>1. CASE GcConnExpired
    <3>1. PICK d \in LiveConns : /\ DeleteConn(d) /\ endList = << >>
                                 /\ ConnExpired(d) \/ ConnExpired(connPool[1])
      BY <1>1, <2>1, CollectorFacts DEF LiveConns
    <3>2. LiveConns' = LiveConns \ {d}
      BY <1>1, <3>1, DeleteConnFacts
    <3>3. d = c /\ LiveConns \ ToSet(connPool') = {c}
      BY <1>1, <3>2 DEF LiveConns
    <3> QED BY <3>1, <3>3
  <2>2. CASE ~GcConnExpired
    <3>1. connPool' = connPool
      BY <1>1, <2>2
         DEF Next, Process, CaptureNext, SearchNext, CleanNext, vars,
             CaptureOther, CaptureSyn, CaptureDiscard, CaptureSearch, Capture,
             SearchDone, Skip, ContinueAccept, ContinueReject, Open,
             TurnForward, TurnBackward, Turn, Matches, Visiting, Close,
             NextConn, DeletePacket, DeleteEnded, SkipGc, StartGc, GcStream,
             GcStreamsDone, GcConnKeep, GcDone, FinishPacket
    <3> QED BY <1>1, <3>1 DEF LiveConns
  <2> QED BY <2>1, <2>2
<1>2. IInv /\ [Next]_vars =>
        [\A c \in LiveConns \ ToSet(connPool') :
           pc = "conns" =>
             /\ LiveConns \ ToSet(connPool') = {c}
             /\ ConnExpired(c) \/ ConnExpired(connPool[1])]_vars
  BY <1>1
<1> QED BY <1>2, Invariance, PTL DEF Spec, GcSparesUnlessFirst
=============================================================================
