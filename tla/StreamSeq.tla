----------------------------- MODULE StreamSeq -----------------------------
(***************************************************************************)
(* The sequence-number test of class Stream: which packets AddPacket takes *)
(* into a stream, which it refuses, and how the observer's count of        *)
(* disordered streams follows.  ConnTrack leaves this verdict open; here   *)
(* streams are only opened, fed, ended and deleted.                        *)
(*                                                                         *)
(* A segment of the sender's data has an absolute position, which the code *)
(* never sees, and a sequence number, the initial one plus the position    *)
(* modulo SeqRange (2^32 in the code, an unsigned int).  A bare FIN is a   *)
(* segment of size 0.                                                      *)
(***************************************************************************)
EXTENDS Integers, Sequences, FiniteSets

CONSTANTS
  StreamIds,  \* addresses a Stream can be allocated at
  SeqRange,     \* number of values of an unsigned int
  Isns,       \* sequence numbers a sender's data may start from
  Segments,   \* the segments a sender can send: position and size
  MaxPackets, \* bound on the packets a stream takes
  MaxCount    \* bound on num_stream_disorderd

ASSUME SizesAssumption ==
  /\ SeqRange \in Nat \ {0} /\ MaxPackets \in Nat /\ MaxCount \in Nat
  /\ Segments \subseteq [pos : Nat, size : Nat]
  /\ \A seg \in Segments : seg.pos + seg.size < SeqRange
ASSUME StreamIdsAssumption == IsFiniteSet(StreamIds)
ASSUME IsnsAssumption == Isns \subseteq 0..(SeqRange - 1)

VARIABLES
  stream,                \* the Stream objects
  isn,                   \* the sender's initial sequence number
  accepted,              \* history: the segments in the stream, in order
  num_stream_disorderd,  \* Observer, relative to its (unset) initial value
  disorderLost,          \* history: streams deleted with disorder_flag_ set
  pkt                    \* the packet last given to AddPacket

vars == <<stream, isn, accepted, num_stream_disorderd, disorderLost, pkt>>

SeqNo == 0..(SeqRange - 1)

State == {"FREE", "BEGIN", "CONTINUE", "END"}

Stream == [state : State, last_seq_no : SeqNo, last_size : SeqNo,
           disorder_flag : BOOLEAN]

Free == [state |-> "FREE", last_seq_no |-> 0, last_size |-> 0,
         disorder_flag |-> FALSE]

Packet == [stream : StreamIds, seg : Segments, error : BOOLEAN]

NoPacket == [error |-> FALSE]

Init ==
  /\ stream = [s \in StreamIds |-> Free]
  /\ isn \in [StreamIds -> Isns]
  /\ accepted = [s \in StreamIds |-> <<>>]
  /\ num_stream_disorderd = 0
  /\ disorderLost = 0
  /\ pkt = NoPacket

-----------------------------------------------------------------------------
\* Slip: computed in a wider type.
PlusWide(a, b) == a + b

(* Unsigned addition, for operands in range: it wraps around at SeqRange.  *)
Plus(a, b) == IF a + b < SeqRange THEN a + b ELSE a + b - SeqRange

SeqNoOf(s, seg) == Plus(isn[s], seg.pos)

\* Slip: the size of the last packet is left out.
ExpectedNoSize(s) == stream[s].last_seq_no

Expected(s) == Plus(stream[s].last_seq_no, stream[s].last_size)

\* Slip: only what is older is refused.
RefusesOlder(s, seg) ==
  stream[s].state = "CONTINUE" /\ SeqNoOf(s, seg) < Expected(s)

\* A stream that still is in BEGIN takes whatever comes.
Refuses(s, seg) ==
  stream[s].state = "CONTINUE" /\ SeqNoOf(s, seg) # Expected(s)

Stale(s, seg) == SeqNoOf(s, seg) <= stream[s].last_seq_no

Live(s) == stream[s].state # "FREE"

\* Slip: the flag survives the packet that repairs the stream.
TakenKeepsFlag(s, seg, state) ==
  [state |-> state, last_seq_no |-> SeqNoOf(s, seg), last_size |-> seg.size,
   disorder_flag |-> stream[s].disorder_flag]

\* What AddPacket stores, and the state its caller sets next.
Taken(s, seg, state) ==
  [state |-> state, last_seq_no |-> SeqNoOf(s, seg), last_size |-> seg.size,
   disorder_flag |-> FALSE]

Give(s, seg, error) == pkt' = [stream |-> s, seg |-> seg, error |-> error]

\* new Stream(pkt) and the first AddPacket, at the first data of a connection
\* or when the direction turns.
Open(s, seg) ==
  /\ ~Live(s)
  /\ stream' = [stream EXCEPT ![s] = Taken(s, seg, "BEGIN")]
  /\ accepted' = [accepted EXCEPT ![s] = <<seg>>]
  /\ Give(s, seg, FALSE)
  /\ UNCHANGED <<isn, num_stream_disorderd, disorderLost>>

\* AddPacket takes the packet; a stream that was disordered has recovered.
AddTaken(s, seg) ==
  /\ stream[s].state \in {"BEGIN", "CONTINUE"}
  /\ ~Refuses(s, seg)
  /\ Len(accepted[s]) < MaxPackets
  /\ stream' = [stream EXCEPT ![s] = Taken(s, seg, "CONTINUE")]
  /\ accepted' = [accepted EXCEPT ![s] = Append(@, seg)]
  /\ num_stream_disorderd' =
       num_stream_disorderd - (IF stream[s].disorder_flag THEN 1 ELSE 0)
  /\ Give(s, seg, FALSE)
  /\ UNCHANGED <<isn, disorderLost>>

\* AddPacket refuses a packet that does not follow and is not newer.
AddDuplicate(s, seg) ==
  /\ Refuses(s, seg)
  /\ Stale(s, seg)
  /\ Give(s, seg, TRUE)
  /\ UNCHANGED <<stream, isn, accepted, num_stream_disorderd, disorderLost>>

\* AddPacket refuses a newer packet that does not follow: the stream is
\* counted as disordered, once.
AddOutOfOrder(s, seg) ==
  /\ Refuses(s, seg)
  /\ ~Stale(s, seg)
  /\ stream[s].disorder_flag \/ num_stream_disorderd < MaxCount
  /\ stream' = [stream EXCEPT ![s].disorder_flag = TRUE]
  /\ num_stream_disorderd' =
       num_stream_disorderd + (IF stream[s].disorder_flag THEN 0 ELSE 1)
  /\ Give(s, seg, TRUE)
  /\ UNCHANGED <<isn, accepted, disorderLost>>

\* SetState(END): the direction turned, or a FIN or RST was seen.
End(s) ==
  /\ stream[s].state \in {"BEGIN", "CONTINUE"}
  /\ stream' = [stream EXCEPT ![s].state = "END"]
  /\ UNCHANGED <<isn, accepted, num_stream_disorderd, disorderLost, pkt>>

\* ~Stream, in any state: PacketClean deletes ended and timed-out streams.
\* The next stream at this address belongs to another sender.
Delete(s) ==
  /\ Live(s)
  /\ stream' = [stream EXCEPT ![s] = Free]
  /\ accepted' = [accepted EXCEPT ![s] = <<>>]
  /\ disorderLost' = disorderLost + (IF stream[s].disorder_flag THEN 1 ELSE 0)
  /\ \E i \in Isns : isn' = [isn EXCEPT ![s] = i]
  /\ pkt' = NoPacket
  /\ UNCHANGED num_stream_disorderd

Next ==
  \E s \in StreamIds :
    \/ \E seg \in Segments : \/ Open(s, seg)
                            \/ AddTaken(s, seg)
                            \/ AddDuplicate(s, seg)
                            \/ AddOutOfOrder(s, seg)
    \/ End(s)
    \/ Delete(s)

Spec == Init /\ [][Next]_vars

-----------------------------------------------------------------------------
TypeOK ==
  /\ stream \in [StreamIds -> Stream]
  /\ isn \in [StreamIds -> Isns]
  /\ accepted \in [StreamIds -> Seq(Segments)]
  /\ num_stream_disorderd \in Int
  /\ disorderLost \in Nat
  /\ pkt \in Packet \cup {NoPacket}

SegmentEnd(seg) == seg.pos + seg.size

ReachedBy(s) ==
  /\ Live(s) =>
       LET last == accepted[s][Len(accepted[s])]
       IN /\ accepted[s] # <<>>
          /\ stream[s].last_seq_no = SeqNoOf(s, last)
          /\ stream[s].last_size = last.size
          /\ stream[s].state = "BEGIN" => Len(accepted[s]) = 1
          /\ stream[s].state = "CONTINUE" => Len(accepted[s]) >= 2
  /\ ~Live(s) => accepted[s] = <<>>

\* The two numbers a stream remembers are those of the last packet it took,
\* and BEGIN lasts for its first packet only: HttpDecoder looks for a header
\* in exactly the packets it sees while the stream is in BEGIN.
Reached == \A s \in StreamIds : ReachedBy(s)

Gapless(segs) ==
  \A i \in 3..Len(segs) : segs[i].pos = SegmentEnd(segs[i - 1])

\* From its second packet on a stream holds the sender's bytes without a gap
\* or a repetition, whatever was lost, repeated or reordered on the way and
\* also when the sequence number wraps (AddPacket, the test of line 199).
\* Nothing ties the second packet to the first.
NoGap == \A s \in StreamIds : Gapless(accepted[s])

\* A stream is in step with its sender: it remembers where it stopped, and
\* what it holds up to there has no gap.
InStep == Reached /\ NoGap

Disordered == {s \in StreamIds : stream[s].disorder_flag}

\* The observer's count is the number of live streams that are waiting for a
\* lost segment plus those that were deleted while waiting, which ~Stream
\* never subtracts.
DisorderCounted ==
  num_stream_disorderd = Cardinality(Disordered) + disorderLost

\* A disordered stream is repaired by the missing bytes only: the flag of a
\* live stream is cleared in a step that takes the segment right after the
\* last one taken.
RepairedByMissing ==
  [][\A s \in StreamIds :
       stream[s].disorder_flag /\ stream'[s].state \in {"CONTINUE", "END"} =>
         \/ stream'[s].disorder_flag
         \/ /\ Len(accepted'[s]) = Len(accepted[s]) + 1
            /\ accepted'[s][Len(accepted'[s])].pos =
                 SegmentEnd(accepted[s][Len(accepted[s])])]_vars

=============================================================================
