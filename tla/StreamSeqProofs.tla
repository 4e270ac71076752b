-------------------------- MODULE StreamSeqProofs --------------------------
(***************************************************************************)
(* Proofs about StreamSeq, for any number of streams, any range of the     *)
(* sequence numbers and any segments shorter than that range.              *)
(*                                                                         *)
(* NoGap is not inductive: AddPacket compares sequence numbers, NoGap is   *)
(* about positions.  The strengthening is Reached, that the two numbers a  *)
(* stream remembers are those of the last segment it took; wrapping        *)
(* addition is injective on the positions in use (PlusSame), so the        *)
(* segment that carries the expected number is the one that follows.       *)
(***************************************************************************)
EXTENDS StreamSeq, FiniteSetTheorems, TLAPS

\* Two positions within one range with the same sequence number are equal,
\* also when the sequence numbers wrapped in between: a, the initial number,
\* p, the last position, n, the bytes it holds, and q, the new position.
LEMMA PlusSame ==
  ASSUME NEW a \in SeqNo, NEW p \in Nat, NEW n \in Nat, NEW q \in Nat,
         p + n < SeqRange, q < SeqRange,
         Plus(a, q) = Plus(Plus(a, p), n)
  PROVE  q = p + n
BY SizesAssumption DEF Plus, SeqNo

LEMMA PlusType ==
  ASSUME NEW a \in SeqNo, NEW b \in Nat, b < SeqRange
  PROVE  Plus(a, b) \in SeqNo
BY SizesAssumption DEF Plus, SeqNo

LEMMA SegmentType ==
  ASSUME NEW seg \in Segments
  PROVE  /\ seg.pos \in Nat /\ seg.size \in Nat
         /\ seg.pos + seg.size < SeqRange
         /\ seg.pos < SeqRange /\ seg.size \in SeqNo
<1>1. seg \in [pos : Nat, size : Nat]
  BY SizesAssumption
<1>2. seg.pos \in Nat /\ seg.size \in Nat
  BY <1>1
<1>3. seg.pos + seg.size < SeqRange
  BY SizesAssumption
<1> QED
  BY <1>2, <1>3, SizesAssumption DEF SeqNo

LEMMA TakenType ==
  ASSUME TypeOK, NEW s \in StreamIds, NEW seg \in Segments,
         NEW state \in State
  PROVE  Taken(s, seg, state) \in Stream
<1>1. isn[s] \in SeqNo
  BY IsnsAssumption DEF TypeOK, SeqNo
<1>2. SeqNoOf(s, seg) \in SeqNo
  BY <1>1, SegmentType, PlusType DEF SeqNoOf
<1> QED
  BY <1>2, SegmentType DEF Taken, Stream

LEMMA InitType == Init => TypeOK
<1> SUFFICES ASSUME Init PROVE TypeOK
  OBVIOUS
<1>1. Free \in Stream
  <2>1. 0 \in SeqNo
    BY SizesAssumption DEF SeqNo
  <2> QED
    BY <2>1 DEF Free, Stream, State
<1> QED
  BY <1>1 DEF Init, TypeOK

-----------------------------------------------------------------------------
(* The inductive invariant and the steps of the specification. *)

IInv == TypeOK /\ Reached /\ NoGap

LEMMA InitIInv == Init => IInv
<1> SUFFICES ASSUME Init PROVE IInv
  OBVIOUS
<1>1. TypeOK
  BY InitType
<1>2. Reached
  BY DEF Init, Reached, ReachedBy, Live, Free
<1>3. NoGap
  BY DEF Init, NoGap, Gapless
<1> QED
  BY <1>1, <1>2, <1>3 DEF IInv

LEMMA OpenStep ==
  ASSUME IInv, NEW s \in StreamIds, NEW seg \in Segments, Open(s, seg)
  PROVE  IInv'
<1>1. Taken(s, seg, "BEGIN") \in Stream
  BY TakenType DEF IInv, State
<1>2. <<seg>> \in Seq(Segments) /\ Len(<<seg>>) = 1 /\ <<seg>>[1] = seg
  OBVIOUS
<1>3. TypeOK'
  BY <1>1, <1>2 DEF IInv, TypeOK, Open, Give, Packet
<1>4. SUFFICES ASSUME NEW r \in StreamIds
               PROVE  ReachedBy(r)' /\ Gapless(accepted[r])'
  BY <1>3, <1>4 DEF IInv, Reached, NoGap
<1>5. CASE r = s
  <2>1. stream'[r] = Taken(s, seg, "BEGIN") /\ accepted'[r] = <<seg>>
        /\ isn' = isn
    BY <1>5 DEF Open, IInv, TypeOK
  <2>2. Gapless(<<seg>>)
    BY <1>2 DEF Gapless
  <2>3. ReachedBy(r)'
    BY <1>2, <1>5, <2>1 DEF ReachedBy, Live, Taken, SeqNoOf
  <2> QED
    BY <2>1, <2>2, <2>3
<1>6. CASE r # s
  <2>1. stream'[r] = stream[r] /\ accepted'[r] = accepted[r] /\ isn' = isn
    BY <1>6 DEF Open, IInv, TypeOK
  <2> QED
    BY <2>1 DEF IInv, Reached, NoGap, ReachedBy, Live, SeqNoOf
<1> QED
  BY <1>5, <1>6

\* In CONTINUE only the segment is taken that starts where the last one ended.
LEMMA FollowsLast ==
  ASSUME IInv, NEW s \in StreamIds, NEW seg \in Segments, AddTaken(s, seg),
         stream[s].state = "CONTINUE"
  PROVE  seg.pos = SegmentEnd(accepted[s][Len(accepted[s])])
<1> DEFINE last == accepted[s][Len(accepted[s])]
<1>1. last \in Segments
  <2>1. accepted[s] \in Seq(Segments) /\ accepted[s] # <<>>
    BY DEF IInv, TypeOK, Reached, ReachedBy, Live
  <2> QED
    BY <2>1
<1>2. SeqNoOf(s, seg) = Expected(s)
  BY DEF AddTaken, Refuses
<1>3. stream[s].last_seq_no = SeqNoOf(s, last) /\ stream[s].last_size = last.size
  BY DEF IInv, Reached, ReachedBy, Live
<1>4. Plus(isn[s], seg.pos) = Plus(Plus(isn[s], last.pos), last.size)
  BY <1>2, <1>3 DEF SeqNoOf, Expected
<1>5. isn[s] \in SeqNo
  BY IsnsAssumption DEF IInv, TypeOK, SeqNo
<1>6. /\ last.pos \in Nat /\ last.size \in Nat /\ last.pos + last.size < SeqRange
      /\ seg.pos \in Nat /\ seg.pos < SeqRange
  BY <1>1, SegmentType
<1>7. seg.pos = last.pos + last.size
  BY <1>4, <1>5, <1>6, PlusSame
<1> QED
  BY <1>7 DEF SegmentEnd

LEMMA AddTakenStep ==
  ASSUME IInv, NEW s \in StreamIds, NEW seg \in Segments, AddTaken(s, seg)
  PROVE  IInv'
<1> DEFINE acc == accepted[s]
<1> DEFINE last == acc[Len(acc)]
<1>1. /\ Live(s) /\ stream[s].state \in {"BEGIN", "CONTINUE"}
      /\ acc \in Seq(Segments) /\ acc # <<>>
      /\ Len(acc) \in Nat /\ Len(acc) >= 1 /\ last \in Segments
  <2>1. stream[s].state \in {"BEGIN", "CONTINUE"} /\ Live(s)
    BY DEF AddTaken, Live
  <2>2. acc \in Seq(Segments) /\ acc # <<>>
    BY <2>1 DEF IInv, TypeOK, Reached, ReachedBy
  <2>3. Len(acc) \in Nat /\ Len(acc) >= 1 /\ last \in Segments
    BY <2>2
  <2> QED
    BY <2>1, <2>2, <2>3
<1>2. Taken(s, seg, "CONTINUE") \in Stream
  BY TakenType DEF IInv, State
<1>3. /\ Append(acc, seg) \in Seq(Segments)
      /\ Len(Append(acc, seg)) = Len(acc) + 1
      /\ Append(acc, seg)[Len(acc) + 1] = seg
      /\ \A i \in 1..Len(acc) : Append(acc, seg)[i] = acc[i]
  BY <1>1
<1>4. TypeOK'
  <2>1. num_stream_disorderd' \in Int
    BY DEF IInv, TypeOK, AddTaken
  <2> QED
    BY <1>2, <1>3, <2>1 DEF IInv, TypeOK, AddTaken, Give, Packet
<1>5. stream[s].state = "CONTINUE" => seg.pos = SegmentEnd(last)
  BY FollowsLast
<1>6. Gapless(Append(acc, seg))
  <2> SUFFICES ASSUME NEW i \in 3..(Len(acc) + 1)
               PROVE  Append(acc, seg)[i].pos
                        = SegmentEnd(Append(acc, seg)[i - 1])
    BY <1>3 DEF Gapless
  <2>1. CASE i <= Len(acc)
    <3>1. acc[i].pos = SegmentEnd(acc[i - 1])
      BY <2>1, <1>1 DEF IInv, NoGap, Gapless
    <3> QED
      BY <1>1, <1>3, <2>1, <3>1
  <2>2. CASE i = Len(acc) + 1
    <3>1. Len(acc) # 1 /\ i - 1 = Len(acc)
      BY <1>1, <2>2
    <3>2. stream[s].state = "CONTINUE"
      BY <1>1, <3>1 DEF IInv, Reached, ReachedBy
    <3> QED
      BY <1>1, <1>3, <1>5, <2>2, <3>1, <3>2
  <2> QED
    BY <1>1, <2>1, <2>2
<1>7. SUFFICES ASSUME NEW r \in StreamIds
               PROVE  ReachedBy(r)' /\ Gapless(accepted[r])'
  BY <1>4, <1>7 DEF IInv, Reached, NoGap
<1>8. CASE r = s
  <2>1. /\ stream'[r] = Taken(s, seg, "CONTINUE")
        /\ accepted'[r] = Append(acc, seg) /\ isn' = isn
    BY <1>8 DEF AddTaken, IInv, TypeOK
  <2>2. Append(acc, seg) # <<>> /\ Len(acc) + 1 >= 2
    BY <1>1, <1>3
  <2>3. ReachedBy(r)'
    BY <1>3, <1>8, <2>1, <2>2 DEF ReachedBy, Live, Taken, SeqNoOf
  <2> QED
    BY <2>1, <2>3, <1>6
<1>9. CASE r # s
  <2>1. stream'[r] = stream[r] /\ accepted'[r] = accepted[r] /\ isn' = isn
    BY <1>9 DEF AddTaken, IInv, TypeOK
  <2> QED
    BY <2>1 DEF IInv, Reached, NoGap, ReachedBy, Live, SeqNoOf
<1> QED
  BY <1>8, <1>9

\* A packet that is refused leaves what the stream remembers alone.
LEMMA RefusedStep ==
  ASSUME IInv, NEW s \in StreamIds, NEW seg \in Segments,
         AddDuplicate(s, seg) \/ AddOutOfOrder(s, seg)
  PROVE  IInv'
<1>1. CASE AddDuplicate(s, seg)
  <2>1. TypeOK'
    BY <1>1 DEF IInv, TypeOK, AddDuplicate, Give, Packet
  <2>2. Reached' /\ NoGap'
    BY <1>1 DEF IInv, Reached, ReachedBy, Live, SeqNoOf, NoGap, AddDuplicate
  <2> QED
    BY <2>1, <2>2 DEF IInv
<1>2. CASE AddOutOfOrder(s, seg)
  <2>1. /\ stream' = [stream EXCEPT ![s].disorder_flag = TRUE]
        /\ UNCHANGED <<isn, accepted, disorderLost>>
    BY <1>2 DEF AddOutOfOrder
  <2>2. stream' \in [StreamIds -> Stream]
    BY <2>1 DEF IInv, TypeOK, Stream
  <2>3. num_stream_disorderd' \in Int
    BY <1>2 DEF AddOutOfOrder, IInv, TypeOK
  <2>4. pkt' \in Packet
    BY <1>2 DEF AddOutOfOrder, Give, Packet
  <2>5. TypeOK'
    BY <2>1, <2>2, <2>3, <2>4 DEF IInv, TypeOK
  <2>6. \A r \in StreamIds : /\ stream'[r].state = stream[r].state
                             /\ stream'[r].last_seq_no = stream[r].last_seq_no
                             /\ stream'[r].last_size = stream[r].last_size
    BY <2>1 DEF IInv, TypeOK, Stream
  <2>7. Reached' /\ NoGap'
    BY <2>1, <2>6 DEF IInv, Reached, ReachedBy, Live, SeqNoOf, NoGap
  <2> QED
    BY <2>5, <2>7 DEF IInv
<1> QED
  BY <1>1, <1>2

LEMMA EndStep ==
  ASSUME IInv, NEW s \in StreamIds, End(s)
  PROVE  IInv'
<1>1. /\ stream' = [stream EXCEPT ![s].state = "END"]
      /\ UNCHANGED <<isn, accepted, num_stream_disorderd, disorderLost, pkt>>
      /\ Live(s)
  BY DEF End, Live
<1>2. TypeOK'
  BY <1>1 DEF IInv, TypeOK, Stream, State
<1>3. \A r \in StreamIds : /\ stream'[r].last_seq_no = stream[r].last_seq_no
                           /\ stream'[r].last_size = stream[r].last_size
                           /\ r # s => stream'[r].state = stream[r].state
  BY <1>1 DEF IInv, TypeOK, Stream
<1>4. stream'[s].state = "END"
  BY <1>1 DEF IInv, TypeOK, Stream
<1>5. Reached' /\ NoGap'
  BY <1>1, <1>3, <1>4 DEF IInv, Reached, ReachedBy, Live, SeqNoOf, NoGap
<1> QED
  BY <1>2, <1>5 DEF IInv

LEMMA DeleteStep ==
  ASSUME IInv, NEW s \in StreamIds, Delete(s)
  PROVE  IInv'
<1>1. PICK i \in Isns : isn' = [isn EXCEPT ![s] = i]
  BY DEF Delete
<1>2. /\ stream' = [stream EXCEPT ![s] = Free]
      /\ accepted' = [accepted EXCEPT ![s] = <<>>]
      /\ UNCHANGED num_stream_disorderd
      /\ pkt' = NoPacket
  BY DEF Delete
<1>3. disorderLost' \in Nat
  BY DEF Delete, IInv, TypeOK
<1>4. Free \in Stream
  <2>1. 0 \in SeqNo
    BY SizesAssumption DEF SeqNo
  <2> QED
    BY <2>1 DEF Free, Stream, State
<1>5. TypeOK'
  BY <1>1, <1>2, <1>3, <1>4 DEF IInv, TypeOK
<1>6. SUFFICES ASSUME NEW r \in StreamIds
               PROVE  ReachedBy(r)' /\ Gapless(accepted[r])'
  BY <1>5, <1>6 DEF IInv, Reached, NoGap
<1>7. CASE r = s
  <2>1. stream'[r] = Free /\ accepted'[r] = <<>>
    BY <1>2, <1>7 DEF IInv, TypeOK
  <2> QED
    BY <2>1 DEF ReachedBy, Live, Free, Gapless
<1>8. CASE r # s
  <2>1. /\ stream'[r] = stream[r] /\ accepted'[r] = accepted[r]
        /\ isn'[r] = isn[r]
    BY <1>1, <1>2, <1>8 DEF IInv, TypeOK
  <2> QED
    BY <2>1 DEF IInv, Reached, NoGap, ReachedBy, Live, SeqNoOf
<1> QED
  BY <1>7, <1>8

LEMMA StepIInv == IInv /\ [Next]_vars => IInv'
<1> SUFFICES ASSUME IInv, [Next]_vars PROVE IInv'
  OBVIOUS
<1>1. CASE UNCHANGED vars
  BY <1>1 DEF vars, IInv, TypeOK, Reached, ReachedBy, Live, SeqNoOf, NoGap
<1>2. CASE Next
  BY <1>2, OpenStep, AddTakenStep, RefusedStep, EndStep, DeleteStep DEF Next
<1> QED
  BY <1>1, <1>2

-----------------------------------------------------------------------------
\* Every stream record stays well typed; in particular a sequence number
\* never leaves its range (class Stream, stream.h).
THEOREM TypeCorrect == Spec => []TypeOK
<1>1. Init => IInv
  BY InitIInv
<1>2. IInv /\ [Next]_vars => IInv'
  BY StepIInv
<1>3. IInv => TypeOK
  BY DEF IInv
<1> QED
  BY <1>1, <1>2, <1>3, PTL DEF Spec

\* A stream remembers its last packet, leaves BEGIN with its second one
\* (Stream::AddPacket and its callers in StreamRebuild), and no loss, repetition
\* or reordering makes a gap in what it holds from there on, wherever its
\* sequence numbers wrap.
THEOREM InStepCorrect == Spec => []InStep
<1>1. Init => IInv
  BY InitIInv
<1>2. IInv /\ [Next]_vars => IInv'
  BY StepIInv
<1>3. IInv => InStep
  BY DEF IInv, InStep
<1> QED
  BY <1>1, <1>2, <1>3, PTL DEF Spec

-----------------------------------------------------------------------------
(* The count of disordered streams: every step adds as much to the count   *)
(* and to disorderLost as it changes the set of disordered streams by.     *)

\* What changing one stream's flag does to the number of flagged streams.
LEMMA DisorderedStep ==
  ASSUME TypeOK, TypeOK', NEW s \in StreamIds,
         \A r \in StreamIds \ {s} : stream'[r] = stream[r]
  PROVE  /\ Cardinality(Disordered) \in Nat
         /\ (stream'[s].disorder_flag = stream[s].disorder_flag)
              => Cardinality(Disordered') = Cardinality(Disordered)
         /\ (stream'[s].disorder_flag /\ ~stream[s].disorder_flag)
              => Cardinality(Disordered') = Cardinality(Disordered) + 1
         /\ (~stream'[s].disorder_flag /\ stream[s].disorder_flag)
              => Cardinality(Disordered') = Cardinality(Disordered) - 1
<1>1. IsFiniteSet(Disordered) /\ IsFiniteSet(Disordered')
  BY StreamIdsAssumption, FS_Subset DEF Disordered
<1>2. Cardinality(Disordered) \in Nat
  BY <1>1, FS_CardinalityType
<1>3. ASSUME stream'[s].disorder_flag = stream[s].disorder_flag
      PROVE  Cardinality(Disordered') = Cardinality(Disordered)
  <2>1. Disordered' = Disordered
    BY <1>3 DEF Disordered
  <2> QED
    BY <2>1
<1>4. ASSUME stream'[s].disorder_flag, ~stream[s].disorder_flag
      PROVE  Cardinality(Disordered') = Cardinality(Disordered) + 1
  <2>1. Disordered' = Disordered \cup {s} /\ s \notin Disordered
    BY <1>4 DEF Disordered
  <2> QED
    BY <1>1, <2>1, FS_AddElement
<1>5. ASSUME ~stream'[s].disorder_flag, stream[s].disorder_flag
      PROVE  Cardinality(Disordered') = Cardinality(Disordered) - 1
  <2>1. Disordered' = Disordered \ {s} /\ s \in Disordered
    BY <1>5 DEF Disordered
  <2> QED
    BY <1>1, <2>1, FS_RemoveElement
<1> QED
  BY <1>2, <1>3, <1>4, <1>5

\* A free object counts as in order: opening a stream changes no flag.
FreeInOrder == \A s \in StreamIds : ~Live(s) => ~stream[s].disorder_flag

CountInv == IInv /\ FreeInOrder /\ DisorderCounted

LEMMA InitCountInv == Init => CountInv
<1> SUFFICES ASSUME Init PROVE CountInv
  OBVIOUS
<1>1. Disordered = {}
  BY DEF Init, Disordered, Free
<1>2. DisorderCounted
  BY <1>1, FS_EmptySet DEF DisorderCounted, Init
<1>3. FreeInOrder
  BY DEF Init, FreeInOrder, Free
<1> QED
  BY <1>2, <1>3, InitIInv DEF CountInv

LEMMA StepCountInv == CountInv /\ [Next]_vars => CountInv'
<1> SUFFICES ASSUME CountInv, [Next]_vars PROVE CountInv'
  OBVIOUS
<1>1. IInv' /\ TypeOK /\ TypeOK'
  BY StepIInv DEF CountInv, IInv
<1> SUFFICES FreeInOrder' /\ DisorderCounted'
  BY <1>1 DEF CountInv
<1>2. CASE UNCHANGED vars
  BY <1>2 DEF vars, CountInv, FreeInOrder, DisorderCounted, Disordered, Live
<1>3. ASSUME NEW s \in StreamIds, NEW seg \in Segments, Open(s, seg)
      PROVE  FreeInOrder' /\ DisorderCounted'
  <2>1. /\ \A r \in StreamIds \ {s} : stream'[r] = stream[r]
        /\ stream'[s].state = "BEGIN" /\ stream'[s].disorder_flag = FALSE
    BY <1>1, <1>3 DEF Open, Taken, TypeOK
  <2>2. stream[s].disorder_flag = FALSE
    BY <1>1, <1>3 DEF Open, CountInv, FreeInOrder, TypeOK, Stream
  <2>3. Cardinality(Disordered') = Cardinality(Disordered)
    BY <1>1, <2>1, <2>2, DisorderedStep
  <2> QED
    BY <1>3, <2>1, <2>3
    DEF Open, CountInv, FreeInOrder, DisorderCounted, Live
<1>4. ASSUME NEW s \in StreamIds, NEW seg \in Segments, AddTaken(s, seg)
      PROVE  FreeInOrder' /\ DisorderCounted'
  <2>1. /\ \A r \in StreamIds \ {s} : stream'[r] = stream[r]
        /\ stream'[s].state = "CONTINUE" /\ ~stream'[s].disorder_flag
    BY <1>1, <1>4 DEF AddTaken, Taken, TypeOK
  <2>2. FreeInOrder'
    BY <2>1 DEF CountInv, FreeInOrder, Live
  <2>3. disorderLost' = disorderLost
    BY <1>4 DEF AddTaken
  <2>4. CASE stream[s].disorder_flag
    <3>1. Cardinality(Disordered') = Cardinality(Disordered) - 1
      BY <1>1, <2>1, <2>4, DisorderedStep
    <3>2. num_stream_disorderd' = num_stream_disorderd - 1
      BY <1>4, <2>4 DEF AddTaken
    <3>3. Cardinality(Disordered) \in Nat
      BY <1>1, <2>1, DisorderedStep
    <3>4. /\ num_stream_disorderd = Cardinality(Disordered) + disorderLost
          /\ disorderLost \in Nat
      BY <1>1 DEF CountInv, DisorderCounted, TypeOK
    <3>5. DisorderCounted'
      BY <2>3, <3>1, <3>2, <3>3, <3>4 DEF DisorderCounted
    <3> QED
      BY <2>2, <3>5
  <2>5. CASE ~stream[s].disorder_flag
    <3>1. stream'[s].disorder_flag = stream[s].disorder_flag
      BY <1>1, <2>1, <2>5 DEF TypeOK, Stream
    <3>2. Cardinality(Disordered') = Cardinality(Disordered)
      BY <1>1, <2>1, <3>1, DisorderedStep
    <3>3. num_stream_disorderd' = num_stream_disorderd
      BY <1>1, <1>4, <2>5 DEF AddTaken, TypeOK
    <3> QED
      BY <2>2, <2>3, <3>2, <3>3 DEF CountInv, DisorderCounted
  <2> QED
    BY <2>4, <2>5
<1>5. ASSUME NEW s \in StreamIds, NEW seg \in Segments, AddDuplicate(s, seg)
      PROVE  FreeInOrder' /\ DisorderCounted'
  BY <1>5 DEF AddDuplicate, CountInv, FreeInOrder, DisorderCounted,
              Disordered, Live
<1>6. ASSUME NEW s \in StreamIds, NEW seg \in Segments, AddOutOfOrder(s, seg)
      PROVE  FreeInOrder' /\ DisorderCounted'
  <2>1. /\ \A r \in StreamIds \ {s} : stream'[r] = stream[r]
        /\ stream'[s].state = "CONTINUE" /\ stream'[s].disorder_flag
    BY <1>1, <1>6 DEF AddOutOfOrder, Refuses, TypeOK, Stream
  <2>2. FreeInOrder'
    BY <2>1 DEF CountInv, FreeInOrder, Live
  <2>3. disorderLost' = disorderLost
    BY <1>6 DEF AddOutOfOrder
  <2>4. CASE stream[s].disorder_flag
    <3>1. stream'[s].disorder_flag = stream[s].disorder_flag
      BY <1>1, <2>1, <2>4 DEF TypeOK, Stream
    <3>2. Cardinality(Disordered') = Cardinality(Disordered)
      BY <1>1, <2>1, <3>1, DisorderedStep
    <3>3. num_stream_disorderd' = num_stream_disorderd
      BY <1>1, <1>6, <2>4 DEF AddOutOfOrder, TypeOK
    <3> QED
      BY <2>2, <2>3, <3>2, <3>3 DEF CountInv, DisorderCounted
  <2>5. CASE ~stream[s].disorder_flag
    <3>1. Cardinality(Disordered') = Cardinality(Disordered) + 1
      BY <1>1, <2>1, <2>5, DisorderedStep
    <3>2. num_stream_disorderd' = num_stream_disorderd + 1
      BY <1>6, <2>5 DEF AddOutOfOrder
    <3>3. Cardinality(Disordered) \in Nat
      BY <1>1, <2>1, DisorderedStep
    <3>4. /\ num_stream_disorderd = Cardinality(Disordered) + disorderLost
          /\ disorderLost \in Nat
      BY <1>1 DEF CountInv, DisorderCounted, TypeOK
    <3>5. DisorderCounted'
      BY <2>3, <3>1, <3>2, <3>3, <3>4 DEF DisorderCounted
    <3> QED
      BY <2>2, <3>5
  <2> QED
    BY <2>4, <2>5
<1>7. ASSUME NEW s \in StreamIds, End(s)
      PROVE  FreeInOrder' /\ DisorderCounted'
  <2>1. /\ \A r \in StreamIds \ {s} : stream'[r] = stream[r]
        /\ stream'[s].state = "END"
        /\ stream'[s].disorder_flag = stream[s].disorder_flag
    BY <1>1, <1>7 DEF End, TypeOK, Stream
  <2>2. Cardinality(Disordered') = Cardinality(Disordered)
    BY <1>1, <2>1, DisorderedStep
  <2> QED
    BY <1>7, <2>1, <2>2
    DEF End, CountInv, FreeInOrder, DisorderCounted, Live
<1>8. ASSUME NEW s \in StreamIds, Delete(s)
      PROVE  FreeInOrder' /\ DisorderCounted'
  <2>1. /\ \A r \in StreamIds \ {s} : stream'[r] = stream[r]
        /\ stream'[s].disorder_flag = FALSE
    BY <1>1, <1>8 DEF Delete, Free, TypeOK
  <2>2. FreeInOrder'
    BY <2>1 DEF CountInv, FreeInOrder, Live
  <2>3. num_stream_disorderd' = num_stream_disorderd
    BY <1>8 DEF Delete
  <2>4. CASE stream[s].disorder_flag
    <3>1. Cardinality(Disordered') = Cardinality(Disordered) - 1
      BY <1>1, <2>1, <2>4, DisorderedStep
    <3>2. disorderLost' = disorderLost + 1
      BY <1>8, <2>4 DEF Delete
    <3>3. Cardinality(Disordered) \in Nat
      BY <1>1, <2>1, DisorderedStep
    <3>4. /\ num_stream_disorderd = Cardinality(Disordered) + disorderLost
          /\ disorderLost \in Nat
      BY <1>1 DEF CountInv, DisorderCounted, TypeOK
    <3>5. DisorderCounted'
      BY <2>3, <3>1, <3>2, <3>3, <3>4 DEF DisorderCounted
    <3> QED
      BY <2>2, <3>5
  <2>5. CASE ~stream[s].disorder_flag
    <3>1. stream'[s].disorder_flag = stream[s].disorder_flag
      BY <1>1, <2>1, <2>5 DEF TypeOK, Stream
    <3>2. Cardinality(Disordered') = Cardinality(Disordered)
      BY <1>1, <2>1, <3>1, DisorderedStep
    <3>3. disorderLost' = disorderLost
      BY <1>1, <1>8, <2>5 DEF Delete, TypeOK
    <3> QED
      BY <2>2, <2>3, <3>2, <3>3 DEF CountInv, DisorderCounted
  <2> QED
    BY <2>4, <2>5
<1>9. CASE Next
  BY <1>3, <1>4, <1>5, <1>6, <1>7, <1>8, <1>9 DEF Next
<1> QED
  BY <1>2, <1>9

\* The observer's count of disordered streams is exact but for the streams
\* deleted while they were disordered (Observer::StreamDisorderd,
\* StreamDisorderRecoverd; ~Stream calls neither).
THEOREM DisorderCountCorrect == Spec => []DisorderCounted
<1>1. Init => CountInv
  BY InitCountInv
<1>2. CountInv /\ [Next]_vars => CountInv'
  BY StepCountInv
<1>3. CountInv => DisorderCounted
  BY DEF CountInv
<1> QED
  BY <1>1, <1>2, <1>3, PTL DEF Spec

-----------------------------------------------------------------------------
(* Repair.  A stream that waits for a segment is past its first one, so     *)
(* what it takes next is what it waits for.                                 *)

\* Only a stream in CONTINUE is marked, and the mark outlives it in END only.
MarkedLater ==
  \A s \in StreamIds :
    stream[s].state \in {"FREE", "BEGIN"} => stream[s].disorder_flag = FALSE

MarkInv == IInv /\ MarkedLater

LEMMA InitMarkInv == Init => MarkInv
  BY InitIInv DEF Init, MarkInv, MarkedLater, Free

\* What a step does to the state and the mark of the streams.
LEMMA MarkStep ==
  ASSUME MarkInv, [Next]_vars, NEW r \in StreamIds
  PROVE  \/ stream'[r] = stream[r]
         \/ stream'[r].disorder_flag = FALSE
         \/ stream'[r].disorder_flag = stream[r].disorder_flag /\ stream'[r].state = "END"
         \/ stream'[r].disorder_flag = TRUE /\ stream'[r].state = "CONTINUE"
<1>0. TypeOK
  BY DEF MarkInv, IInv
<1>1. CASE UNCHANGED vars
  BY <1>1 DEF vars
<1>2. ASSUME NEW s \in StreamIds, NEW seg \in Segments,
             Open(s, seg) \/ AddTaken(s, seg)
      PROVE  stream'[r] = stream[r] \/ stream'[r].disorder_flag = FALSE
  <2>1. \E state \in State : stream' = [stream EXCEPT ![s] = Taken(s, seg, state)]
    BY <1>2 DEF Open, AddTaken, State
  <2> QED
    BY <1>0, <2>1 DEF TypeOK, Taken
<1>3. ASSUME NEW s \in StreamIds, NEW seg \in Segments, AddDuplicate(s, seg)
      PROVE  stream'[r] = stream[r]
  BY <1>3 DEF AddDuplicate
<1>4. ASSUME NEW s \in StreamIds, NEW seg \in Segments, AddOutOfOrder(s, seg)
      PROVE  \/ stream'[r] = stream[r]
             \/ stream'[r].disorder_flag = TRUE /\ stream'[r].state = "CONTINUE"
  <2>1. /\ stream' = [stream EXCEPT ![s].disorder_flag = TRUE]
        /\ stream[s].state = "CONTINUE"
    BY <1>4 DEF AddOutOfOrder, Refuses
  <2> QED
    BY <1>0, <2>1 DEF TypeOK, Stream
<1>5. ASSUME NEW s \in StreamIds, End(s)
      PROVE  \/ stream'[r] = stream[r]
             \/ /\ stream'[r].disorder_flag = stream[r].disorder_flag
                /\ stream'[r].state = "END"
  BY <1>0, <1>5 DEF TypeOK, Stream, End
<1>6. ASSUME NEW s \in StreamIds, Delete(s)
      PROVE  stream'[r] = stream[r] \/ stream'[r].disorder_flag = FALSE
  BY <1>0, <1>6 DEF TypeOK, Free, Delete
<1> QED
  BY <1>1, <1>2, <1>3, <1>4, <1>5, <1>6 DEF Next

LEMMA StepMarkInv == MarkInv /\ [Next]_vars => MarkInv'
<1> SUFFICES ASSUME MarkInv, [Next]_vars PROVE MarkInv'
  OBVIOUS
<1>1. IInv'
  BY StepIInv DEF MarkInv
<1>2. ASSUME NEW r \in StreamIds, stream'[r].state \in {"FREE", "BEGIN"}
      PROVE  stream'[r].disorder_flag = FALSE
  BY <1>2, MarkStep DEF MarkInv, MarkedLater
<1> QED
  BY <1>1, <1>2 DEF MarkInv, MarkedLater

\* No repetition and no segment out of its place clears the mark of a stream
\* that waits for lost data: only the segment does that starts where the stream
\* stopped (Stream::AddPacket, SetDisorderFlag(false)).
THEOREM RepairCorrect == Spec => RepairedByMissing
<1>1. ASSUME MarkInv, [Next]_vars, NEW r \in StreamIds,
             stream[r].disorder_flag, stream'[r].state \in {"CONTINUE", "END"},
             ~stream'[r].disorder_flag
      PROVE  /\ Len(accepted'[r]) = Len(accepted[r]) + 1
             /\ accepted'[r][Len(accepted'[r])].pos =
                  SegmentEnd(accepted[r][Len(accepted[r])])
  <2>0. TypeOK /\ stream[r].disorder_flag = TRUE /\ stream[r] \in Stream
    BY <1>1 DEF MarkInv, IInv, TypeOK, Stream
  <2>1. ASSUME NEW s \in StreamIds, NEW seg \in Segments, AddTaken(s, seg), r = s
        PROVE  /\ Len(accepted'[r]) = Len(accepted[r]) + 1
               /\ accepted'[r][Len(accepted'[r])].pos =
                    SegmentEnd(accepted[r][Len(accepted[r])])
    <3>1. stream[s].state = "CONTINUE"
      BY <1>1, <2>0, <2>1 DEF MarkInv, MarkedLater, AddTaken
    <3>2. seg.pos = SegmentEnd(accepted[s][Len(accepted[s])])
      BY <1>1, <2>1, <3>1, FollowsLast DEF MarkInv
    <3>3. accepted[s] \in Seq(Segments) /\ accepted'[s] = Append(accepted[s], seg)
      BY <2>0, <2>1 DEF TypeOK, AddTaken
    <3>4. /\ Len(accepted'[s]) = Len(accepted[s]) + 1
          /\ accepted'[s][Len(accepted[s]) + 1] = seg
      BY <3>3
    <3> QED
      BY <2>1, <3>2, <3>4
  <2>2. stream'[r] # stream[r]
    BY <1>1
  <2>3. ASSUME NEW s \in StreamIds, NEW seg \in Segments, Open(s, seg) PROVE FALSE
    <3>1. stream[s].state = "FREE" /\ stream' = [stream EXCEPT ![s] = Taken(s, seg, "BEGIN")]
      BY <2>3 DEF Open, Live
    <3>2. r = s
      BY <2>0, <2>2, <3>1 DEF TypeOK
    <3> QED
      BY <1>1, <2>0, <3>1, <3>2 DEF MarkInv, MarkedLater
  <2>4. ASSUME NEW s \in StreamIds, NEW seg \in Segments,
               AddDuplicate(s, seg) \/ AddOutOfOrder(s, seg)
        PROVE  FALSE
    <3>1. stream' = stream \/ stream' = [stream EXCEPT ![s].disorder_flag = TRUE]
      BY <2>4 DEF AddDuplicate, AddOutOfOrder
    <3> QED
      BY <1>1, <2>0, <2>2, <3>1 DEF TypeOK, Stream
  <2>5. ASSUME NEW s \in StreamIds, End(s) PROVE FALSE
    BY <1>1, <2>0, <2>5 DEF TypeOK, Stream, End
  <2>6. ASSUME NEW s \in StreamIds, Delete(s) PROVE FALSE
    <3>1. stream' = [stream EXCEPT ![s] = Free]
      BY <2>6 DEF Delete
    <3> QED
      BY <1>1, <2>0, <2>2, <3>1 DEF TypeOK, Free
  <2>7. ASSUME NEW s \in StreamIds, NEW seg \in Segments, AddTaken(s, seg)
        PROVE  r = s
    BY <2>0, <2>2, <2>7 DEF TypeOK, AddTaken
  <2>8. Next
    BY <1>1, <2>2 DEF vars
  <2> QED
    BY <2>1, <2>3, <2>4, <2>5, <2>6, <2>7, <2>8 DEF Next
<1>2. MarkInv /\ [Next]_vars =>
        [\A s \in StreamIds :
           stream[s].disorder_flag /\ stream'[s].state \in {"CONTINUE", "END"} =>
             \/ stream'[s].disorder_flag
             \/ /\ Len(accepted'[s]) = Len(accepted[s]) + 1
                /\ accepted'[s][Len(accepted'[s])].pos =
                     SegmentEnd(accepted[s][Len(accepted[s])])]_vars
  BY <1>1
<1> QED
  BY <1>2, InitMarkInv, StepMarkInv, PTL DEF Spec, RepairedByMissing
=============================================================================
