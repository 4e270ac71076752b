-------------------------- MODULE ExtractorProofs --------------------------
(***************************************************************************)
(* Extractor: proofs for every RESULT_SIZE and any sequence of packets.    *)
(***************************************************************************)
EXTENDS Extractor, TLAPS

(* A string stays a string when bytes of a packet are copied into it.      *)
LEMMA FillType ==
  ASSUME base \in Nat, NEW string \in String, NEW start \in Nat,
         NEW skip \in Int, NEW k \in Int
  PROVE  /\ Fill(string, start, skip, k) \in String
         /\ \A i \in 1..ResultSize :
              Fill(string, start, skip, k)[i] =
                IF skip < i /\ i <= skip + k THEN base + start + i - skip - 1
                ELSE string[i]
<1>1. ResultSize \in Nat
  BY SizesAssumption
<1>2. ASSUME NEW i \in 1..ResultSize
      PROVE  (IF skip < i /\ i <= skip + k THEN base + start + i - skip - 1
              ELSE string[i]) \in Nat \cup {Unset}
  BY <1>1 DEF String
<1> QED BY <1>2 DEF Fill, String

LEMMA CompleteFacts ==
  ASSUME base \in Nat, NEW r \in Result
  PROVE  /\ Complete(r) \in Result
         /\ Complete(r).at = r.at /\ Complete(r).finished = TRUE
         /\ Complete(r).restarted = r.restarted
         /\ Complete(r).size = ResultSize
         /\ Complete(r).string = Fill(r.string, 0, ResultSize - r.offset, r.offset)
<1>1. ResultSize \in Nat
  BY SizesAssumption
<1>2. r.string \in String /\ r.offset \in 0..ResultSize
  BY DEF Result
<1>3. Fill(r.string, 0, ResultSize - r.offset, r.offset) \in String
  BY <1>1, <1>2, FillType
<1> DEFINE string == Fill(r.string, 0, ResultSize - r.offset, r.offset)
<1>4. Complete(r) = [r EXCEPT !.string = string, !.size = ResultSize,
                              !.finished = TRUE]
  BY DEF Complete
<1>5. string \in String /\ ResultSize \in 0..ResultSize
  BY <1>1, <1>3
<1> HIDE DEF string
<1>6. /\ Complete(r) \in Result
      /\ Complete(r).at = r.at /\ Complete(r).finished = TRUE
      /\ Complete(r).restarted = r.restarted
      /\ Complete(r).size = ResultSize
      /\ Complete(r).string = string
  BY <1>4, <1>5 DEF Result
<1> QED BY <1>6 DEF string

LEMMA ExtendFacts ==
  ASSUME base \in Nat, NEW r \in Result, NEW n \in Nat, n < r.offset,
         NEW flag \in BOOLEAN
  PROVE  /\ Extend(r, n, flag) \in Result
         /\ Extend(r, n, flag).at = r.at
         /\ Extend(r, n, flag).finished = flag
         /\ Extend(r, n, flag).restarted = r.restarted
         /\ Extend(r, n, flag).size = ResultSize - r.offset + n
         /\ Extend(r, n, flag).offset = r.offset - n
         /\ Extend(r, n, flag).string = Fill(r.string, 0, ResultSize - r.offset, n)
<1>1. ResultSize \in Nat
  BY SizesAssumption
<1>2. r.string \in String /\ r.offset \in 0..ResultSize
  BY DEF Result
<1>3. Fill(r.string, 0, ResultSize - r.offset, n) \in String
  BY <1>1, <1>2, FillType
<1>4. ResultSize - r.offset + n \in 0..ResultSize /\ r.offset - n \in 0..ResultSize
  BY <1>1, <1>2
<1> QED BY <1>3, <1>4 DEF Extend, Result

LEMMA WholeFacts ==
  ASSUME base \in Nat, NEW r \in Result
  PROVE  /\ Whole(r) \in Result
         /\ Whole(r).at = r.at /\ Whole(r).finished = TRUE
         /\ Whole(r).restarted = r.restarted
         /\ Whole(r).size = ResultSize
         /\ Whole(r).string = Fill(r.string, r.place + 1, 0, ResultSize)
<1>1. ResultSize \in Nat
  BY SizesAssumption
<1>2. r.string \in String /\ r.place + 1 \in Nat
  BY DEF Result
<1>3. Fill(r.string, r.place + 1, 0, ResultSize) \in String
  BY <1>1, <1>2, FillType
<1> DEFINE string == Fill(r.string, r.place + 1, 0, ResultSize)
<1>4. Whole(r) = [r EXCEPT !.string = string, !.size = ResultSize,
                           !.finished = TRUE]
  BY DEF Whole, ResultStart
<1>5. string \in String /\ ResultSize \in 0..ResultSize
  BY <1>1, <1>3
<1> HIDE DEF string
<1>6. /\ Whole(r) \in Result
      /\ Whole(r).at = r.at /\ Whole(r).finished = TRUE
      /\ Whole(r).restarted = r.restarted
      /\ Whole(r).size = ResultSize
      /\ Whole(r).string = string
  BY <1>4, <1>5 DEF Result
<1> QED BY <1>6 DEF string

LEMMA BegunFacts ==
  ASSUME base \in Nat, NEW r \in Result, NEW n \in Nat, r.place < n,
         ~(ResultEnd(r) < n), NEW flag \in BOOLEAN
  PROVE  /\ Begun(r, n, flag) \in Result
         /\ Begun(r, n, flag).at = r.at
         /\ Begun(r, n, flag).finished = flag
         /\ Begun(r, n, flag).restarted = r.restarted
         /\ Begun(r, n, flag).size = n - r.place - 1
         /\ Begun(r, n, flag).offset = r.place + 1 + ResultSize - n
         /\ Begun(r, n, flag).string = Fill(r.string, r.place + 1, 0, n - (r.place + 1))
<1>1. ResultSize \in Nat
  BY SizesAssumption
<1>2. r.string \in String /\ r.place \in Nat
  BY DEF Result
<1>3. Fill(r.string, r.place + 1, 0, n - (r.place + 1)) \in String
  BY <1>1, <1>2, FillType
<1>4. /\ ResultSize - (r.place + 1 + ResultSize - n) = n - r.place - 1
      /\ n - r.place - 1 \in 0..ResultSize
      /\ r.place + 1 + ResultSize - n \in 0..ResultSize
  BY <1>1, <1>2 DEF ResultEnd, ResultStart
<1> DEFINE string == Fill(r.string, r.place + 1, 0, n - (r.place + 1))
           size == n - r.place - 1
           offset == r.place + 1 + ResultSize - n
<1>5. Begun(r, n, flag) = [r EXCEPT !.string = string, !.size = size,
                                    !.offset = offset, !.finished = flag]
  <2>1. ResultStart(r) = r.place + 1
    BY DEF ResultStart
  <2>2. ResultEnd(r) - n = offset /\ ResultSize - (ResultEnd(r) - n) = size
    BY <1>1, <1>2, <2>1 DEF ResultEnd
  <2>3. Fill(r.string, ResultStart(r), 0, n - ResultStart(r)) = string
    BY <2>1
  <2>4. Begun(r, n, flag) =
          [r EXCEPT !.string = Fill(r.string, ResultStart(r), 0, n - ResultStart(r)),
                    !.size = ResultSize - (ResultEnd(r) - n),
                    !.offset = ResultEnd(r) - n, !.finished = flag]
    BY DEF Begun
  <2> HIDE DEF string, size, offset
  <2> QED BY <2>2, <2>3, <2>4
<1>6. string \in String /\ size \in 0..ResultSize /\ offset \in 0..ResultSize
  BY <1>3, <1>4
<1> HIDE DEF string, size, offset
<1>7. Begun(r, n, flag) \in Result
      /\ Begun(r, n, flag).at = r.at
      /\ Begun(r, n, flag).finished = flag
      /\ Begun(r, n, flag).restarted = r.restarted
      /\ Begun(r, n, flag).size = size
      /\ Begun(r, n, flag).offset = offset
      /\ Begun(r, n, flag).string = string
  BY <1>5, <1>6 DEF Result
<1> QED BY <1>7 DEF string, size, offset

(* What becomes of a result that is handled, whichever way: it keeps the   *)
(* place it belongs to, and if it stays in the list its string and offset  *)
(* make up RESULT_SIZE.                                                    *)
LEMMA HandledFacts ==
  ASSUME base \in Nat, NEW r \in Result, NEW n \in Nat, NEW flag \in BOOLEAN,
         ~Misplaced(r, n), ~Fatal(r, n)
  PROVE  /\ Handled(r, n, flag) \in Result
         /\ Handled(r, n, flag).at = r.at
         /\ flag = TRUE => Handled(r, n, flag).finished = TRUE
         /\ Handled(r, n, flag).finished = FALSE =>
              Handled(r, n, flag).size + Handled(r, n, flag).offset = ResultSize
<1> DEFINE h == Handled(r, n, flag)
           s == IF ResultEnd(r) < n THEN Whole(r) ELSE Begun(r, n, flag)
<1>1. ResultSize \in Nat /\ r.offset \in 0..ResultSize /\ r.place \in Nat
  BY SizesAssumption DEF Result
<1>2. CASE Crossing(r) /\ r.offset <= n
  BY <1>2, CompleteFacts DEF Handled
<1>3. CASE Crossing(r) /\ ~(r.offset <= n)
  <2>1. h = Extend(r, n, flag)
    BY <1>3 DEF Handled
  <2> QED BY <1>1, <1>3, <2>1, ExtendFacts
<1>4. CASE ~Crossing(r)
  <2>1. r.place < n
    BY <1>1, <1>4 DEF Misplaced, Fatal
  <2>2. /\ s \in Result /\ s.at = r.at
        /\ flag = TRUE => s.finished = TRUE
        /\ s.finished = FALSE => s.size + s.offset = ResultSize
    <3>1. CASE ResultEnd(r) < n
      BY <3>1, WholeFacts
    <3>2. CASE ~(ResultEnd(r) < n)
      BY <1>1, <2>1, <3>2, BegunFacts
    <3> QED BY <3>1, <3>2
  <2>3. \E b \in BOOLEAN : h = [s EXCEPT !.restarted = b]
    <3>1. h = [s EXCEPT !.restarted = @ \/ Full(r)]
      BY <1>4 DEF Handled
    <3>2. (s.restarted \/ Full(r)) \in BOOLEAN
      OBVIOUS
    <3> QED BY <3>1, <3>2
  <2> HIDE DEF s, h
  <2>4. PICK b \in BOOLEAN : h = [s EXCEPT !.restarted = b]
    BY <2>3
  <2>5. /\ h \in Result /\ h.at = s.at /\ h.finished = s.finished
        /\ h.size = s.size /\ h.offset = s.offset
    BY <2>2, <2>4 DEF Result
  <2> QED BY <2>2, <2>5 DEF h
<1> QED BY <1>2, <1>3, <1>4

\* A result that was in the list before the packet, and one of this packet.
Waiting(r) ==
  /\ r.size + r.offset = ResultSize
  /\ ~r.restarted => Follows(r, r.size) /\ r.at + r.size = base

FoundNow(r, n) == \E p \in 0..n - 1 : r = NewResult(p)

LEMMA NewResultFacts ==
  ASSUME base \in Nat, NEW p \in Nat
  PROVE  /\ NewResult(p) \in Result
         /\ NewResult(p).at = base + p + 1 /\ NewResult(p).place = p
         /\ NewResult(p).offset = 0 /\ NewResult(p).finished = FALSE
<1>1. [i \in 1..ResultSize |-> Unset] \in String
  BY DEF String
<1>2. 0 \in 0..ResultSize /\ base + p + 1 \in Nat
  BY SizesAssumption
<1> QED BY <1>1, <1>2 DEF NewResult, Result

(* The string of a handled result is what follows its match, as far as it  *)
(* is set, and reaches the end of the packet if the result has to wait.    *)
LEMMA HandledFollows ==
  ASSUME base \in Nat, NEW r \in Result, NEW n \in Nat, NEW flag \in BOOLEAN,
         ~Misplaced(r, n), ~Fatal(r, n), Waiting(r) \/ FoundNow(r, n)
  PROVE  LET h == Handled(r, n, flag)
         IN h.restarted = FALSE =>
              /\ Follows(h, h.size)
              /\ h.finished = FALSE => h.at + h.size = base + n
<1> DEFINE h == Handled(r, n, flag)
           s == IF ResultEnd(r) < n THEN Whole(r) ELSE Begun(r, n, flag)
<1> SUFFICES ASSUME h.restarted = FALSE
             PROVE  /\ Follows(h, h.size)
                    /\ h.finished = FALSE => h.at + h.size = base + n
  OBVIOUS
<1>1. /\ ResultSize \in Nat /\ r.offset \in 0..ResultSize /\ r.place \in Nat
      /\ r.size \in 0..ResultSize /\ r.at \in Nat /\ r.string \in String
      /\ r.restarted \in BOOLEAN
  BY SizesAssumption DEF Result
<1>2. CASE Crossing(r)
  <2>1. Waiting(r)
    <3>1. ASSUME NEW p \in 0..n - 1, r = NewResult(p) PROVE FALSE
      <4>1. p \in Nat
        OBVIOUS
      <4>2. r.offset = 0
        BY <3>1, <4>1, NewResultFacts
      <4> QED BY <1>2, <4>2 DEF Crossing
    <3> QED BY <3>1 DEF FoundNow
  <2>2. h.restarted = r.restarted
    <3>1. CASE r.offset <= n
      BY <1>2, <3>1, CompleteFacts DEF Handled
    <3>2. CASE ~(r.offset <= n)
      <4>1. h = Extend(r, n, flag)
        BY <1>2, <3>2 DEF Handled
      <4> QED BY <1>1, <3>2, <4>1, ExtendFacts
    <3> QED BY <3>1, <3>2
  <2>3. /\ ResultSize - r.offset = r.size
        /\ \A i \in 1..r.size : r.string[i] = r.at + i - 1
        /\ r.at + r.size = base
    BY <1>1, <2>1, <2>2 DEF Waiting, Follows
  <2>4. CASE r.offset <= n
    <3>1. h = Complete(r)
      BY <1>2, <2>4 DEF Handled
    <3>2. h.string = Fill(r.string, 0, r.size, r.offset) /\ h.size = ResultSize
          /\ h.finished = TRUE /\ h.at = r.at
      BY <3>1, <2>3, CompleteFacts
    <3>3. \A i \in 1..ResultSize : h.string[i] = r.at + i - 1
      BY <1>1, <2>3, <3>2, FillType
    <3> QED BY <3>2, <3>3 DEF Follows
  <2>5. CASE ~(r.offset <= n)
    <3>1. h = Extend(r, n, flag)
      BY <1>2, <2>5 DEF Handled
    <3>2. h.string = Fill(r.string, 0, r.size, n) /\ h.size = r.size + n
          /\ h.at = r.at
      BY <1>1, <2>3, <2>5, <3>1, ExtendFacts
    <3>3. \A i \in 1..r.size + n : i \in 1..ResultSize
      BY <1>1, <2>3, <2>5
    <3>4. \A i \in 1..r.size + n : h.string[i] = r.at + i - 1
      <4>1. \A i \in 1..ResultSize :
              h.string[i] = IF r.size < i /\ i <= r.size + n
                            THEN base + 0 + i - r.size - 1 ELSE r.string[i]
        BY <1>1, <3>2, FillType
      <4> QED BY <1>1, <2>3, <3>3, <4>1
    <3>5. h.at + h.size = base + n
      BY <1>1, <2>3, <3>2
    <3> QED BY <3>2, <3>4, <3>5 DEF Follows
  <2> QED BY <2>4, <2>5
<1>3. CASE ~Crossing(r)
  <2>1. h = [s EXCEPT !.restarted = @ \/ Full(r)]
    BY <1>3 DEF Handled
  <2>2. r.place < n
    BY <1>1, <1>3 DEF Misplaced, Fatal
  <2>3. s \in Result /\ s.restarted = r.restarted
    <3>1. CASE ResultEnd(r) < n
      BY <3>1, WholeFacts
    <3>2. CASE ~(ResultEnd(r) < n)
      BY <1>1, <2>2, <3>2, BegunFacts
    <3> QED BY <3>1, <3>2
  <2>4. /\ h.at = s.at /\ h.finished = s.finished /\ h.size = s.size
        /\ h.string = s.string
    BY <2>1, <2>3 DEF Result
  <2>5. ~Full(r)
    <3>1. h.restarted = (s.restarted \/ Full(r))
      <4> HIDE DEF s, h
      <4> QED BY <2>1, <2>3 DEF Result
    <3> QED BY <3>1
  <2>6. ~Waiting(r)
    BY <1>1, <1>3, <2>5 DEF Waiting, Crossing, Full
  <2>7. PICK p \in 0..n - 1 : r = NewResult(p)
    BY <2>6 DEF FoundNow
  <2>8. r.at = base + r.place + 1
    <3>1. p \in Nat
      OBVIOUS
    <3> QED BY <2>7, <3>1, NewResultFacts
  <2>9. CASE ResultEnd(r) < n
    <3>1. h.string = Fill(r.string, r.place + 1, 0, ResultSize) /\ h.at = r.at
          /\ h.size = ResultSize /\ h.finished = TRUE
      BY <2>4, <2>9, WholeFacts
    <3>2. \A i \in 1..ResultSize : h.string[i] = r.at + i - 1
      BY <1>1, <2>8, <3>1, FillType
    <3> QED BY <3>1, <3>2 DEF Follows
  <2>10. CASE ~(ResultEnd(r) < n)
    <3>1. /\ h.string = Fill(r.string, r.place + 1, 0, n - (r.place + 1))
          /\ h.at = r.at /\ h.size = n - r.place - 1
      BY <1>1, <2>2, <2>4, <2>10, BegunFacts
    <3>2. \A i \in 1..n - r.place - 1 : i \in 1..ResultSize
      BY <1>1, <2>2, <2>10 DEF ResultEnd, ResultStart
    <3>3. \A i \in 1..n - r.place - 1 : h.string[i] = r.at + i - 1
      BY <1>1, <2>2, <2>8, <3>1, <3>2, FillType
    <3>4. h.at + h.size = base + n
      BY <1>1, <2>2, <2>8, <3>1
    <3> QED BY <3>1, <3>3, <3>4 DEF Follows
  <2> QED BY <2>9, <2>10
<1> QED BY <1>2, <1>3

-----------------------------------------------------------------------------
(* The inductive invariant: the properties, with what tells the results of *)
(* a new packet from older ones, and waiting results from saved ones.      *)
HitsRead == \A h \in hits : h <= base

WaitingUnfinished ==
  /\ \A r \in results \cup dropped : r.finished = FALSE
  /\ \A r \in rows : r.finished = TRUE

IInv == TypeOK /\ HitsRead /\ WaitingUnfinished /\ NoneLost /\ CollectedFollows

LEMMA InitEstablishes == Init => IInv
<1> SUFFICES ASSUME Init PROVE IInv
  OBVIOUS
<1>1. TypeOK
  <2>1. base = 0 /\ 0 \in 0..MaxBytes
    BY SizesAssumption DEF Init, Fresh
  <2>3. dead \in BOOLEAN
    BY DEF Init
  <2>2. results = {} /\ rows = {} /\ dropped = {} /\ hits = {}
    BY DEF Init, Fresh
  <2> QED BY <2>1, <2>2, <2>3 DEF TypeOK
<1>2. HitsRead /\ WaitingUnfinished /\ NoneLost /\ CollectedFollows
  BY DEF Init, Fresh, HitsRead, WaitingUnfinished, NoneLost, CollectedFollows,
         WaitingHoldsPrefix, SavedIsWhatFollows
<1> QED BY <1>1, <1>2 DEF IInv

LEMMA DeletePreserves == IInv /\ DeleteStream => IInv'
<1> SUFFICES ASSUME IInv, DeleteStream PROVE IInv'
  OBVIOUS
<1>1. TypeOK'
  BY SizesAssumption DEF IInv, DeleteStream, TypeOK
<1>2. HitsRead' /\ WaitingUnfinished' /\ NoneLost' /\ CollectedFollows'
  BY DEF DeleteStream, HitsRead, WaitingUnfinished, NoneLost, CollectedFollows,
         WaitingHoldsPrefix, SavedIsWhatFollows
<1> QED BY <1>1, <1>2 DEF IInv

(* One packet.  The list it works on has no place twice, and none that is  *)
(* saved or dropped; so each of its results ends up in one of the sets.    *)
LEMMA ProcPreserves ==
  ASSUME IInv, NEW n \in Nat, NEW flag \in BOOLEAN,
         NEW places \in SUBSET (0..n - 1), base + n <= MaxBytes,
         Proc(n, flag, places)
  PROVE  IInv'
<1> DEFINE list == results \cup {NewResult(p) : p \in places}
           reached == {r \in list : \A f \in list : Fatal(f, n) => r.at < f.at}
           misplaced == {r \in reached : Misplaced(r, n)}
           rest == reached \ misplaced
           h(r) == Handled(r, n, flag)
           handled == {h(r) : r \in rest}
<1>1. /\ base' = base + n
      /\ rows' = rows \cup {r \in handled : r.finished}
      /\ dropped' = dropped \cup misplaced
      /\ results' = {r \in handled : ~r.finished} \cup (list \ reached)
      /\ hits' = hits \cup {base + p + 1 : p \in places}
      /\ dead' = (reached # list)
      /\ dead = FALSE
  BY DEF IInv, TypeOK, Proc
<1>2. /\ base \in Nat /\ base + n \in 0..MaxBytes /\ ResultSize \in Nat
      /\ results \subseteq Result /\ rows \subseteq Result /\ dropped \subseteq Result
      /\ hits \subseteq 1..MaxBytes
  BY SizesAssumption DEF IInv, TypeOK
<1>3. \A p \in places : p \in Nat /\ p < n
  OBVIOUS
<1>4. list \subseteq Result
  BY <1>2, <1>3, NewResultFacts
<1>5. \A r \in results \cup rows \cup dropped : r.at \in hits /\ r.at <= base
  BY DEF IInv, NoneLost, HitsRead
<1>6. \A r \in list : \/ r \in results /\ Waiting(r)
                      \/ r \notin results \cup rows \cup dropped
                         /\ FoundNow(r, n) /\ r.place < n
                         /\ r.at > base /\ r.at - base - 1 \in places
                         /\ r = NewResult(r.at - base - 1)
  <2>1. ASSUME NEW r \in results PROVE Waiting(r)
    BY <1>1 DEF IInv, CollectedFollows, WaitingHoldsPrefix, Waiting
  <2>2. ASSUME NEW p \in places
        PROVE  LET r == NewResult(p)
               IN /\ r \notin results \cup rows \cup dropped
                  /\ FoundNow(r, n) /\ r.place < n
                  /\ r.at > base /\ r.at - base - 1 = p
    <3>1. NewResult(p).at = base + p + 1 /\ NewResult(p).place = p
      BY <1>2, <1>3, NewResultFacts
    <3>2. NewResult(p).at > base /\ NewResult(p).at - base - 1 = p
      BY <1>2, <1>3, <3>1
    <3>3. NewResult(p) \notin results \cup rows \cup dropped
      BY <1>2, <1>3, <1>5, <3>1
    <3>4. p \in 0..n - 1
      OBVIOUS
    <3> QED BY <1>3, <3>1, <3>2, <3>3, <3>4 DEF FoundNow
  <2> QED BY <2>1, <2>2
<1> HIDE DEF list
<1>7. \A q, r \in list \cup rows \cup dropped : q.at = r.at => q = r
  <2>1. \A q, r \in results \cup rows \cup dropped : q.at = r.at => q = r
    BY DEF IInv, NoneLost
  <2>2. ASSUME NEW q \in list \cup rows \cup dropped, NEW r \in list, q.at = r.at,
               r \notin results
        PROVE  q = r
    <3>1. r = NewResult(r.at - base - 1) /\ r.at > base
      BY <1>6, <2>2
    <3>2. q \notin results \cup rows \cup dropped
      BY <1>2, <1>4, <1>5, <2>2, <3>1 DEF Result
    <3>3. q = NewResult(q.at - base - 1)
      BY <1>6, <3>2
    <3> QED BY <2>2, <3>1, <3>3
  <2> QED BY <2>1, <2>2
<1>8. list \cap (rows \cup dropped) = {} /\ rows \cap dropped = {}
  BY <1>6 DEF IInv, NoneLost
<1> HIDE DEF rest, reached, misplaced, h
<1>9. /\ misplaced \subseteq reached /\ reached \subseteq list
      /\ rest = reached \ misplaced
  BY DEF reached, misplaced, rest
<1>10. \A r \in rest : /\ h(r) \in Result /\ h(r).at = r.at
                       /\ flag = TRUE => h(r).finished = TRUE
                       /\ h(r).finished = FALSE => h(r).size + h(r).offset = ResultSize
                       /\ h(r).restarted = FALSE =>
                            /\ Follows(h(r), h(r).size)
                            /\ h(r).finished = FALSE => h(r).at + h(r).size = base + n
  <2>1. ASSUME NEW r \in rest
        PROVE  r \in Result /\ ~Misplaced(r, n) /\ ~Fatal(r, n)
               /\ (Waiting(r) \/ FoundNow(r, n))
    <3>1. r \in Result /\ r.at \in Nat
      BY <1>4, <1>9 DEF Result
    <3>2. ~Misplaced(r, n)
      BY <1>9 DEF misplaced
    <3>3. ~Fatal(r, n)
      BY <1>9, <3>1 DEF reached
    <3> QED BY <1>6, <1>9, <3>1, <3>2, <3>3
  <2>2. ASSUME NEW r \in rest
        PROVE  /\ h(r) \in Result /\ h(r).at = r.at
               /\ flag = TRUE => h(r).finished = TRUE
               /\ h(r).finished = FALSE => h(r).size + h(r).offset = ResultSize
    BY <1>2, <2>1, HandledFacts DEF h
  <2>3. ASSUME NEW r \in rest
        PROVE  h(r).restarted = FALSE =>
                 /\ Follows(h(r), h(r).size)
                 /\ h(r).finished = FALSE => h(r).at + h(r).size = base + n
    BY <1>2, <2>1, HandledFollows DEF h
  <2> QED BY <2>2, <2>3
<1>11. \A r \in results' \cup rows' \cup dropped' :
         \/ \E q \in rest : r = h(q)
         \/ r \in list \ rest
         \/ r \in rows \cup dropped
  BY <1>1, <1>9
<1> HIDE DEF handled, h
<1>12. handled = {h(r) : r \in rest}
  BY DEF handled
<1>13. TypeOK'
  <2>1. results' \subseteq Result /\ rows' \subseteq Result /\ dropped' \subseteq Result
    BY <1>1, <1>2, <1>4, <1>9, <1>10, <1>12
  <2>2. hits' \subseteq 1..MaxBytes
    <3>1. MaxBytes \in Nat
      BY SizesAssumption
    <3>2. ASSUME NEW p \in places PROVE base + p + 1 \in 1..MaxBytes
      BY <1>2, <1>3, <3>1
    <3> QED BY <1>1, <1>2, <3>2
  <2>3. dead' \in BOOLEAN
    BY <1>1
  <2> QED BY <1>1, <1>2, <2>1, <2>2, <2>3 DEF TypeOK
<1>14. HitsRead'
  BY <1>1, <1>2, <1>3 DEF IInv, HitsRead
<1>15. WaitingUnfinished'
  <2>1. \A r \in list : r.finished = FALSE
    <3>1. ASSUME NEW r \in list, FoundNow(r, n) PROVE r.finished = FALSE
      <4>1. PICK p \in 0..n - 1 : r = NewResult(p)
        BY <3>1 DEF FoundNow
      <4> QED BY <4>1 DEF NewResult
    <3> QED BY <1>6, <3>1 DEF IInv, WaitingUnfinished
  <2>2. \A r \in handled : r.finished \in BOOLEAN
    BY <1>10, <1>12 DEF Result
  <2>3. \A r \in results' \cup dropped' : r.finished = FALSE
    BY <1>1, <1>9, <2>1, <2>2 DEF IInv, WaitingUnfinished
  <2>4. \A r \in rows' : r.finished = TRUE
    BY <1>1, <2>2 DEF IInv, WaitingUnfinished
  <2> QED BY <2>3, <2>4 DEF WaitingUnfinished
<1>16. CollectedFollows'
  <2>1. ASSUME dead' = FALSE, NEW r \in results'
        PROVE  /\ r.size + r.offset = ResultSize
               /\ r.restarted = FALSE => Follows(r, r.size) /\ r.at + r.size = base'
    <3>1. PICK q \in rest : r = h(q)
      BY <1>1, <1>12, <2>1
    <3>2. r.finished = FALSE
      BY <1>15 DEF WaitingUnfinished
    <3> QED BY <1>1, <1>10, <3>1, <3>2
  <2>2. ASSUME NEW r \in rows', r.restarted = FALSE
        PROVE  Follows(r, r.size)
    <3>1. CASE r \in rows
      BY <2>2, <3>1 DEF IInv, CollectedFollows, SavedIsWhatFollows
    <3>2. CASE r \notin rows
      <4>1. PICK q \in rest : r = h(q)
        BY <1>1, <1>12, <2>2, <3>2
      <4> QED BY <1>10, <2>2, <4>1
    <3> QED BY <3>1, <3>2
  <2>3. \A r \in results' \cup rows' : r.restarted \in BOOLEAN
    BY <1>13 DEF TypeOK, Result
  <2> QED BY <1>13, <2>1, <2>2, <2>3
          DEF CollectedFollows, WaitingHoldsPrefix, SavedIsWhatFollows, Follows, TypeOK
<1>17. NoneLost'
  <2>1. hits' = {r.at : r \in results' \cup rows' \cup dropped'}
    <3>1. hits = {r.at : r \in results \cup rows \cup dropped}
      BY DEF IInv, NoneLost
    <3>2. ASSUME NEW x \in hits'
          PROVE  \E r \in list \cup rows \cup dropped : x = r.at
      <4>1. CASE x \in hits
        BY <3>1, <4>1 DEF list
      <4>2. CASE x \notin hits
        <5>1. PICK p \in places : x = base + p + 1
          BY <1>1, <4>2
        <5>2. NewResult(p) \in list /\ NewResult(p).at = x
          BY <1>2, <1>3, <5>1, NewResultFacts DEF list
        <5> QED BY <5>2
      <4> QED BY <4>1, <4>2
    <3>3. ASSUME NEW r \in list \cup rows \cup dropped
          PROVE  \E q \in results' \cup rows' \cup dropped' : q.at = r.at
      <4>1. CASE r \in rest
        <5>1. h(r) \in handled /\ h(r).at = r.at /\ h(r).finished \in BOOLEAN
          BY <1>10, <1>12, <4>1 DEF Result
        <5> QED BY <1>1, <5>1
      <4>2. CASE r \notin rest
        BY <1>1, <1>9, <4>2
      <4> QED BY <4>1, <4>2
    <3>4. ASSUME NEW r \in results' \cup rows' \cup dropped' PROVE r.at \in hits'
      <4>1. ASSUME NEW q \in list PROVE q.at \in hits'
        <5>1. CASE q \in results
          BY <1>1, <1>5, <5>1
        <5>2. CASE q \notin results
          <6>1. q.at - base - 1 \in places /\ q.at \in Nat
            BY <1>4, <1>6, <5>2 DEF Result
          <6> QED BY <1>1, <1>2, <6>1
        <5> QED BY <5>1, <5>2
      <4> QED BY <1>1, <1>5, <1>9, <1>10, <1>11, <4>1
    <3> QED BY <3>2, <3>3, <3>4
  <2>2. ASSUME NEW q \in results' \cup rows' \cup dropped',
               NEW r \in results' \cup rows' \cup dropped', q.at = r.at
        PROVE  q = r
    <3>1. ASSUME NEW a \in rest, NEW b \in rest, h(a).at = h(b).at
          PROVE  h(a) = h(b)
      BY <1>7, <1>9, <1>10, <3>1
    <3>2. ASSUME NEW a \in rest,
                 NEW b \in (list \ rest) \cup rows \cup dropped, h(a).at = b.at
          PROVE  FALSE
      BY <1>7, <1>8, <1>9, <1>10, <3>2
    <3>3. CASE q \in (list \ rest) \cup rows \cup dropped
               /\ r \in (list \ rest) \cup rows \cup dropped
      BY <1>7, <2>2, <3>3
    <3> QED BY <1>11, <2>2, <3>1, <3>2, <3>3
  <2>3. ASSUME NEW r \in results' PROVE r \notin rows' \cup dropped'
    <3>1. r \notin rows'
      BY <1>15 DEF WaitingUnfinished
    <3>2. ASSUME r \in dropped' PROVE FALSE
      <4>1. r \in dropped \cup misplaced
        BY <1>1, <3>2
      <4>2. CASE r \in list \ reached
        BY <1>8, <1>9, <4>1, <4>2
      <4>3. CASE r \notin list \ reached
        <5>1. PICK q \in rest : r = h(q)
          BY <1>1, <1>12, <4>3
        <5>2. q = r
          BY <1>7, <1>9, <1>10, <4>1, <5>1
        <5> QED BY <1>8, <1>9, <4>1, <5>2
      <4> QED BY <4>2, <4>3
    <3> QED BY <3>1, <3>2
  <2>4. ASSUME NEW r \in rows' PROVE r \notin dropped'
    BY <1>15 DEF WaitingUnfinished
  <2>5. ASSUME NEW r \in dropped' PROVE Full(r)
    <3>1. CASE r \in dropped
      BY <3>1 DEF IInv, NoneLost
    <3>2. CASE r \notin dropped
      <4>1. r \in misplaced /\ r \in list
        BY <1>1, <1>9, <3>2
      <4>2. ~Crossing(r) /\ r.place > n /\ r.offset \in 0..ResultSize
            /\ r.place \in Nat /\ r.size \in 0..ResultSize
        BY <1>4, <4>1 DEF misplaced, Misplaced, Result
      <4>3. Waiting(r)
        BY <1>6, <4>1, <4>2
      <4> QED BY <1>2, <4>2, <4>3 DEF Waiting, Crossing, Full
    <3> QED BY <3>1, <3>2
  <2> QED BY <2>1, <2>2, <2>3, <2>4, <2>5 DEF NoneLost, Full
<1> QED BY <1>13, <1>14, <1>15, <1>16, <1>17 DEF IInv

LEMMA NextPreserves == IInv /\ [Next]_vars => IInv'
<1> SUFFICES ASSUME IInv, [Next]_vars PROVE IInv'
  OBVIOUS
<1>1. CASE UNCHANGED vars
  BY <1>1 DEF IInv, vars, TypeOK, HitsRead, WaitingUnfinished, NoneLost, Full,
              CollectedFollows, WaitingHoldsPrefix, SavedIsWhatFollows, Follows
<1>2. CASE DeleteStream
  BY <1>2, DeletePreserves
<1>3. ASSUME NEW n \in 0..MaxContent, NEW flag \in BOOLEAN, base + n <= MaxBytes,
             NEW places \in SUBSET (0..n - 1), Proc(n, flag, places)
      PROVE  IInv'
  <2>1. n \in Nat
    OBVIOUS
  <2> QED BY <1>3, <2>1, ProcPreserves
<1> QED BY <1>1, <1>2, <1>3 DEF Next

(* A result has its fields in range wherever its match is and wherever the *)
(* packets are cut: no offset below 0, no size above RESULT_SIZE           *)
(* (PapaResult, the sizes Extractor::Proc gives to memcpy).                *)
THEOREM TypeCorrect == Spec => []TypeOK
<1>1. IInv => TypeOK
  BY DEF IInv
<1> QED BY <1>1, InitEstablishes, NextPreserves, PTL DEF Spec

(* Every match found is waiting, saved or dropped, and one of these only;  *)
(* what the error branch of Extractor::Proc deletes had its string full.   *)
THEOREM NoneLostCorrect == Spec => []NoneLost
<1>1. IInv => NoneLost
  BY DEF IInv
<1> QED BY <1>1, InitEstablishes, NextPreserves, PTL DEF Spec

(* A result collects the bytes that follow its match, over any number of   *)
(* packets of any size, and that is what is saved, unless it was restarted *)
(* (Extractor::Proc, SetResultString).                                     *)
THEOREM CollectsWhatFollows == Spec => []CollectedFollows
<1>1. IInv => CollectedFollows
  BY DEF IInv
<1> QED BY <1>1, InitEstablishes, NextPreserves, PTL DEF Spec

LEMMA FlagStep ==
  ASSUME IInv, NEW n \in 0..MaxContent, NEW places \in SUBSET (0..n - 1),
         Proc(n, TRUE, places), ~dead'
  PROVE  results' = {}
<1> DEFINE list == results \cup {NewResult(p) : p \in places}
           reached == {r \in list : \A f \in list : Fatal(f, n) => r.at < f.at}
           misplaced == {r \in reached : Misplaced(r, n)}
           handled == {Handled(r, n, TRUE) : r \in reached \ misplaced}
<1>1. /\ results' = {r \in handled : ~r.finished} \cup (list \ reached)
      /\ dead' = (reached # list)
  BY DEF Proc
<1>2. n \in Nat /\ base \in Nat /\ results \subseteq Result
  BY SizesAssumption DEF IInv, TypeOK
<1>3. \A p \in places : p \in Nat
  OBVIOUS
<1>4. list \subseteq Result
  BY <1>2, <1>3, NewResultFacts
<1>5. ASSUME NEW r \in reached \ misplaced
      PROVE  Handled(r, n, TRUE).finished = TRUE
  <2>1. r \in Result /\ r.at \in Nat /\ ~Misplaced(r, n)
    BY <1>4 DEF Result
  <2>2. ~Fatal(r, n)
    BY <2>1
  <2> QED BY <1>2, <2>1, <2>2, HandledFacts
<1>6. list = reached
  BY <1>1
<1> HIDE DEF list, reached, misplaced
<1> QED BY <1>1, <1>5, <1>6

(* After a packet with one of the flags FIN, SYN, URG, PSH, RST no result  *)
(* waits for more of the stream (Extractor::Proc, the flag test).          *)
THEOREM FlagsFlush == Spec => FlagFlushes
<1> DEFINE Flushes ==
      \A n \in 0..MaxContent : \A places \in SUBSET (0..n - 1) :
        Proc(n, TRUE, places) /\ ~dead' => results' = {}
<1>1. IInv /\ [Next]_vars => [Flushes]_vars
  BY FlagStep
<1>2. FlagFlushes <=> [][Flushes]_vars
  BY DEF FlagFlushes
<1> HIDE DEF Flushes
<1> QED BY <1>1, <1>2, InitEstablishes, NextPreserves, PTL DEF Spec
=============================================================================
