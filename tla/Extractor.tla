----------------------------- MODULE Extractor -----------------------------
(***************************************************************************)
(* What happens to the matches found in one stream: MatchPreFilter adds a  *)
(* PapaResult for each, and Extractor::Proc collects the ResultSize bytes  *)
(* that follow the match, over as many packets as it takes, and saves them *)
(* as a row of save_result.  A result that still waits at a packet's end   *)
(* stays in the stream's list.                                             *)
(*                                                                         *)
(* A byte of the stream is its absolute position, so that a result string  *)
(* tells which bytes it was filled with.  The bytes that follow a match    *)
(* start at position "at", which also identifies the result: one rule is   *)
(* modelled, the results of several rules do not influence each other.     *)
(* Results are handled in the order of the list, the order of "at".        *)
(* "restarted" is a history variable of a result: it was full when its     *)
(* packet ended, so that its offset was 0 and the next packet handled it   *)
(* as if it had been found there.                                          *)
(***************************************************************************)
EXTENDS Integers, FiniteSets

CONSTANTS
  ResultSize,  \* RESULT_SIZE
  MaxContent,  \* bound on the Layer 7 content of a packet
  MaxBytes     \* bound on the Layer 7 content of a stream

ASSUME SizesAssumption ==
  ResultSize \in Nat \ {0} /\ MaxContent \in Nat /\ MaxBytes \in Nat

VARIABLES
  base,     \* history: bytes of the stream before the next packet
  results,  \* papa_result_list_
  rows,     \* history: the results saved
  dropped,  \* history: the results deleted by the error branch
  hits,     \* history: where the bytes after each match start
  dead      \* memcpy was asked for more bytes than there are

vars == <<base, results, rows, dropped, hits, dead>>

Unset == -1

String == [1..ResultSize -> Nat \cup {Unset}]

Result == [at : Nat, place : Nat, string : String, size : 0..ResultSize,
           offset : 0..ResultSize, finished : BOOLEAN, restarted : BOOLEAN]

TypeOK ==
  /\ base \in 0..MaxBytes
  /\ results \subseteq Result /\ rows \subseteq Result /\ dropped \subseteq Result
  /\ hits \subseteq 1..MaxBytes
  /\ dead \in BOOLEAN

Fresh ==
  /\ base = 0
  /\ results = {} /\ rows = {} /\ dropped = {} /\ hits = {}

Init == Fresh /\ dead = FALSE

-----------------------------------------------------------------------------
\* new PapaResult: of the string only the first byte is set, to 0.
NewResult(place) ==
  [at |-> base + place + 1, place |-> place,
   string |-> [i \in 1..ResultSize |-> Unset], size |-> 0, offset |-> 0,
   finished |-> FALSE, restarted |-> FALSE]

\* SetResultString: k bytes of the packet from its byte "start" on are copied
\* behind the first "skip" bytes of the string.
Fill(string, start, skip, k) ==
  [i \in 1..ResultSize |-> IF skip < i /\ i <= skip + k
                           THEN base + start + i - skip - 1 ELSE string[i]]

\* A result that crosses packets: the rest of its string is in this packet.
Complete(r) ==
  [r EXCEPT !.string = Fill(@, 0, ResultSize - r.offset, r.offset),
            !.size = ResultSize, !.finished = TRUE]

\* Slip: the offset is not lowered.
ExtendKeepsOffset(r, n, flag) ==
  [r EXCEPT !.string = Fill(@, 0, ResultSize - r.offset, n),
            !.size = ResultSize - r.offset + n, !.finished = flag]

\* Slip: the flags of the packet are not looked at.
ExtendUnflagged(r, n, flag) ==
  [r EXCEPT !.string = Fill(@, 0, ResultSize - r.offset, n),
            !.size = ResultSize - r.offset + n, !.offset = @ - n,
            !.finished = FALSE]

\* A result that crosses packets: this packet ends before its string does.
\* n is the size of the packet's content, flag says that the packet has one
\* of the flags FIN, SYN, URG, PSH, RST.
Extend(r, n, flag) ==
  [r EXCEPT !.string = Fill(@, 0, ResultSize - r.offset, n),
            !.size = ResultSize - r.offset + n,
            !.offset = @ - n, !.finished = flag]

ResultStart(r) == r.place + 1

ResultEnd(r) == ResultStart(r) + ResultSize

\* A new result whose string ends before the packet does.
Whole(r) ==
  [r EXCEPT !.string = Fill(@, ResultStart(r), 0, ResultSize),
            !.size = ResultSize, !.finished = TRUE]

\* A new result whose string reaches the end of the packet.
Begun(r, n, flag) ==
  [r EXCEPT !.string = Fill(@, ResultStart(r), 0, n - ResultStart(r)),
            !.size = ResultSize - (ResultEnd(r) - n),
            !.offset = ResultEnd(r) - n, !.finished = flag]

Crossing(r) == r.offset > 0

Full(r) == r.size = ResultSize

\* Slip: a match before the end of a packet always counts as misplaced.
MisplacedOften(r, n) == ~Crossing(r) /\ r.place + 1 >= n

\* The branch that logs an error and deletes the result.
Misplaced(r, n) == ~Crossing(r) /\ r.place > n

\* The size given to memcpy, n - ResultStart(r), is below 0 and unsigned.
Fatal(r, n) == ~Crossing(r) /\ r.place = n

\* Slip: a string is never taken to end in the packet.
HandledNoComplete(r, n, flag) ==
  IF Crossing(r)
  THEN Extend(r, n, flag)
  ELSE IF ResultEnd(r) < n THEN Whole(r) ELSE Begun(r, n, flag)

Handled(r, n, flag) ==
  IF Crossing(r)
  THEN IF r.offset <= n THEN Complete(r) ELSE Extend(r, n, flag)
  ELSE [IF ResultEnd(r) < n THEN Whole(r) ELSE Begun(r, n, flag)
        EXCEPT !.restarted = @ \/ Full(r)]

\* One packet with n bytes of content and matches that end at "places".  If
\* the process dies, it dies at the first fatal result of the list.
Proc(n, flag, places) ==
  LET list == results \cup {NewResult(p) : p \in places}
      reached == {r \in list : \A f \in list : Fatal(f, n) => r.at < f.at}
      misplaced == {r \in reached : Misplaced(r, n)}
      handled == {Handled(r, n, flag) : r \in reached \ misplaced}
  IN /\ ~dead
     /\ base' = base + n
     /\ rows' = rows \cup {r \in handled : r.finished}
     /\ dropped' = dropped \cup misplaced
     /\ results' = {r \in handled : ~r.finished} \cup (list \ reached)
     /\ hits' = hits \cup {base + p + 1 : p \in places}
     /\ dead' = (reached # list)

\* ~Stream deletes the results that still wait, and another stream starts.
DeleteStream ==
  /\ ~dead /\ base > 0
  /\ base' = 0
  /\ results' = {} /\ rows' = {} /\ dropped' = {} /\ hits' = {}
  /\ UNCHANGED dead

Next ==
  \/ \E n \in 0..MaxContent, flag \in BOOLEAN :
       /\ base + n <= MaxBytes
       /\ \E places \in SUBSET (0..(n - 1)) : Proc(n, flag, places)
  \/ DeleteStream

Spec == Init /\ [][Next]_vars

-----------------------------------------------------------------------------
(* The k first bytes of the result's string are those after the match. *)
Follows(r, k) == \A i \in 1..k : r.string[i] = r.at + i - 1

\* A result that waits holds exactly the bytes from its match to the end of
\* the last packet, and its offset is what its string still lacks: so the next
\* packet goes on where the last one stopped.  Not so once it is restarted.
WaitingHoldsPrefix ==
  ~dead => \A r \in results :
    /\ r.size + r.offset = ResultSize
    /\ ~r.restarted => Follows(r, r.size) /\ r.at + r.size = base

\* What is saved is what follows the match, over any number of packets, except
\* for a result that was restarted.
SavedIsWhatFollows ==
  \A r \in rows : ~r.restarted => Follows(r, r.size)

\* From packet to packet a result collects what follows its match, and that is
\* what is saved of it.
CollectedFollows == WaitingHoldsPrefix /\ SavedIsWhatFollows

\* Until its stream is deleted every match is waiting, saved or dropped, and
\* only one of these; and what is dropped was full (the error branch).
NoneLost ==
  /\ hits = {r.at : r \in results \cup rows \cup dropped}
  /\ \A q, r \in results \cup rows \cup dropped : q.at = r.at => q = r
  /\ results \cap (rows \cup dropped) = {} /\ rows \cap dropped = {}
  /\ \A r \in dropped : Full(r)

\* After a packet with one of the flags nothing waits: what ~Stream deletes
\* unsaved was found, or continued, since the last such packet.
FlagFlushes ==
  [][\A n \in 0..MaxContent : \A places \in SUBSET (0..(n - 1)) :
       Proc(n, TRUE, places) /\ ~dead' => results' = {}]_vars
=============================================================================
