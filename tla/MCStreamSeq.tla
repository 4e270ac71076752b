---------------------------- MODULE MCStreamSeq ----------------------------
(***************************************************************************)
(* Small senders for StreamSeq.  With a range of 6 and data that starts at *)
(* 4 the sequence numbers wrap at position 2; with 0 they never do.        *)
(***************************************************************************)
EXTENDS StreamSeq

\* Cut anywhere, overlapping, and with the empty segment of a bare FIN.
AnyCut == {g \in [pos : 0..4, size : 0..2] : g.pos + g.size <= 5}

\* One byte each: enough for two streams that are disordered and repaired.
Bytes == [pos : 0..2, size : {1}]
=============================================================================
