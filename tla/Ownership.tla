----------------------------- MODULE Ownership -----------------------------
(***************************************************************************)
(* What connection tracking promises about the life of its objects, with   *)
(* nothing said of packets, ports or timers: a stream belongs to one live  *)
(* connection from its creation to its destruction; the stream that starts *)
(* in a connection retires the one before it; a connection that has had a  *)
(* stream lives exactly as long as one of them; whoever destroys a         *)
(* connection destroys its streams with it.  ConnTrack implements this.    *)
(***************************************************************************)
CONSTANTS ConnIds, StreamIds, None

VARIABLES
  live,      \* the connections that exist
  owner,     \* the connection a stream belongs to, None if it is free
  retired    \* the streams that will receive no more packets

vars == <<live, owner, retired>>

Streams(c) == {s \in StreamIds : owner[s] = c}

Init ==
  /\ live = {}
  /\ owner = [s \in StreamIds |-> None]
  /\ retired = {}

OpenConn(c) ==
  /\ c \notin live
  /\ live' = live \cup {c}
  /\ UNCHANGED <<owner, retired>>

StartStream(c, s) ==
  /\ c \in live
  /\ owner[s] = None
  /\ owner' = [owner EXCEPT ![s] = c]
  /\ retired' = retired \cup Streams(c)
  /\ UNCHANGED live

Retire(s) ==
  /\ owner[s] \in live
  /\ retired' = retired \cup {s}
  /\ UNCHANGED <<live, owner>>

DropStream(s) ==
  /\ owner[s] \in live
  /\ owner' = [owner EXCEPT ![s] = None]
  /\ retired' = retired \ {s}
  /\ live' = IF Streams(owner[s]) = {s} THEN live \ {owner[s]} ELSE live

DropConn(c) ==
  /\ c \in live
  /\ live' = live \ {c}
  /\ owner' = [s \in StreamIds |-> IF owner[s] = c THEN None ELSE owner[s]]
  /\ retired' = retired \ Streams(c)

Next ==
  \/ \E c \in ConnIds : OpenConn(c) \/ DropConn(c)
  \/ \E c \in ConnIds, s \in StreamIds : StartStream(c, s)
  \/ \E s \in StreamIds : Retire(s) \/ DropStream(s)

Spec == Init /\ [][Next]_vars
=============================================================================
