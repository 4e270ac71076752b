---------------------------- MODULE MCConnTrack ----------------------------
(***************************************************************************)
(* Small networks for ConnTrack: sets of packets for its constant Headers. *)
(***************************************************************************)
EXTENDS ConnTrack, TLC

CONSTANTS c1, c2, c3, c4, s1, s2, s3, s4

MCAddrs == {"a", "b"}

At(ip, port) == [ip |-> ip, port |-> port]

H(src, dst, flags, data) ==
  [src |-> src, dst |-> dst, syn |-> "syn" \in flags, ack |-> "ack" \in flags,
   fin |-> "fin" \in flags, rst |-> "rst" \in flags, data |-> data]

\* Everything a client at x and a server at y can say that the code tells
\* apart: opening, data, FIN with and without data, RST, a bare ACK.
Conversation(x, y) ==
  { H(x, y, {"syn"}, FALSE), H(y, x, {"syn", "ack"}, FALSE) } \cup
  UNION {{ H(p, q, {"ack"}, TRUE), H(p, q, {"ack", "fin"}, FALSE),
           H(p, q, {"rst"}, TRUE) } : <<p, q>> \in {<<x, y>>, <<y, x>>}}

Data(x, y) == {H(x, y, {"syn"}, FALSE), H(x, y, {"ack"}, TRUE)}

OneFlow == Conversation(At("a", 2), At("b", 1))

\* The same two addresses and two ports crossed: one port key for both.
SameKey ==
  Data(At("a", 2), At("b", 1)) \cup Data(At("b", 2), At("a", 1))
    \cup {H(At("b", 1), At("a", 2), {"ack", "fin"}, FALSE)}

\* Client and server on one port number: by the ports alone each packet is
\* the client's, so the server's data and FIN find no connection.
EqualPorts ==
  Data(At("a", 1), At("b", 1)) \cup
    {H(At("b", 1), At("a", 1), {"ack"}, TRUE),
     H(At("b", 1), At("a", 1), {"ack", "fin"}, FALSE),
     H(At("a", 1), At("b", 1), {"ack", "fin"}, FALSE)}

AllKinds == OneFlow \cup SameKey \cup EqualPorts

\* For the collector: connections with the bigger key that a FIN opens and
\* ends a stream of, and connections with the smaller key that hold data.
TwoKeys ==
  { H(At("a", 2), At("b", 1), {"syn"}, FALSE),
    H(At("a", 2), At("b", 1), {"ack", "fin"}, FALSE) }
    \cup Data(At("a", 1), At("b", 0))

\* Connections of two keys, opened and never used.
SomeSyns == {H(At("a", k), At("b", 0), {"syn"}, FALSE) : k \in 1..2}

Sym == Permutations({c1, c2, c3, c4}) \cup Permutations({s1, s2, s3, s4})
=============================================================================
