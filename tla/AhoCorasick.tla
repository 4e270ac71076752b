---------------------------- MODULE AhoCorasick ----------------------------
(***************************************************************************)
(* The keyword search of MatchPreFilter: an Aho-Corasick machine is built  *)
(* once from the rules, and then every packet of every stream is read by   *)
(* it, the state it ends in being kept with the stream for the next one.   *)
(*                                                                         *)
(* A node of the machine is the prefix of a keyword that leads to it; the  *)
(* numbers the code gives to nodes are left out.  The content of a packet  *)
(* is what HttpDecoder made of it.                                         *)
(***************************************************************************)
EXTENDS Integers, Sequences, FiniteSets, SequencesExt

CONSTANTS
  RuleLists,   \* the rule files: sequences of keywords
  Chars,       \* the characters there are
  MaxN,        \* MAXN: outputs kept at one node
  StreamIds,   \* addresses a Stream can be allocated at
  MaxContent,  \* bound on the content of a packet
  MaxText      \* bound on the content of a stream

ASSUME RuleListsAssumption ==
  \A rules \in RuleLists :
    /\ rules \in Seq(Seq(Chars)) /\ rules # <<>>
    /\ \A i \in 1..Len(rules) : rules[i] # <<>>
ASSUME BoundsAssumption ==
  MaxN \in Nat \ {0} /\ MaxContent \in Nat /\ MaxText \in Nat

VARIABLES
  rules,     \* the keywords of rule_pool, in order
  g_,        \* goto function, failures included
  out_,      \* per node the rules that match there, as indices into rules
  tmpState,  \* MatchPreFilterState::tmpState_, per stream
  found,     \* papa_result_list_: which rule matched where its keyword ends
  text       \* history: the content of the stream so far

vars == <<rules, g_, out_, tmpState, found, text>>

Root == <<>>

Nodes(keywords) == {Root} \cup UNION {Prefixes(k) : k \in ToSet(keywords)}

-----------------------------------------------------------------------------
(* buildAhoMachine *)

\* The rule found at a node itself: the last one with that keyword.
Own(keywords, q) ==
  LET same == {i \in 1..Len(keywords) : keywords[i] = q}
  IN IF same = {} THEN <<>> ELSE <<Max(same)>>

\* Slip: the failure function is followed once.
StepOnce(nodes, fail, p, c) ==
  IF Append(p, c) \in nodes THEN Append(p, c)
  ELSE IF p # Root /\ Append(fail[p], c) \in nodes THEN Append(fail[p], c)
  ELSE Root

\* Follow the failure function from node p until a node has an edge for c;
\* the root has one for every character, and a failure leads to a shorter node.
Step(nodes, fail, p, c) ==
  LET step[k \in {q \in nodes : Len(q) <= Len(p)}] ==
        IF Append(k, c) \in nodes THEN Append(k, c)
        ELSE IF k = Root THEN Root
        ELSE step[fail[k]]
  IN step[p]

\* Slip: more than MaxN outputs are written.
MergeUnbounded(own, others) == own \o others

\* The outputs of the failure node go into the free places.
Merge(own, others) ==
  LET all == own \o others IN SubSeq(all, 1, Min({MaxN, Len(all)}))

\* The failure function, which for a node depends on that of shorter ones; the
\* code visits the nodes breadth first.
Fail(keywords) ==
  LET nodes == Nodes(keywords)
      fail[q \in nodes] ==
        IF Len(q) <= 1 THEN Root
        ELSE Step(nodes, fail, fail[Front(q)], Last(q))
  IN fail

\* The outputs: those of the failure node are complete when a node is visited.
Out(keywords, fail) ==
  LET out[q \in Nodes(keywords)] ==
        IF q = Root THEN <<>> ELSE Merge(Own(keywords, q), out[fail[q]])
  IN out

\* The failure function is made part of the goto function.
Goto(keywords, fail) ==
  [e \in Nodes(keywords) \X Chars |-> Step(Nodes(keywords), fail, e[1], e[2])]

Init ==
  /\ rules \in RuleLists
  /\ LET fail == Fail(rules) IN g_ = Goto(rules, fail) /\ out_ = Out(rules, fail)
  /\ tmpState = [s \in StreamIds |-> Root]
  /\ found = [s \in StreamIds |-> <<>>]
  /\ text = [s \in StreamIds |-> <<>>]

-----------------------------------------------------------------------------
\* One character, at position "end" of the stream: a result for each output of
\* the node that is reached.
Read(acc, c) ==
  LET q == g_[acc.state, c]
      end == acc.end + 1
      hits == [i \in 1..Len(out_[q]) |-> [rule |-> out_[q][i], end |-> end]]
  IN [state |-> q, end |-> end, found |-> acc.found \o hits]

AhoSearch(s, content) ==
  LET after[n \in 0..Len(content)] ==
        IF n = 0 THEN [state |-> tmpState[s], end |-> Len(text[s]),
                       found |-> found[s]]
        ELSE Read(after[n - 1], content[n])
  IN after[Len(content)]

\* A packet without content is not looked at.
Proc(s, content) ==
  LET done == AhoSearch(s, content)
  IN /\ content # <<>>
     /\ tmpState' = [tmpState EXCEPT ![s] = done.state]
     /\ found' = [found EXCEPT ![s] = done.found]
     /\ text' = [text EXCEPT ![s] = @ \o content]
     /\ UNCHANGED <<rules, g_, out_>>

\* ~Stream deletes the MatchPreFilterState; the next stream makes a new one,
\* which starts at the root.
DeleteStream(s) ==
  /\ text[s] # <<>>
  /\ tmpState' = [tmpState EXCEPT ![s] = Root]
  /\ found' = [found EXCEPT ![s] = <<>>]
  /\ text' = [text EXCEPT ![s] = <<>>]
  /\ UNCHANGED <<rules, g_, out_>>

Contents == UNION {[1..n -> Chars] : n \in 1..MaxContent}

Next ==
  \E s \in StreamIds :
    \/ \E content \in Contents :
         Len(text[s]) + Len(content) <= MaxText /\ Proc(s, content)
    \/ DeleteStream(s)

Spec == Init /\ [][Next]_vars

-----------------------------------------------------------------------------
TypeOK ==
  /\ rules \in RuleLists
  /\ g_ \in [Nodes(rules) \X Chars -> Nodes(rules)]
  /\ DOMAIN out_ = Nodes(rules)
  /\ \A q \in DOMAIN out_ : out_[q] \in Seq(1..Len(rules)) /\ Len(out_[q]) <= MaxN
  /\ tmpState \in [StreamIds -> Nodes(rules)]
  /\ text \in [StreamIds -> Seq(Chars)]
  /\ \A s \in StreamIds :
       found[s] \in Seq([rule : 1..Len(rules), end : 1..MaxText])

\* The state kept for a stream is the longest end of its text that begins a
\* keyword, wherever the packets were cut and whatever other streams were read
\* in between (tmpState_).
StateIsLongestSuffix ==
  \A s \in StreamIds :
    LET ends == {q \in Nodes(rules) : IsSuffix(q, text[s])}
    IN tmpState[s] \in ends /\ \A q \in ends : Len(q) <= Len(tmpState[s])

\* What a reader of the rule file expects at one place of the text: the
\* keywords that end there, each reported for the last rule that has it, and
\* no more than MaxN of them, the longest.
Ending(t) ==
  {i \in 1..Len(rules) : /\ IsSuffix(rules[i], t)
                         /\ \A j \in (i + 1)..Len(rules) : rules[j] # rules[i]}

Longer(t, i) == {j \in Ending(t) : Len(rules[j]) > Len(rules[i])}

Expected(t) == {i \in Ending(t) : Cardinality(Longer(t, i)) < MaxN}

\* The results of a stream are those a search that looks for every keyword at
\* every place finds: none is missed or invented, also when a keyword crosses
\* packets; and none is found twice: they are in the order of the text, and at
\* one place the longest keyword is the first.
FoundIsExpected ==
  \A s \in StreamIds :
    /\ ToSet(found[s]) =
         UNION {{[rule |-> i, end |-> n] : i \in Expected(SubSeq(text[s], 1, n))} :
                  n \in 1..Len(text[s])}
    /\ \A k, l \in 1..Len(found[s]) : k < l =>
         \/ found[s][k].end < found[s][l].end
         \/ /\ found[s][k].end = found[s][l].end
            /\ Len(rules[found[s][k].rule]) > Len(rules[found[s][l].rule])

\* Reading packet by packet is a search of the whole text: the state carries
\* what a later packet needs, and the results are the naive ones.
SearchIsNaive == StateIsLongestSuffix /\ FoundIsExpected
=============================================================================
