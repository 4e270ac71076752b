------------------------- MODULE AhoCorasickProofs -------------------------
(***************************************************************************)
(* AhoCorasick: proofs for any rules, any alphabet, any MAXN and any       *)
(* number of streams.                                                      *)
(*                                                                         *)
(* The argument is about suffixes.  The node a stream is in is the longest *)
(* suffix of its text that is a node at all (Longest); the failure node of *)
(* a node is its longest proper suffix (IsFail).  Reading one character    *)
(* more, the suffixes that are nodes are found among those of the failure  *)
(* node, and so are the keywords that end at a place.  The recursions of   *)
(* the model are shown to have a solution, and theirs to be that.          *)
(***************************************************************************)
EXTENDS AhoCorasick, SequenceFacts, TLAPS

Words == Seq(Chars)

-----------------------------------------------------------------------------
(* Suffixes. *)

\* x is an end of t, place by place.
Suf(x, t) ==
  Len(x) <= Len(t) /\ \A i \in 1..Len(x) : x[i] = t[Len(t) - Len(x) + i]

LEMMA WordLen ==
  ASSUME NEW x \in Words
  PROVE  Len(x) \in Nat /\ DOMAIN x = 1..Len(x) /\ \A i \in 1..Len(x) : x[i] \in Chars
BY LenProperties DEF Words

LEMMA SuffixMeans ==
  ASSUME NEW x \in Words, NEW t \in Words
  PROVE  IsSuffix(x, t) <=> Suf(x, t)
<1> DEFINE rx == Reverse(x)
           rt == Reverse(t)
<1>1. Len(x) \in Nat /\ Len(t) \in Nat
  BY WordLen
<1>2. /\ rx \in Words /\ Len(rx) = Len(x)
      /\ \A i \in 1..Len(x) : rx[i] = x[(Len(x) - i) + 1]
  BY <1>1, WordLen DEF Reverse, Words
<1>3. /\ rt \in Words /\ Len(rt) = Len(t)
      /\ \A i \in 1..Len(t) : rt[i] = t[(Len(t) - i) + 1]
  BY <1>1, WordLen DEF Reverse, Words
<1> HIDE DEF rx, rt
<1>4. IsSuffix(x, t) <=>
        Len(x) <= Len(t) /\ SubSeq(rx, 1, Len(x)) = SubSeq(rt, 1, Len(x))
  BY <1>2, <1>3 DEF IsSuffix, IsPrefix, rx, rt
<1>5. ASSUME Len(x) <= Len(t)
      PROVE  SubSeq(rx, 1, Len(x)) = SubSeq(rt, 1, Len(x))
               <=> \A i \in 1..Len(x) : rx[i] = rt[i]
  <2> DEFINE sx == SubSeq(rx, 1, Len(x))
             st == SubSeq(rt, 1, Len(x))
  <2>1. \A i \in 1..Len(x) : rx[i] \in Chars /\ rt[i] \in Chars
    BY <1>1, <1>2, <1>3, <1>5, WordLen
  <2>2. /\ sx \in Words /\ Len(sx) = Len(x) /\ \A i \in 1..Len(x) : sx[i] = rx[i]
        /\ st \in Words /\ Len(st) = Len(x) /\ \A i \in 1..Len(x) : st[i] = rt[i]
    BY <1>1, <2>1, SubSeqProperties DEF Words
  <2> HIDE DEF sx, st
  <2> QED BY <2>2, SeqEqual DEF Words, sx, st
<1>6. ASSUME Len(x) <= Len(t)
      PROVE  (\A i \in 1..Len(x) : rx[i] = rt[i])
               <=> \A i \in 1..Len(x) : x[i] = t[Len(t) - Len(x) + i]
  <2>1. ASSUME \A i \in 1..Len(x) : rx[i] = rt[i], NEW i \in 1..Len(x)
        PROVE  x[i] = t[Len(t) - Len(x) + i]
    <3>0. (Len(x) - i) + 1 \in 1..Len(x)
      BY <1>1
    <3>1. PICK j \in 1..Len(x) : j = (Len(x) - i) + 1
      BY <3>0, Zenon
    <3>2. (Len(x) - j) + 1 = i /\ (Len(t) - j) + 1 = Len(t) - Len(x) + i
      BY <1>1, <3>1
    <3>3. rx[j] = x[(Len(x) - j) + 1] /\ rt[j] = t[(Len(t) - j) + 1]
      BY <1>1, <1>2, <1>3, <1>6
    <3> QED BY <2>1, <3>2, <3>3
  <2>2. ASSUME \A i \in 1..Len(x) : x[i] = t[Len(t) - Len(x) + i], NEW i \in 1..Len(x)
        PROVE  rx[i] = rt[i]
    <3>0. (Len(x) - i) + 1 \in 1..Len(x)
      BY <1>1
    <3>1. PICK j \in 1..Len(x) : j = (Len(x) - i) + 1
      BY <3>0, Zenon
    <3>2. Len(t) - Len(x) + j = (Len(t) - i) + 1
      BY <1>1, <3>1
    <3>3. rx[i] = x[j] /\ rt[i] = t[(Len(t) - i) + 1]
      BY <1>1, <1>2, <1>3, <1>6, <3>1
    <3> QED BY <2>2, <3>2, <3>3
  <2> QED BY <2>1, <2>2
<1> QED BY <1>4, <1>5, <1>6 DEF Suf

LEMMA SufEmpty ==
  ASSUME NEW t \in Words
  PROVE  <<>> \in Words /\ Len(<<>>) = 0 /\ Suf(<<>>, t)
BY WordLen DEF Suf, Words

LEMMA SufRefl ==
  ASSUME NEW t \in Words
  PROVE  Suf(t, t)
BY WordLen DEF Suf

LEMMA SufTrans ==
  ASSUME NEW x \in Words, NEW y \in Words, NEW z \in Words, Suf(x, y), Suf(y, z)
  PROVE  Suf(x, z)
<1>1. Len(x) \in Nat /\ Len(y) \in Nat /\ Len(z) \in Nat
  BY WordLen
<1>2. Len(x) <= Len(y) /\ Len(y) <= Len(z)
  BY DEF Suf
<1>3. ASSUME NEW i \in 1..Len(x) PROVE x[i] = z[Len(z) - Len(x) + i]
  <2>1. PICK j \in 1..Len(y) : j = Len(y) - Len(x) + i
    BY <1>1, <1>2
  <2>2. x[i] = y[j] /\ y[j] = z[Len(z) - Len(y) + j]
    BY <2>1 DEF Suf
  <2>3. Len(z) - Len(y) + j = Len(z) - Len(x) + i
    BY <1>1, <2>1
  <2> QED BY <2>2, <2>3
<1> QED BY <1>1, <1>2, <1>3 DEF Suf

\* Of two suffixes of a word the shorter one is a suffix of the longer one.
LEMMA SufCompare ==
  ASSUME NEW x \in Words, NEW y \in Words, NEW z \in Words,
         Suf(x, z), Suf(y, z), Len(x) <= Len(y)
  PROVE  Suf(x, y)
<1>1. Len(x) \in Nat /\ Len(y) \in Nat /\ Len(z) \in Nat
  BY WordLen
<1>2. ASSUME NEW i \in 1..Len(x) PROVE x[i] = y[Len(y) - Len(x) + i]
  <2>1. PICK j \in 1..Len(y) : j = Len(y) - Len(x) + i
    BY <1>1
  <2>2. x[i] = z[Len(z) - Len(x) + i] /\ y[j] = z[Len(z) - Len(y) + j]
    BY DEF Suf
  <2>3. Len(z) - Len(y) + j = Len(z) - Len(x) + i
    BY <1>1, <2>1
  <2> QED BY <2>1, <2>2, <2>3
<1> QED BY <1>2 DEF Suf

LEMMA SufSame ==
  ASSUME NEW x \in Words, NEW t \in Words, Suf(x, t), Len(t) <= Len(x)
  PROVE  x = t
<1>1. Len(x) \in Nat /\ Len(t) \in Nat /\ Len(x) = Len(t)
  BY WordLen DEF Suf
<1>2. \A i \in 1..Len(x) : x[i] = t[i]
  <2> TAKE i \in 1..Len(x)
  <2>1. Len(t) - Len(x) + i = i
    BY <1>1
  <2> QED BY <2>1 DEF Suf
<1> QED BY <1>1, <1>2, SeqEqual DEF Words

LEMMA SufAppend ==
  ASSUME NEW x \in Words, NEW t \in Words, NEW c \in Chars, NEW d \in Chars
  PROVE  Suf(Append(x, c), Append(t, d)) <=> c = d /\ Suf(x, t)
<1> DEFINE xc == Append(x, c)
           td == Append(t, d)
<1>1. Len(x) \in Nat /\ Len(t) \in Nat
  BY WordLen
<1>2. /\ Len(xc) = Len(x) + 1 /\ xc[Len(x) + 1] = c
      /\ \A i \in 1..Len(x) : xc[i] = x[i]
      /\ Len(td) = Len(t) + 1 /\ td[Len(t) + 1] = d
      /\ \A i \in 1..Len(t) : td[i] = t[i]
  BY AppendProperties DEF Words
<1> HIDE DEF xc, td
<1>3. ASSUME Suf(xc, td) PROVE c = d /\ Suf(x, t)
  <2>1. Len(x) <= Len(t) /\ Len(td) - Len(xc) = Len(t) - Len(x)
    BY <1>1, <1>2, <1>3 DEF Suf
  <2>2. xc[Len(x) + 1] = td[Len(t) + 1]
    <3>0. Len(x) + 1 \in 1..Len(xc)
      BY <1>1, <1>2
    <3>1. PICK i \in 1..Len(xc) : i = Len(x) + 1
      BY <3>0, Zenon
    <3>2. Len(td) - Len(xc) + i = Len(t) + 1
      BY <1>1, <2>1, <3>1
    <3>3. xc[i] = td[Len(td) - Len(xc) + i]
      BY <1>3 DEF Suf
    <3> QED BY <3>1, <3>2, <3>3
  <2>3. ASSUME NEW i \in 1..Len(x) PROVE x[i] = t[Len(t) - Len(x) + i]
    <3>1. i \in 1..Len(xc) /\ Len(t) - Len(x) + i \in 1..Len(t)
      BY <1>1, <1>2, <2>1
    <3>2. xc[i] = td[Len(td) - Len(xc) + i]
      BY <1>3, <3>1 DEF Suf
    <3> QED BY <1>2, <2>1, <3>1, <3>2
  <2> QED BY <1>2, <2>1, <2>2, <2>3 DEF Suf
<1>4. ASSUME c = d, Suf(x, t) PROVE Suf(xc, td)
  <2>1. Len(x) <= Len(t) /\ Len(td) - Len(xc) = Len(t) - Len(x)
    BY <1>1, <1>2, <1>4 DEF Suf
  <2>2. ASSUME NEW i \in 1..Len(xc) PROVE xc[i] = td[Len(td) - Len(xc) + i]
    <3>1. CASE i = Len(x) + 1
      <4>1. Len(td) - Len(xc) + i = Len(t) + 1
        BY <1>1, <2>1, <3>1
      <4> QED BY <1>2, <1>4, <3>1, <4>1
    <3>2. CASE i # Len(x) + 1
      <4>1. i \in 1..Len(x) /\ Len(t) - Len(x) + i \in 1..Len(t)
        BY <1>1, <1>2, <2>1, <3>2
      <4>2. x[i] = t[Len(t) - Len(x) + i]
        BY <1>4, <4>1 DEF Suf
      <4> QED BY <1>2, <2>1, <4>1, <4>2
    <3> QED BY <3>1, <3>2
  <2> QED BY <1>1, <1>2, <2>1, <2>2 DEF Suf
<1> QED BY <1>3, <1>4 DEF xc, td

LEMMA WordAppend ==
  ASSUME NEW x \in Words, NEW c \in Chars
  PROVE  Append(x, c) \in Words /\ Len(Append(x, c)) = Len(x) + 1
BY AppendProperties DEF Words

\* A word that is not empty is what is before its last character, and that.
LEMMA FrontLast ==
  ASSUME NEW x \in Words, x # <<>>
  PROVE  /\ Front(x) \in Words /\ Last(x) \in Chars
         /\ x = Append(Front(x), Last(x)) /\ Len(x) = Len(Front(x)) + 1
<1>1. Len(x) \in Nat \ {0}
  BY EmptySeq DEF Words
<1>2. /\ Front(x) \in Words /\ Len(Front(x)) = Len(x) - 1
      /\ \A i \in 1..Len(x) - 1 : Front(x)[i] = x[i]
  <2>1. PICK n \in Nat : n = Len(x) - 1
    BY <1>1
  <2>2. \A i \in 1..n : x[i] \in Chars
    BY <1>1, <2>1, WordLen
  <2> DEFINE y == SubSeq(x, 1, n)
  <2>3. n \in Int /\ 1 \in Int
    OBVIOUS
  <2>4. /\ y \in Seq(Chars) /\ Len(y) = (IF 1 <= n THEN n - 1 + 1 ELSE 0)
        /\ \A i \in 1..n - 1 + 1 : y[i] = x[1 + i - 1]
    BY <2>2, <2>3, SubSeqProperties
  <2>5. Front(x) = y
    BY <2>1 DEF Front
  <2> HIDE DEF y
  <2>6. Len(y) = n
    BY <2>1, <2>4
  <2>7. ASSUME NEW i \in 1..n PROVE y[i] = x[i]
    <3>1. i \in 1..n - 1 + 1 /\ 1 + i - 1 = i
      BY <2>1
    <3> QED BY <2>4, <3>1
  <2> QED BY <2>1, <2>4, <2>5, <2>6, <2>7 DEF Words
<1>3. Last(x) = x[Len(x)] /\ Last(x) \in Chars
  BY <1>1, WordLen DEF Last
<1> DEFINE y == Append(Front(x), Last(x))
<1>4. /\ y \in Words /\ Len(y) = Len(x) /\ y[Len(x)] = x[Len(x)]
      /\ \A i \in 1..Len(x) - 1 : y[i] = x[i]
  <2>1. /\ y \in Words /\ Len(y) = Len(Front(x)) + 1
        /\ y[Len(Front(x)) + 1] = Last(x)
        /\ \A i \in 1..Len(Front(x)) : y[i] = Front(x)[i]
    BY <1>2, <1>3, AppendProperties DEF Words
  <2> HIDE DEF y
  <2> QED BY <1>1, <1>2, <1>3, <2>1
<1> HIDE DEF y
<1>5. \A i \in 1..Len(x) : y[i] = x[i]
  BY <1>1, <1>4
<1>6. y = x
  BY <1>4, <1>5, SeqEqual DEF Words
<1> QED BY <1>1, <1>2, <1>3, <1>6 DEF y

-----------------------------------------------------------------------------
(* Nodes, and the longest suffixes among them. *)

\* What a trie is: with a node, everything on the way to it.
Closed(N) ==
  /\ N \subseteq Words
  /\ <<>> \in N
  /\ \A p \in Words, c \in Chars : Append(p, c) \in N => p \in N

\* q is the longest suffix of t that is a node.
Longest(q, t, N) ==
  /\ q \in N /\ Suf(q, t)
  /\ \A x \in N : Suf(x, t) => Len(x) <= Len(q)

\* f is the longest proper suffix of q that is a node.
IsFail(f, q, N) ==
  /\ f \in N /\ Suf(f, q) /\ Len(f) < Len(q)
  /\ \A x \in N : Suf(x, q) /\ Len(x) < Len(q) => Len(x) <= Len(f)

LEMMA RuleFacts ==
  ASSUME NEW K \in RuleLists
  PROVE  /\ Len(K) \in Nat \ {0} /\ DOMAIN K = 1..Len(K)
         /\ \A i \in 1..Len(K) : K[i] \in Words /\ K[i] # <<>>
<1>1. K \in Seq(Words) /\ K # <<>>
  BY RuleListsAssumption DEF Words
<1>2. Len(K) \in Nat \ {0} /\ DOMAIN K = 1..Len(K)
  BY <1>1, EmptySeq, LenProperties
<1>3. \A i \in 1..Len(K) : K[i] \in Words
  BY <1>1, ElementOfSeq
<1>4. \A i \in 1..Len(K) : K[i] # <<>>
  BY RuleListsAssumption
<1> QED BY <1>2, <1>3, <1>4

\* The beginnings of a word are words, and closed as those of a trie are.
LEMMA PrefixFacts ==
  ASSUME NEW k \in Words
  PROVE  /\ k \in Prefixes(k) /\ Prefixes(k) \subseteq Words
         /\ \A p \in Words, c \in Chars :
              Append(p, c) \in Prefixes(k) => p \in Prefixes(k)
<1>1. Len(k) \in Nat /\ \A i \in 1..Len(k) : k[i] \in Chars
  BY WordLen
<1>2. ASSUME NEW l \in 0..Len(k)
      PROVE  /\ SubSeq(k, 1, l) \in Words /\ Len(SubSeq(k, 1, l)) = l
             /\ \A i \in 1..l : SubSeq(k, 1, l)[i] = k[i]
  <2>1. Len(k) \in Nat
    BY <1>1
  <2>2. l \in Nat /\ l <= Len(k)
    BY ONLY <2>1, l \in 0..Len(k)
  <2> QED BY <2>2, FrontFacts DEF Words
<1>3. k \in Prefixes(k)
  <2>1. SubSeq(k, 1, Len(k)) = k /\ Len(k) \in 0..Len(k)
    BY <1>1, SubSeqFull DEF Words
  <2> QED BY <2>1 DEF Prefixes
<1>4. Prefixes(k) \subseteq Words
  BY <1>2 DEF Prefixes
<1>5. ASSUME NEW p \in Words, NEW c \in Chars, Append(p, c) \in Prefixes(k)
      PROVE  p \in Prefixes(k)
  <2>1. PICK l \in 0..Len(k) : Append(p, c) = SubSeq(k, 1, l)
    BY <1>5 DEF Prefixes
  <2>2. /\ Len(p) \in Nat /\ Len(Append(p, c)) = Len(p) + 1
        /\ \A i \in 1..Len(p) : Append(p, c)[i] = p[i]
    BY WordLen, AppendProperties DEF Words
  <2>3. Len(p) + 1 = l /\ Len(p) \in 0..Len(k)
    BY <1>1, <1>2, <2>1, <2>2
  <2>4. \A i \in 1..Len(p) : p[i] = k[i]
    BY <1>2, <2>1, <2>2, <2>3
  <2>5. p = SubSeq(k, 1, Len(p))
    <3>1. PICK y \in Words : y = SubSeq(k, 1, Len(p))
      BY <1>2, <2>3
    <3>2. Len(y) = Len(p) /\ \A i \in 1..Len(p) : y[i] = k[i]
      BY <1>2, <2>3, <3>1
    <3> QED BY <2>4, <3>1, <3>2, SeqEqual DEF Words
  <2> QED BY <2>3, <2>5 DEF Prefixes
<1> QED BY <1>3, <1>4, <1>5

LEMMA NodesClosed ==
  ASSUME NEW K \in RuleLists
  PROVE  /\ Closed(Nodes(K))
         /\ \A i \in 1..Len(K) : K[i] \in Nodes(K)
<1>1. \A i \in 1..Len(K) : K[i] \in Words
  BY RuleFacts
<1>2. ToSet(K) = {K[i] : i \in 1..Len(K)}
  BY RuleFacts DEF ToSet
<1>3. ToSet(K) \subseteq Words
  BY <1>1, <1>2
<1>0. \A x : x \in Nodes(K) <=> x = <<>> \/ \E k \in ToSet(K) : x \in Prefixes(k)
  BY DEF Nodes, Root
<1>4. Nodes(K) \subseteq Words
  <2>1. <<>> \in Words
    BY EmptySeq DEF Words
  <2> QED BY <1>0, <1>3, <2>1, PrefixFacts
<1>5. ASSUME NEW p \in Words, NEW c \in Chars, Append(p, c) \in Nodes(K)
      PROVE  p \in Nodes(K)
  <2>1. Append(p, c) # <<>>
    BY AppendProperties DEF Words
  <2>2. PICK k \in ToSet(K) : Append(p, c) \in Prefixes(k)
    BY <1>0, <1>5, <2>1
  <2>3. p \in Prefixes(k)
    BY <1>3, <2>2, PrefixFacts
  <2> QED BY <1>0, <2>2, <2>3
<1>6. \A i \in 1..Len(K) : K[i] \in Nodes(K)
  BY <1>0, <1>1, <1>2, PrefixFacts
<1> QED BY <1>0, <1>4, <1>5, <1>6 DEF Closed

\* Of words of bounded length one is longest.
LEMMA LongestOf ==
  ASSUME NEW M \in SUBSET Words, M # {}, NEW n \in Nat,
         \A x \in M : Len(x) <= n
  PROVE  \E q \in M : \A x \in M : Len(x) <= Len(q)
<1> DEFINE short == {n - Len(x) : x \in M}
<1>1. short \in SUBSET Nat /\ short # {}
  BY WordLen
<1>2. PICK m \in short : \A k \in short : m <= k
  <2> HIDE DEF short
  <2> QED BY <1>1, Least
<1>3. PICK q \in M : m = n - Len(q)
  BY <1>2
<1>4. ASSUME NEW x \in M PROVE Len(x) <= Len(q)
  <2>1. n - Len(q) <= n - Len(x)
    BY <1>2, <1>3
  <2>2. Len(x) \in Nat /\ Len(q) \in Nat
    BY WordLen
  <2> QED BY <2>1, <2>2
<1> QED BY <1>4

LEMMA LongestExists ==
  ASSUME NEW N, Closed(N), NEW t \in Words
  PROVE  \E q \in N : Longest(q, t, N)
<1> DEFINE M == {x \in N : Suf(x, t)}
<1>1. M \in SUBSET Words /\ <<>> \in M /\ Len(t) \in Nat
  BY SufEmpty, WordLen DEF Closed
<1>2. \A x \in M : Len(x) <= Len(t)
  BY DEF Suf
<1>3. \E q \in M : \A x \in M : Len(x) <= Len(q)
  <2> HIDE DEF M
  <2> QED BY <1>1, <1>2, LongestOf
<1> QED BY <1>3 DEF Longest

LEMMA LongestUnique ==
  ASSUME NEW N, Closed(N), NEW t \in Words, NEW a, NEW b,
         Longest(a, t, N), Longest(b, t, N)
  PROVE  a = b
<1>1. /\ a \in Words /\ b \in Words /\ Suf(a, t) /\ Suf(b, t)
      /\ Len(a) <= Len(b) /\ Len(b) <= Len(a)
  BY DEF Longest, Closed
<1>2. Suf(a, b)
  BY <1>1, SufCompare
<1> QED BY <1>1, <1>2, SufSame

LEMMA FailExists ==
  ASSUME NEW N, Closed(N), NEW q \in N, q # <<>>
  PROVE  \E f \in N : IsFail(f, q, N)
<1> DEFINE M == {x \in N : Suf(x, q) /\ Len(x) < Len(q)}
<1>1. q \in Words /\ Len(q) \in Nat \ {0}
  BY EmptySeq DEF Closed, Words
<1>2. M \in SUBSET Words /\ <<>> \in M
  BY <1>1, SufEmpty DEF Closed
<1>3. \A x \in M : Len(x) <= Len(q)
  BY DEF Suf
<1>4. \E f \in M : \A x \in M : Len(x) <= Len(f)
  <2> HIDE DEF M
  <2> QED BY <1>1, <1>2, <1>3, LongestOf
<1> QED BY <1>4 DEF IsFail

LEMMA FailUnique ==
  ASSUME NEW N, Closed(N), NEW q \in N, NEW a, NEW b,
         IsFail(a, q, N), IsFail(b, q, N)
  PROVE  a = b
<1>1. /\ a \in Words /\ b \in Words /\ q \in Words /\ Suf(a, q) /\ Suf(b, q)
      /\ Len(a) <= Len(b) /\ Len(b) <= Len(a)
  BY DEF IsFail, Closed
<1>2. Suf(a, b)
  BY <1>1, SufCompare
<1> QED BY <1>1, <1>2, SufSame

\* A suffix of a word with one character more is empty, or a suffix of that
\* word with the same character.
LEMMA SuffixesOfAppend ==
  ASSUME NEW N, Closed(N), NEW k \in Words, NEW c \in Chars,
         NEW x \in N, Suf(x, Append(k, c)), x # <<>>
  PROVE  \E y \in N : x = Append(y, c) /\ Suf(y, k) /\ Len(x) = Len(y) + 1
<1>1. x \in Words
  BY DEF Closed
<1>2. PICK y \in Words, d \in Chars : x = Append(y, d) /\ Len(x) = Len(y) + 1
  BY <1>1, FrontLast
<1>3. d = c /\ Suf(y, k)
  BY <1>2, SufAppend
<1> QED BY <1>2, <1>3 DEF Closed

\* Where a node has no edge for a character, its failure node has the same
\* longest suffix with that character.
LEMMA ThroughFailure ==
  ASSUME NEW N, Closed(N), NEW k \in N, NEW c \in Chars, Append(k, c) \notin N,
         NEW f, IsFail(f, k, N), NEW r, Longest(r, Append(f, c), N)
  PROVE  Longest(r, Append(k, c), N)
<1>1. k \in Words /\ f \in Words /\ r \in Words /\ f \in N /\ r \in N
  BY DEF Closed, IsFail, Longest
<1>2. Append(k, c) \in Words /\ Append(f, c) \in Words
  BY <1>1, WordAppend
<1>3. Suf(r, Append(k, c))
  <2>1. Suf(Append(f, c), Append(k, c))
    BY <1>1, SufAppend DEF IsFail
  <2> QED BY <1>1, <1>2, <2>1, SufTrans DEF Longest
<1>4. ASSUME NEW x \in N, Suf(x, Append(k, c)) PROVE Len(x) <= Len(r)
  <2>1. CASE x = <<>>
    BY <1>1, <2>1, WordLen, SufEmpty
  <2>2. CASE x # <<>>
    <3>1. PICK y \in N : x = Append(y, c) /\ Suf(y, k)
      BY <1>1, <1>4, <2>2, SuffixesOfAppend
    <3>2. y \in Words /\ y # k
      BY <3>1 DEF Closed
    <3>3. Len(y) < Len(k)
      <4>1. Len(y) \in Nat /\ Len(k) \in Nat
        BY <1>1, <3>2, WordLen
      <4>2. ~(Len(k) <= Len(y))
        BY <1>1, <3>1, <3>2, SufSame
      <4> QED BY <4>1, <4>2
    <3>4. Len(y) <= Len(f)
      BY <3>1, <3>3 DEF IsFail
    <3>5. Suf(y, f)
      BY <1>1, <3>1, <3>2, <3>4, SufCompare DEF IsFail
    <3>6. Suf(x, Append(f, c))
      BY <1>1, <3>1, <3>2, <3>5, SufAppend
    <3> QED BY <3>6 DEF Longest
  <2> QED BY <2>1, <2>2
<1> QED BY <1>1, <1>3, <1>4 DEF Longest

LEMMA LongestItself ==
  ASSUME NEW N, Closed(N), NEW q \in N
  PROVE  Longest(q, q, N)
BY SufRefl DEF Longest, Suf, Closed

LEMMA LongestAtRoot ==
  ASSUME NEW N, Closed(N), NEW c \in Chars, Append(<<>>, c) \notin N
  PROVE  Longest(<<>>, Append(<<>>, c), N)
<1>1. <<>> \in Words /\ Append(<<>>, c) \in Words /\ Len(<<>>) = 0
  BY SufEmpty, WordAppend DEF Words
<1>2. ASSUME NEW x \in N, Suf(x, Append(<<>>, c)) PROVE Len(x) <= 0
  <2>1. CASE x = <<>>
    BY <1>1, <2>1
  <2>2. CASE x # <<>>
    <3>1. PICK y \in N : x = Append(y, c) /\ Suf(y, <<>>)
      BY <1>1, <1>2, <2>2, SuffixesOfAppend
    <3>2. y \in Words /\ Len(y) \in Nat /\ Len(y) <= 0
      BY <1>1, <3>1, WordLen DEF Closed, Suf
    <3>3. y = <<>>
      BY <3>2, EmptySeq DEF Words
    <3> QED BY <3>1, <3>3
  <2> QED BY <2>1, <2>2
<1> QED BY <1>1, <1>2, SufEmpty DEF Longest, Closed

-----------------------------------------------------------------------------
(* Step, Fail and Goto. *)

\* Following the failure function ends in the longest suffix that is a node,
\* if that function is right for the nodes that are not longer.
LEMMA StepFacts ==
  ASSUME NEW N, Closed(N), NEW fail, NEW p \in N, NEW c \in Chars,
         \A q \in N : q # <<>> /\ Len(q) <= Len(p) => IsFail(fail[q], q, N)
  PROVE  Longest(Step(N, fail, p, c), Append(p, c), N)
<1> DEFINE D == {q \in N : Len(q) <= Len(p)}
           H == [k \in D |-> CHOOSE h : Longest(h, Append(k, c), N)]
           step[k \in D] ==
             IF Append(k, c) \in N THEN Append(k, c)
             ELSE IF k = Root THEN Root
             ELSE step[fail[k]]
<1>1. \A k \in D : k \in N /\ k \in Words /\ Len(k) \in Nat /\ Append(k, c) \in Words
  BY WordLen, WordAppend DEF Closed
<1>2. ASSUME NEW k \in D, k # <<>>
      PROVE  IsFail(fail[k], k, N) /\ fail[k] \in D /\ Len(fail[k]) < Len(k)
  <2>1. IsFail(fail[k], k, N)
    BY <1>2
  <2>2. fail[k] \in N /\ Len(fail[k]) < Len(k)
    BY <2>1 DEF IsFail
  <2>3. Len(fail[k]) \in Nat /\ Len(k) \in Nat /\ Len(p) \in Nat
    BY <2>2, WordLen DEF Closed
  <2> QED BY <2>1, <2>2, <2>3
<1>3. p \in D
  BY WordLen DEF Closed
<1>4. \A k \in D : Longest(H[k], Append(k, c), N)
  <2> TAKE k \in D
  <2>1. \E h : Longest(h, Append(k, c), N)
    BY <1>1, LongestExists
  <2> QED BY <2>1
<1> HIDE DEF H, D
<1>5. ASSUME NEW k \in D, NEW x,
             Append(k, c) \notin N /\ k # <<>> => Longest(x, Append(fail[k], c), N)
      PROVE  Longest(IF Append(k, c) \in N THEN Append(k, c)
                     ELSE IF k = Root THEN Root ELSE x, Append(k, c), N)
  <2>1. CASE Append(k, c) \in N
    BY <2>1, LongestItself
  <2>2. CASE Append(k, c) \notin N /\ k = <<>>
    BY <2>2, LongestAtRoot DEF Root
  <2>3. CASE Append(k, c) \notin N /\ k # <<>>
    <3>1. Longest(x, Append(k, c), N)
      BY <1>1, <1>2, <1>5, <2>3, ThroughFailure
    <3> QED BY <2>3, <3>1 DEF Root
  <2> QED BY <2>1, <2>2, <2>3
<1>6. \A k \in D : H[k] = IF Append(k, c) \in N THEN Append(k, c)
                          ELSE IF k = Root THEN Root ELSE H[fail[k]]
  <2> TAKE k \in D
  <2>1. k # <<>> => Longest(H[fail[k]], Append(fail[k], c), N)
    BY <1>2, <1>4
  <2> DEFINE x == IF Append(k, c) \in N THEN Append(k, c)
                  ELSE IF k = Root THEN Root ELSE H[fail[k]]
  <2>2. Longest(x, Append(k, c), N)
    BY <1>5, <2>1
  <2> HIDE DEF x
  <2>3. H[k] = x
    BY <1>1, <1>4, <2>2, LongestUnique
  <2> QED BY <2>3 DEF x
<1>7. H = [k \in D |-> IF Append(k, c) \in N THEN Append(k, c)
                       ELSE IF k = Root THEN Root ELSE H[fail[k]]]
  <2>1. H = [k \in D |-> H[k]]
    BY DEF H
  <2> QED BY <1>6, <2>1
<1>8. step = CHOOSE g : g = [k \in D |-> IF Append(k, c) \in N THEN Append(k, c)
                                         ELSE IF k = Root THEN Root ELSE g[fail[k]]]
  OBVIOUS
<1> HIDE DEF step
<1>9. step = [k \in D |-> IF Append(k, c) \in N THEN Append(k, c)
                          ELSE IF k = Root THEN Root ELSE step[fail[k]]]
  BY <1>7, <1>8
<1> DEFINE Right == {n \in Nat : \A k \in D : Len(k) < n => Longest(step[k], Append(k, c), N)}
<1>10. 0 \in Right
  <2>1. \A k \in D : ~(Len(k) < 0)
    BY <1>1
  <2> QED BY <2>1
<1>11. ASSUME NEW n \in Nat, n \in Right PROVE n + 1 \in Right
  <2>1. ASSUME NEW k \in D, Len(k) < n + 1 PROVE Longest(step[k], Append(k, c), N)
    <3>1. k # <<>> => fail[k] \in D /\ Len(fail[k]) < n
      <4>1. ASSUME k # <<>> PROVE fail[k] \in D /\ Len(fail[k]) < n
        <5>1. fail[k] \in D /\ Len(fail[k]) < Len(k)
          BY <1>2, <4>1
        <5>2. Len(fail[k]) \in Nat /\ Len(k) \in Nat
          BY <1>1, <5>1
        <5> QED BY <2>1, <5>1, <5>2
      <4> QED BY <4>1
    <3>2. k # <<>> => Longest(step[fail[k]], Append(fail[k], c), N)
      BY <1>11, <3>1
    <3>3. step[k] = IF Append(k, c) \in N THEN Append(k, c)
                    ELSE IF k = Root THEN Root ELSE step[fail[k]]
      BY <1>9
    <3>4. PICK x : x = step[fail[k]]
      OBVIOUS
    <3> QED BY <1>5, <3>2, <3>3, <3>4
  <2> QED BY <2>1
<1>12. Longest(step[p], Append(p, c), N)
  <2>1. Len(p) + 1 \in Nat /\ Len(p) < Len(p) + 1
    BY <1>1, <1>3
  <2>2. Len(p) + 1 \in Right
    <3> HIDE DEF Right
    <3> QED BY <1>10, <1>11, <2>1, Induct
  <2> QED BY <1>3, <2>1, <2>2
<1> QED BY <1>12 DEF Step, step, D

\* The failure node of a node is where the failure node of its parent leads.
LEMMA FailureOfChild ==
  ASSUME NEW N, Closed(N), NEW p \in N, p # <<>>, NEW c \in Chars,
         Append(p, c) \in N, NEW r, IsFail(r, p, N),
         NEW x, Longest(x, Append(r, c), N)
  PROVE  IsFail(x, Append(p, c), N)
<1> DEFINE q == Append(p, c)
<1>1. p \in Words /\ r \in Words /\ x \in Words /\ r \in N /\ x \in N
  BY DEF Closed, IsFail, Longest
<1>2. /\ q \in Words /\ Len(q) = Len(p) + 1
      /\ Append(r, c) \in Words /\ Len(Append(r, c)) = Len(r) + 1
      /\ Len(p) \in Nat /\ Len(r) \in Nat /\ Len(x) \in Nat
  BY <1>1, WordAppend, WordLen
<1>3. Suf(x, q)
  <2>1. Suf(Append(r, c), q)
    BY <1>1, SufAppend DEF IsFail
  <2> HIDE DEF q
  <2> QED BY <1>1, <1>2, <2>1, SufTrans DEF Longest
<1>4. Len(x) < Len(q)
  <2>1. Len(x) <= Len(r) + 1 /\ Len(r) < Len(p)
    BY <1>2 DEF Longest, Suf, IsFail
  <2> HIDE DEF q
  <2> QED BY <1>2, <2>1
<1>5. ASSUME NEW y \in N, Suf(y, q), Len(y) < Len(q) PROVE Len(y) <= Len(x)
  <2>1. CASE y = <<>>
    BY <1>2, <2>1, SufEmpty
  <2>2. CASE y # <<>>
    <3>1. PICK z \in N : y = Append(z, c) /\ Suf(z, p) /\ Len(y) = Len(z) + 1
      BY <1>1, <1>5, <2>2, SuffixesOfAppend
    <3>2. z \in Words /\ Len(z) \in Nat
      BY <3>1, WordLen DEF Closed
    <3>3. Len(z) < Len(p)
      <4> HIDE DEF q
      <4> QED BY <1>2, <1>5, <3>1, <3>2
    <3>4. Len(z) <= Len(r)
      BY <3>1, <3>3 DEF IsFail
    <3>5. Suf(z, r)
      BY <1>1, <3>1, <3>2, <3>4, SufCompare DEF IsFail
    <3>6. Suf(y, Append(r, c))
      BY <1>1, <3>1, <3>2, <3>5, SufAppend
    <3> QED BY <3>6 DEF Longest
  <2> QED BY <2>1, <2>2
<1> QED BY <1>1, <1>3, <1>4, <1>5 DEF IsFail

LEMMA FailureOfFirst ==
  ASSUME NEW N, Closed(N), NEW q \in N, q # <<>>, Len(q) <= 1
  PROVE  IsFail(<<>>, q, N)
<1>1. q \in Words /\ Len(q) \in Nat \ {0} /\ Len(<<>>) = 0
  BY EmptySeq DEF Closed, Words
<1>2. ASSUME NEW x \in N, Len(x) < Len(q) PROVE Len(x) <= Len(<<>>)
  <2>1. Len(x) \in Nat
    BY WordLen DEF Closed
  <2> QED BY <1>1, <1>2, <2>1
<1> QED BY <1>1, <1>2, SufEmpty DEF IsFail, Closed

\* What the breadth-first search of buildAhoMachine computes: the longest
\* proper suffix that is a node.
LEMMA FailFacts ==
  ASSUME NEW K \in RuleLists
  PROVE  \A q \in Nodes(K) : q # <<>> => IsFail(Fail(K)[q], q, Nodes(K))
<1> DEFINE N == Nodes(K)
<1>0. Closed(N)
  BY NodesClosed
<1> HIDE DEF N
<1> DEFINE F == [q \in N |-> IF q = <<>> THEN Root ELSE CHOOSE f : IsFail(f, q, N)]
           fail[q \in N] ==
             IF Len(q) <= 1 THEN Root ELSE Step(N, fail, fail[Front(q)], Last(q))
<1>1. \A q \in N : q # <<>> => IsFail(F[q], q, N)
  <2> SUFFICES ASSUME NEW q \in N, q # <<>> PROVE IsFail(F[q], q, N)
    OBVIOUS
  <2>1. \E f : IsFail(f, q, N)
    BY <1>0, FailExists
  <2> QED BY <2>1
<1>2. F[<<>>] = Root /\ <<>> \in N
  BY <1>0 DEF Closed
<1>3. F = [q \in N |-> F[q]]
  OBVIOUS
<1> HIDE DEF F
<1>4. ASSUME NEW q \in N, ~(Len(q) <= 1), NEW g,
             \A k \in N : k # <<>> /\ Len(k) < Len(q) => IsFail(g[k], k, N)
      PROVE  IsFail(Step(N, g, g[Front(q)], Last(q)), q, N)
  <2>1. PICK p \in Words, c \in Chars :
          p = Front(q) /\ c = Last(q) /\ q = Append(p, c) /\ Len(q) = Len(p) + 1
    <3>1. q \in Words /\ q # <<>>
      BY <1>0, <1>4, SufEmpty DEF Closed
    <3> QED BY <3>1, FrontLast
  <2>2. Len(p) \in Nat /\ Len(q) \in Nat /\ Len(p) < Len(q) /\ p \in N /\ p # <<>>
    <3>1. Len(p) \in Nat /\ p \in N
      BY <1>0, <2>1, WordLen DEF Closed
    <3>2. p # <<>>
      BY <1>4, <2>1, SufEmpty
    <3> QED BY <2>1, <3>1, <3>2
  <2>3. PICK r : r = g[p]
    OBVIOUS
  <2>4. IsFail(r, p, N)
    BY <1>4, <2>2, <2>3
  <2>5. r \in N /\ Len(r) < Len(p)
    BY <2>4 DEF IsFail
  <2>6. ASSUME NEW k \in N, k # <<>>, Len(k) <= Len(r) PROVE IsFail(g[k], k, N)
    <3>1. Len(k) \in Nat /\ Len(r) \in Nat
      BY <1>0, <2>5, WordLen DEF Closed
    <3>2. Len(k) < Len(q)
      BY <2>2, <2>5, <2>6, <3>1
    <3> QED BY <1>4, <2>6, <3>2
  <2>7. Longest(Step(N, g, r, c), Append(r, c), N)
    BY <1>0, <2>5, <2>6, StepFacts
  <2>8. PICK x : x = Step(N, g, r, c)
    OBVIOUS
  <2>9. IsFail(x, Append(p, c), N)
    BY <1>0, <2>1, <2>2, <2>4, <2>7, <2>8, FailureOfChild
  <2> QED BY <2>1, <2>3, <2>8, <2>9
<1>5. \A q \in N :
        F[q] = IF Len(q) <= 1 THEN Root ELSE Step(N, F, F[Front(q)], Last(q))
  <2> TAKE q \in N
  <2>1. CASE q = <<>>
    BY <1>2, <2>1, SufEmpty, WordLen
  <2>2. CASE q # <<>> /\ Len(q) <= 1
    BY <1>0, <1>1, <2>2, FailureOfFirst, FailUnique DEF Root
  <2>3. CASE ~(Len(q) <= 1)
    <3>1. PICK x : x = Step(N, F, F[Front(q)], Last(q))
      OBVIOUS
    <3>2. IsFail(x, q, N)
      BY <1>1, <1>4, <2>3, <3>1
    <3>3. q # <<>>
      BY <2>3, SufEmpty, <1>0 DEF Closed
    <3> QED BY <1>0, <1>1, <2>3, <3>1, <3>2, <3>3, FailUnique
  <2> QED BY <2>1, <2>2, <2>3
<1>6. F = [q \in N |-> IF Len(q) <= 1 THEN Root
                       ELSE Step(N, F, F[Front(q)], Last(q))]
  BY <1>3, <1>5
<1>7. fail = CHOOSE g : g = [q \in N |-> IF Len(q) <= 1 THEN Root
                                         ELSE Step(N, g, g[Front(q)], Last(q))]
  OBVIOUS
<1> HIDE DEF fail
<1>8. fail = [q \in N |-> IF Len(q) <= 1 THEN Root
                          ELSE Step(N, fail, fail[Front(q)], Last(q))]
  BY <1>6, <1>7
<1> DEFINE Right == {n \in Nat : \A q \in N : q # <<>> /\ Len(q) < n => IsFail(fail[q], q, N)}
<1>9. 0 \in Right
  <2>1. \A q \in N : ~(Len(q) < 0)
    BY <1>0, WordLen DEF Closed
  <2> QED BY <2>1
<1>10. ASSUME NEW n \in Nat, n \in Right PROVE n + 1 \in Right
  <2>1. ASSUME NEW q \in N, q # <<>>, Len(q) < n + 1 PROVE IsFail(fail[q], q, N)
    <3>1. CASE Len(q) <= 1
      <4>1. fail[q] = <<>>
        BY <1>8, <3>1 DEF Root
      <4> QED BY <1>0, <2>1, <3>1, <4>1, FailureOfFirst
    <3>2. CASE ~(Len(q) <= 1)
      <4>1. ASSUME NEW k \in N, k # <<>>, Len(k) < Len(q)
            PROVE  IsFail(fail[k], k, N)
        <5>1. Len(k) \in Nat /\ Len(q) \in Nat
          BY <1>0, WordLen DEF Closed
        <5>2. Len(k) < n
          BY <2>1, <4>1, <5>1
        <5> QED BY <1>10, <4>1, <5>2
      <4>2. PICK x : x = Step(N, fail, fail[Front(q)], Last(q))
        OBVIOUS
      <4>3. IsFail(x, q, N)
        BY <1>4, <3>2, <4>1, <4>2
      <4>4. fail[q] = x
        BY <1>8, <3>2, <4>2
      <4> QED BY <4>3, <4>4
    <3> QED BY <3>1, <3>2
  <2> QED BY <2>1
<1>11. ASSUME NEW q \in N, q # <<>> PROVE IsFail(fail[q], q, N)
  <2>1. Len(q) \in Nat /\ Len(q) + 1 \in Nat /\ Len(q) < Len(q) + 1
    BY <1>0, WordLen DEF Closed
  <2>2. Len(q) + 1 \in Right
    <3> HIDE DEF Right
    <3> QED BY <1>9, <1>10, <2>1, Induct
  <2> QED BY <1>11, <2>1, <2>2
<1>12. Fail(K) = fail
  BY DEF Fail, fail, N
<1> QED BY <1>11, <1>12 DEF N

LEMMA GotoFacts ==
  ASSUME NEW K \in RuleLists
  PROVE  /\ Goto(K, Fail(K)) \in [Nodes(K) \X Chars -> Nodes(K)]
         /\ \A q \in Nodes(K), c \in Chars :
              Longest(Goto(K, Fail(K))[q, c], Append(q, c), Nodes(K))
<1> DEFINE N == Nodes(K)
           fail == Fail(K)
<1>1. Closed(N) /\ \A q \in N : q # <<>> => IsFail(fail[q], q, N)
  BY NodesClosed, FailFacts
<1>2. Goto(K, fail) = [e \in N \X Chars |-> Step(N, fail, e[1], e[2])]
  BY DEF Goto
<1> HIDE DEF N, fail
<1>3. \A q \in N, c \in Chars : Longest(Step(N, fail, q, c), Append(q, c), N)
  BY <1>1, StepFacts
<1>4. \A q \in N, c \in Chars : Goto(K, fail)[q, c] = Step(N, fail, q, c)
  BY <1>2
<1>5. \A e \in N \X Chars : Step(N, fail, e[1], e[2]) \in N
  BY <1>3 DEF Longest
<1>6. Goto(K, fail) \in [N \X Chars -> N]
  BY <1>2, <1>5
<1> QED BY <1>3, <1>4, <1>6 DEF N, fail

-----------------------------------------------------------------------------
(* The outputs of a node. *)

\* The rules found where the text is t, and of these the ones with a longer
\* keyword than i's.
At(K, t) == {i \in 1..Len(K) : /\ Suf(K[i], t)
                               /\ \A j \in (i + 1)..Len(K) : K[j] # K[i]}

Above(K, t, i) == {j \in At(K, t) : Len(K[j]) > Len(K[i])}

\* o lists the first MaxN of them, longest keyword first.
OutOK(K, o, t) ==
  /\ o \in Seq(1..Len(K)) /\ Len(o) <= MaxN
  /\ \A k \in 1..Len(o) : o[k] \in At(K, t) /\ Cardinality(Above(K, t, o[k])) = k - 1
  /\ \A i \in At(K, t) :
       Cardinality(Above(K, t, i)) < MaxN => \E k \in 1..Len(o) : o[k] = i

LEMMA RanksFinite ==
  ASSUME NEW K \in RuleLists, NEW t, NEW i
  PROVE  IsFiniteSet(Above(K, t, i)) /\ Cardinality(Above(K, t, i)) \in Nat
<1>1. 1 \in Int /\ Len(K) \in Int
  BY RuleFacts
<1>2. IsFiniteSet(1..Len(K))
  BY <1>1, FS_Interval, Zenon
<1>3. Above(K, t, i) \subseteq 1..Len(K)
  BY DEF Above, At
<1>4. IsFiniteSet(Above(K, t, i))
  BY <1>2, <1>3, FS_Subset, Zenon
<1> QED BY <1>4, FS_CardinalityType, Zenon

\* A place with the same keywords has the same outputs.
LEMMA OutSame ==
  ASSUME NEW K, NEW o, NEW t, NEW u, At(K, t) = At(K, u), OutOK(K, o, t)
  PROVE  OutOK(K, o, u)
<1>1. \A i : Above(K, t, i) = Above(K, u, i)
  BY DEF Above
<1> QED BY <1>1 DEF OutOK

LEMMA OutUnique ==
  ASSUME NEW K \in RuleLists, NEW t, NEW a, NEW b, OutOK(K, a, t), OutOK(K, b, t)
  PROVE  a = b
<1> DEFINE R == 1..Len(K)
<1>1. /\ a \in Seq(R) /\ Len(a) \in Nat /\ Len(a) <= MaxN
      /\ b \in Seq(R) /\ Len(b) \in Nat /\ Len(b) <= MaxN
      /\ MaxN \in Nat
  BY LenProperties, BoundsAssumption DEF OutOK
<1>2. ASSUME NEW x, NEW y, OutOK(K, x, t), OutOK(K, y, t), NEW k \in 1..Len(x)
      PROVE  k \in 1..Len(y) /\ y[k] = x[k]
  <2>1. Len(x) \in Nat /\ Len(x) <= MaxN /\ Len(y) \in Nat
    BY <1>2, LenProperties DEF OutOK
  <2>2. x[k] \in At(K, t) /\ Cardinality(Above(K, t, x[k])) = k - 1
    BY <1>2 DEF OutOK
  <2>3. k - 1 < MaxN
    BY <1>1, <2>1
  <2>4. PICK l \in 1..Len(y) : y[l] = x[k]
    BY <1>2, <2>2, <2>3 DEF OutOK
  <2>5. Cardinality(Above(K, t, y[l])) = l - 1
    BY <1>2 DEF OutOK
  <2>6. l = k
    BY <2>1, <2>2, <2>4, <2>5
  <2> QED BY <2>4, <2>6
<1>3. \A k \in 1..Len(a) : k \in 1..Len(b) /\ b[k] = a[k]
  BY <1>2
<1>4. \A k \in 1..Len(b) : k \in 1..Len(a)
  BY <1>2
<1>5. Len(a) = Len(b)
  BY <1>1, <1>3, <1>4
<1> HIDE DEF R
<1> QED BY <1>1, <1>3, <1>5, SeqEqual

LEMMA AtRoot ==
  ASSUME NEW K \in RuleLists
  PROVE  At(K, <<>>) = {}
<1> SUFFICES ASSUME NEW i \in 1..Len(K), Suf(K[i], <<>>) PROVE FALSE
  BY DEF At
<1>1. K[i] \in Words /\ K[i] # <<>>
  BY RuleFacts
<1>2. Len(K[i]) \in Nat \ {0} /\ Len(<<>>) = 0
  BY <1>1, EmptySeq DEF Words
<1> QED BY <1>2 DEF Suf

\* The keywords that end where the node q does are q itself and those that end
\* where its failure node does.
LEMMA AtNode ==
  ASSUME NEW K \in RuleLists, NEW q \in Nodes(K), NEW f, IsFail(f, q, Nodes(K)),
         NEW i \in 1..Len(K)
  PROVE  Suf(K[i], q) <=> K[i] = q \/ Suf(K[i], f)
<1>1. K[i] \in Words /\ K[i] \in Nodes(K) /\ q \in Words /\ f \in Words
  BY RuleFacts, NodesClosed DEF Closed, IsFail
<1>2. Suf(f, q) /\ Len(f) < Len(q)
      /\ (Suf(K[i], q) /\ Len(K[i]) < Len(q) => Len(K[i]) <= Len(f))
  BY <1>1 DEF IsFail
<1>3. Len(K[i]) \in Nat /\ Len(q) \in Nat /\ Len(f) \in Nat
  BY <1>1, WordLen
<1>4. ASSUME Suf(K[i], q), K[i] # q PROVE Suf(K[i], f)
  <2>1. Len(K[i]) < Len(q)
    <3>1. Len(K[i]) <= Len(q)
      BY <1>4 DEF Suf
    <3> QED BY <1>1, <1>3, <1>4, <3>1, SufSame
  <2> QED BY <1>1, <1>2, <1>4, <2>1, SufCompare
<1>5. ASSUME Suf(K[i], f) PROVE Suf(K[i], q)
  BY <1>1, <1>2, <1>5, SufTrans
<1>6. ASSUME K[i] = q PROVE Suf(K[i], q)
  BY <1>1, <1>6, SufRefl
<1> QED BY <1>4, <1>5, <1>6

LEMMA OwnFacts ==
  ASSUME NEW K \in RuleLists, NEW q \in Nodes(K)
  PROVE  \/ /\ Own(K, q) = <<>>
            /\ \A i \in 1..Len(K) : K[i] # q
         \/ \E m \in 1..Len(K) :
              /\ Own(K, q) = <<m>> /\ K[m] = q
              /\ \A j \in (m + 1)..Len(K) : K[j] # q
<1> DEFINE same == {i \in 1..Len(K) : K[i] = q}
<1>1. Len(K) \in Nat
  BY RuleFacts
<1>2. Own(K, q) = IF same = {} THEN <<>> ELSE <<Max(same)>>
  BY DEF Own
<1>3. CASE same = {}
  BY <1>2, <1>3
<1>4. CASE same # {}
  <2>1. same \in SUBSET (1..Len(K))
    OBVIOUS
  <2>2. PICK m : m = Max(same)
    OBVIOUS
  <2>3. m \in same /\ \A y \in same : m >= y
    <3> HIDE DEF same
    <3> QED BY <1>1, <1>4, <2>1, <2>2, MaxOf
  <2>4. ASSUME NEW j \in (m + 1)..Len(K) PROVE K[j] # q
    <3>1. m \in 1..Len(K) /\ j \in 1..Len(K) /\ ~(m >= j)
      BY <1>1, <2>3
    <3> QED BY <2>3, <3>1
  <2> QED BY <1>2, <1>4, <2>2, <2>3, <2>4
<1> QED BY <1>3, <1>4

\* r is m and then the outputs o, as far as there is room.
IsMerge(r, m, o) ==
  /\ Len(r) \in {MaxN, Len(o) + 1} /\ Len(r) <= MaxN
  /\ Len(r) <= Len(o) + 1 /\ r[1] = m
  /\ \A k \in 1..Len(o) : k < Len(r) => r[k + 1] = o[k]

LEMMA MergeFacts ==
  ASSUME NEW R, NEW o \in Seq(R), Len(o) <= MaxN, NEW m \in R
  PROVE  /\ Merge(<<>>, o) = o
         /\ Merge(<<m>>, o) \in Seq(R)
         /\ IsMerge(Merge(<<m>>, o), m, o)
<1>1. MaxN \in Nat \ {0} /\ Len(o) \in Nat /\ \A k \in 1..Len(o) : o[k] \in R
  BY BoundsAssumption, LenProperties
<1>2. \A a \in Seq(R), l \in Nat : l <= Len(a) =>
        /\ SubSeq(a, 1, l) \in Seq(R) /\ Len(SubSeq(a, 1, l)) = l
        /\ \A k \in 1..l : SubSeq(a, 1, l)[k] = a[k]
  BY FrontFacts
<1>3. Merge(<<>>, o) = o
  <2>1. <<>> \o o = o
    BY ConcatEmptySeq
  <2>2. Min({MaxN, Len(o)}) = Len(o)
    <3>1. MaxN \in Int /\ Len(o) \in Int
      BY <1>1
    <3>2. PICK x : x = Min({MaxN, Len(o)})
      OBVIOUS
    <3>3. x \in {MaxN, Len(o)} /\ x <= MaxN /\ x <= Len(o)
      BY <3>1, <3>2, MinOfTwo, Zenon
    <3> QED BY <1>1, <3>2, <3>3
  <2>3. Merge(<<>>, o) = SubSeq(o, 1, Len(o))
    BY <2>1, <2>2 DEF Merge
  <2>4. SubSeq(o, 1, Len(o)) \in Seq(R) /\ Len(SubSeq(o, 1, Len(o))) = Len(o)
        /\ \A k \in 1..Len(o) : SubSeq(o, 1, Len(o))[k] = o[k]
    BY <1>1, <1>2
  <2> QED BY <2>3, <2>4, SeqEqual
<1> DEFINE all == <<m>> \o o
           l == Min({MaxN, Len(all)})
<1>4. /\ all \in Seq(R) /\ Len(all) = Len(o) + 1 /\ all[1] = m
      /\ \A k \in 1..Len(o) : all[k + 1] = o[k]
  <2>1. <<m>> \in Seq(R) /\ Len(<<m>>) = 1 /\ <<m>>[1] = m
    OBVIOUS
  <2>2. all \in Seq(R) /\ Len(all) = 1 + Len(o)
        /\ \A k \in 1..1 + Len(o) : all[k] = IF k <= 1 THEN <<m>>[k] ELSE o[k - 1]
    BY <2>1, ConcatProperties
  <2> HIDE DEF all
  <2>3. all[1] = m
    BY <1>1, <2>1, <2>2
  <2>4. ASSUME NEW k \in 1..Len(o) PROVE all[k + 1] = o[k]
    <3>1. k + 1 \in 1..1 + Len(o)
      BY <1>1
    <3>2. PICK j \in 1..1 + Len(o) : j = k + 1
      BY <3>1, Zenon
    <3>3. ~(j <= 1) /\ j - 1 = k
      BY <3>2
    <3> QED BY <2>2, <3>2, <3>3
  <2> QED BY <1>1, <2>2, <2>3, <2>4
<1>5. Merge(<<m>>, o) = SubSeq(all, 1, l)
  BY DEF Merge
<1> HIDE DEF all
<1>6. l \in {MaxN, Len(o) + 1} /\ l <= MaxN /\ l <= Len(o) + 1 /\ l \in Nat \ {0}
  <2>1. MaxN \in Int /\ Len(all) \in Int
    BY <1>1, <1>4
  <2>2. l \in {MaxN, Len(all)} /\ l <= MaxN /\ l <= Len(all)
    BY <2>1, MinOfTwo, Zenon
  <2> HIDE DEF l
  <2> QED BY <1>1, <1>4, <2>2
<1> HIDE DEF l
<1> DEFINE r == SubSeq(all, 1, l)
<1>7. r \in Seq(R) /\ Len(r) = l /\ \A k \in 1..l : r[k] = all[k]
  BY <1>2, <1>4, <1>6
<1> HIDE DEF r
<1>8. r[1] = m
  BY <1>4, <1>6, <1>7
<1>9. ASSUME NEW k \in 1..Len(o), k < l PROVE r[k + 1] = o[k]
  <2>1. k + 1 \in 1..l
    BY <1>6, <1>9
  <2> QED BY <1>4, <1>7, <2>1
<1>10. Merge(<<m>>, o) = r
  BY <1>5 DEF r
<1>11. IsMerge(r, m, o)
  BY <1>6, <1>7, <1>8, <1>9 DEF IsMerge
<1> QED BY <1>3, <1>7, <1>10, <1>11

\* The outputs of a node, from those of its failure node.
LEMMA MergeStep ==
  ASSUME NEW K \in RuleLists, NEW q \in Nodes(K), NEW f, IsFail(f, q, Nodes(K)),
         NEW o, OutOK(K, o, f)
  PROVE  OutOK(K, Merge(Own(K, q), o), q)
<1> DEFINE R == 1..Len(K)
<1>1. /\ o \in Seq(R) /\ Len(o) \in Nat /\ Len(o) <= MaxN
      /\ MaxN \in Nat \ {0} /\ Len(K) \in Nat \ {0}
  BY LenProperties, BoundsAssumption, RuleFacts DEF OutOK
<1>2. \A i \in R : Suf(K[i], q) <=> K[i] = q \/ Suf(K[i], f)
  BY AtNode
<1>3. CASE Own(K, q) = <<>> /\ \A i \in R : K[i] # q
  <2>1. At(K, f) = At(K, q)
    BY <1>2, <1>3 DEF At
  <2>2. 1 \in R
    BY <1>1
  <2>3. Merge(<<>>, o) = o
    <3> HIDE DEF R
    <3> QED BY <1>1, <2>2, MergeFacts, Zenon
  <2>4. OutOK(K, o, q)
    BY <2>1, OutSame
  <2> QED BY <1>3, <2>3, <2>4
<1>4. ASSUME NEW m \in R, Own(K, q) = <<m>>, K[m] = q,
             \A j \in (m + 1)..Len(K) : K[j] # q
      PROVE  OutOK(K, Merge(Own(K, q), o), q)
  <2>1. q \in Words /\ f \in Words /\ Len(q) \in Nat /\ Len(f) \in Nat /\ Len(f) < Len(q)
    BY NodesClosed, WordLen DEF Closed, IsFail
  <2>2. \A i \in At(K, f) : i \in R /\ Len(K[i]) \in Nat /\ Len(K[i]) < Len(q)
    <3> SUFFICES ASSUME NEW i \in R, Suf(K[i], f)
                 PROVE  Len(K[i]) \in Nat /\ Len(K[i]) < Len(q)
      BY DEF At
    <3>1. Len(K[i]) \in Nat /\ Len(K[i]) <= Len(f)
      BY RuleFacts, WordLen DEF Suf
    <3> QED BY <2>1, <3>1
  <2>3. At(K, q) = {m} \cup At(K, f)
    <3>1. m \in At(K, q)
      BY <1>2, <1>4 DEF At
    <3>2. ASSUME NEW i \in At(K, f) PROVE i \in At(K, q)
      BY <1>2, <3>2 DEF At
    <3>3. ASSUME NEW i \in At(K, q), i # m PROVE i \in At(K, f)
      <4>1. i \in R /\ Suf(K[i], q) /\ \A j \in (i + 1)..Len(K) : K[j] # K[i]
        BY <3>3 DEF At
      <4>2. K[i] # q
        <5> SUFFICES ASSUME K[i] = q PROVE FALSE
          OBVIOUS
        <5>1. CASE i < m
          <6>1. m \in (i + 1)..Len(K)
            BY <1>1, <5>1, <4>1
          <6> QED BY <1>4, <4>1, <6>1
        <5>2. CASE m < i
          <6>1. i \in (m + 1)..Len(K)
            BY <1>1, <5>2, <4>1
          <6> QED BY <1>4, <6>1
        <5> QED BY <3>3, <4>1, <5>1, <5>2
      <4> QED BY <1>2, <4>1, <4>2 DEF At
    <3> QED BY <3>1, <3>2, <3>3
  <2>4. m \notin At(K, f)
    BY <1>4, <2>1, <2>2
  <2>5. Above(K, q, m) = {}
    BY <1>4, <2>1, <2>2, <2>3 DEF Above
  <2>6. ASSUME NEW i \in At(K, f)
        PROVE  /\ Cardinality(Above(K, q, i)) = Cardinality(Above(K, f, i)) + 1
               /\ Cardinality(Above(K, f, i)) \in Nat
    <3>1. Above(K, q, i) = Above(K, f, i) \cup {m}
      BY <1>4, <2>2, <2>3 DEF Above
    <3>2. m \notin Above(K, f, i)
      BY <2>4 DEF Above
    <3>3. IsFiniteSet(Above(K, f, i)) /\ Cardinality(Above(K, f, i)) \in Nat
      BY RanksFinite
    <3>4. Cardinality(Above(K, f, i) \cup {m}) = Cardinality(Above(K, f, i)) + 1
      BY <3>2, <3>3, FS_AddElement, Zenon
    <3> QED BY <3>1, <3>3, <3>4
  <2>7. PICK r \in Seq(R) : r = Merge(<<m>>, o) /\ IsMerge(r, m, o)
    <3>1. o \in Seq(R) /\ m \in R /\ Len(o) <= MaxN
      BY <1>1
    <3> HIDE DEF R
    <3> QED BY <3>1, MergeFacts, Zenon
  <2>11. /\ Len(r) \in Nat /\ Len(r) \in {MaxN, Len(o) + 1} /\ Len(r) <= MaxN
         /\ Len(r) <= Len(o) + 1 /\ r[1] = m
         /\ \A k \in 1..Len(o) : k < Len(r) => r[k + 1] = o[k]
    BY <2>7, LenProperties DEF IsMerge
  <2>8. ASSUME NEW k \in 1..Len(r)
        PROVE  r[k] \in At(K, q) /\ Cardinality(Above(K, q, r[k])) = k - 1
    <3>1. CASE k = 1
      <4>1. r[k] = m /\ k - 1 = 0
        BY <2>11, <3>1
      <4>2. Cardinality(Above(K, q, m)) = 0
        BY <2>5, FS_EmptySet
      <4> QED BY <2>3, <4>1, <4>2
    <3>2. CASE k # 1
      <4>1. k - 1 \in 1..Len(o)
        BY <1>1, <2>11, <3>2
      <4>2. PICK j \in 1..Len(o) : j = k - 1
        BY <4>1, Zenon
      <4>3. k = j + 1 /\ j < Len(r)
        BY <1>1, <2>11, <4>2
      <4>4. r[k] = o[j]
        BY <2>11, <4>3
      <4>5. o[j] \in At(K, f) /\ Cardinality(Above(K, f, o[j])) = j - 1
        BY DEF OutOK
      <4>6. Cardinality(Above(K, q, o[j])) = k - 1
        BY <2>6, <4>3, <4>5
      <4> QED BY <2>3, <4>4, <4>5, <4>6
    <3> QED BY <3>1, <3>2
  <2>9. ASSUME NEW i \in At(K, q), Cardinality(Above(K, q, i)) < MaxN
        PROVE  \E k \in 1..Len(r) : r[k] = i
    <3>1. CASE i = m
      BY <1>1, <2>11, <3>1
    <3>2. CASE i # m
      <4>1. i \in At(K, f)
        BY <2>3, <3>2
      <4>2. PICK n \in Nat : n = Cardinality(Above(K, f, i))
        BY <2>6, <4>1
      <4>3. n + 1 < MaxN
        BY <2>6, <2>9, <4>1, <4>2
      <4>4. PICK j \in 1..Len(o) : o[j] = i
        <5>1. n < MaxN
          BY <1>1, <4>3
        <5> QED BY <4>1, <4>2, <5>1 DEF OutOK
      <4>5. j - 1 = n
        BY <4>2, <4>4 DEF OutOK
      <4>6. j < Len(r) /\ j + 1 \in 1..Len(r)
        BY <1>1, <2>11, <4>3, <4>5
      <4>7. r[j + 1] = i
        BY <2>11, <4>4, <4>6
      <4> QED BY <4>6, <4>7
    <3> QED BY <3>1, <3>2
  <2>10. OutOK(K, r, q)
    BY <2>11, <2>8, <2>9 DEF OutOK
  <2> QED BY <1>4, <2>7, <2>10
<1> QED BY <1>3, <1>4, OwnFacts

LEMMA OutExists ==
  ASSUME NEW K \in RuleLists
  PROVE  \A q \in Nodes(K) : \E o : OutOK(K, o, q)
<1> DEFINE N == Nodes(K)
           Short == {n \in Nat : \A q \in N : Len(q) < n => \E o : OutOK(K, o, q)}
<1>1. Closed(N)
  BY NodesClosed
<1>2. OutOK(K, <<>>, <<>>)
  <2>1. At(K, <<>>) = {}
    BY AtRoot
  <2>2. <<>> \in Seq(1..Len(K)) /\ Len(<<>>) = 0 /\ 0 <= MaxN
    BY EmptySeq, BoundsAssumption
  <2> QED BY <2>1, <2>2 DEF OutOK
<1>3. 0 \in Short
  <2>1. \A q \in N : ~(Len(q) < 0)
    BY <1>1, WordLen DEF Closed
  <2> QED BY <2>1
<1>4. ASSUME NEW n \in Nat, n \in Short PROVE n + 1 \in Short
  <2>1. ASSUME NEW q \in N, Len(q) < n + 1 PROVE \E o : OutOK(K, o, q)
    <3>1. CASE q = <<>>
      BY <1>2, <3>1
    <3>2. CASE q # <<>>
      <4>1. PICK f \in N : IsFail(f, q, N)
        <5> HIDE DEF N
        <5> QED BY <1>1, <3>2, FailExists
      <4>2. Len(f) \in Nat /\ Len(q) \in Nat /\ Len(f) < Len(q)
        BY <1>1, <4>1, WordLen DEF Closed, IsFail
      <4>3. Len(f) < n
        BY <2>1, <4>2
      <4>4. PICK o : OutOK(K, o, f)
        BY <1>4, <4>3
      <4> QED BY <4>1, <4>4, MergeStep
    <3> QED BY <3>1, <3>2
  <2> QED BY <2>1
<1>5. Nat \subseteq Short
  <2> HIDE DEF Short
  <2> QED BY <1>3, <1>4, Induct
<1>6. ASSUME NEW q \in N PROVE \E o : OutOK(K, o, q)
  <2>1. Len(q) \in Nat /\ Len(q) + 1 \in Nat /\ Len(q) < Len(q) + 1
    BY <1>1, WordLen DEF Closed
  <2>2. Len(q) + 1 \in Short
    BY <1>5, <2>1
  <2> QED BY <2>1, <2>2
<1> QED BY <1>6

\* The code's outputs are the first MaxN rules that end at each node.
LEMMA OutFacts ==
  ASSUME NEW K \in RuleLists
  PROVE  /\ DOMAIN Out(K, Fail(K)) = Nodes(K)
         /\ \A q \in Nodes(K) : OutOK(K, Out(K, Fail(K))[q], q)
<1> DEFINE N == Nodes(K)
           F == Fail(K)
           G == [q \in N |-> CHOOSE o : OutOK(K, o, q)]
           out[q \in N] == IF q = Root THEN <<>> ELSE Merge(Own(K, q), out[F[q]])
<1>1. Closed(N) /\ \A q \in N : q # <<>> => IsFail(F[q], q, N)
  BY NodesClosed, FailFacts
<1>2. \A q \in N : OutOK(K, G[q], q)
  BY OutExists
<1>3. G = [q \in N |-> G[q]]
  OBVIOUS
<1>4. \A q \in N : \A o : IsFail(F[q], q, N) /\ OutOK(K, o, F[q])
                        => OutOK(K, Merge(Own(K, q), o), q)
  BY MergeStep
<1>5. OutOK(K, <<>>, <<>>) /\ <<>> \in N
  <2>1. At(K, <<>>) = {}
    BY AtRoot
  <2>2. <<>> \in Seq(1..Len(K)) /\ Len(<<>>) = 0 /\ 0 <= MaxN
    BY EmptySeq, BoundsAssumption
  <2> QED BY <1>1, <2>1, <2>2 DEF OutOK, Closed
<1>6. Out(K, F) = out
  BY DEF Out
<1>7. out = CHOOSE g : g = [q \in N |-> IF q = Root THEN <<>>
                                        ELSE Merge(Own(K, q), g[F[q]])]
  OBVIOUS
<1> HIDE DEF N, F, G, out
<1>8. ASSUME NEW q \in N
      PROVE  G[q] = IF q = Root THEN <<>> ELSE Merge(Own(K, q), G[F[q]])
  <2>1. CASE q = <<>>
    <3>1. G[q] = <<>>
      BY <1>2, <1>5, <2>1, OutUnique
    <3> QED BY <2>1, <3>1 DEF Root
  <2>2. CASE q # <<>>
    <3>1. IsFail(F[q], q, N) /\ F[q] \in N
      BY <1>1, <2>2 DEF IsFail
    <3>2. OutOK(K, Merge(Own(K, q), G[F[q]]), q)
      BY <1>2, <1>4, <3>1
    <3>3. G[q] = Merge(Own(K, q), G[F[q]])
      BY <1>2, <3>2, OutUnique
    <3> QED BY <2>2, <3>3 DEF Root
  <2> QED BY <2>1, <2>2
<1>9. G = [q \in N |-> IF q = Root THEN <<>> ELSE Merge(Own(K, q), G[F[q]])]
  BY <1>3, <1>8
<1>10. out = [q \in N |-> IF q = Root THEN <<>> ELSE Merge(Own(K, q), out[F[q]])]
  BY <1>7, <1>9
<1> DEFINE Right == {n \in Nat : \A q \in N : Len(q) < n => OutOK(K, out[q], q)}
<1>11. 0 \in Right
  <2>1. \A q \in N : ~(Len(q) < 0)
    BY <1>1, WordLen DEF Closed
  <2> QED BY <2>1
<1>12. ASSUME NEW n \in Nat, n \in Right PROVE n + 1 \in Right
  <2>1. ASSUME NEW q \in N, Len(q) < n + 1 PROVE OutOK(K, out[q], q)
    <3>1. CASE q = <<>>
      <4>1. out[q] = <<>>
        BY <1>10, <3>1 DEF Root
      <4> QED BY <1>5, <3>1, <4>1
    <3>2. CASE q # <<>>
      <4>1. IsFail(F[q], q, N) /\ F[q] \in N /\ Len(F[q]) < Len(q)
        BY <1>1, <3>2 DEF IsFail
      <4>2. Len(F[q]) \in Nat /\ Len(q) \in Nat
        BY <1>1, <4>1, WordLen DEF Closed
      <4>3. Len(F[q]) < n
        BY <2>1, <4>1, <4>2
      <4>4. OutOK(K, out[F[q]], F[q])
        BY <1>12, <4>1, <4>3
      <4>5. OutOK(K, Merge(Own(K, q), out[F[q]]), q)
        BY <1>4, <4>1, <4>4
      <4>6. out[q] = Merge(Own(K, q), out[F[q]])
        BY <1>10, <3>2 DEF Root
      <4> QED BY <4>5, <4>6
    <3> QED BY <3>1, <3>2
  <2> QED BY <2>1
<1>13. Nat \subseteq Right
  <2> HIDE DEF Right
  <2> QED BY <1>11, <1>12, Induct
<1>14. ASSUME NEW q \in N PROVE OutOK(K, out[q], q)
  <2>1. Len(q) \in Nat /\ Len(q) + 1 \in Nat /\ Len(q) < Len(q) + 1
    BY <1>1, WordLen DEF Closed
  <2>2. Len(q) + 1 \in Right
    BY <1>13, <2>1
  <2> QED BY <2>1, <2>2
<1>15. DOMAIN out = N
  BY <1>10
<1> QED BY <1>6, <1>14, <1>15 DEF N, F

-----------------------------------------------------------------------------
(* Reading. *)

\* At the longest suffix of a text that is a node the same keywords end.
LEMMA AtOfState ==
  ASSUME NEW K \in RuleLists, NEW t \in Words, NEW q, Longest(q, t, Nodes(K))
  PROVE  At(K, q) = At(K, t)
<1>1. q \in Words /\ q \in Nodes(K) /\ Suf(q, t)
  BY NodesClosed DEF Closed, Longest
<1>2. ASSUME NEW i \in 1..Len(K)
      PROVE  Suf(K[i], q) <=> Suf(K[i], t)
  <2>1. K[i] \in Words /\ K[i] \in Nodes(K)
    BY RuleFacts, NodesClosed
  <2>2. ASSUME Suf(K[i], q) PROVE Suf(K[i], t)
    BY <1>1, <2>1, <2>2, SufTrans
  <2>3. ASSUME Suf(K[i], t) PROVE Suf(K[i], q)
    <3>1. Len(K[i]) <= Len(q)
      BY <2>1, <2>3 DEF Longest
    <3> QED BY <1>1, <2>1, <2>3, <3>1, SufCompare
  <2> QED BY <2>2, <2>3
<1> QED BY <1>2 DEF At

\* One character more: the goto function of the node, and that is all that is
\* needed of the text.
LEMMA LongestStep ==
  ASSUME NEW N, Closed(N), NEW t \in Words, NEW c \in Chars,
         NEW p, Longest(p, t, N), NEW r, Longest(r, Append(p, c), N)
  PROVE  Longest(r, Append(t, c), N)
<1>1. p \in Words /\ r \in Words /\ p \in N /\ r \in N /\ Suf(p, t) /\ Suf(r, Append(p, c))
  BY DEF Closed, Longest
<1>2. Append(p, c) \in Words /\ Append(t, c) \in Words
  BY <1>1, WordAppend
<1>3. Suf(Append(p, c), Append(t, c))
  BY <1>1, SufAppend
<1>4. Suf(r, Append(t, c))
  BY <1>1, <1>2, <1>3, SufTrans
<1>5. ASSUME NEW x \in N, Suf(x, Append(t, c)) PROVE Len(x) <= Len(r)
  <2>1. CASE x = <<>>
    <3>1. Len(x) = 0 /\ Len(r) \in Nat
      BY <1>1, <2>1, SufEmpty, WordLen
    <3> QED BY <3>1
  <2>2. CASE x # <<>>
    <3>1. PICK y \in N : x = Append(y, c) /\ Suf(y, t)
      BY <1>5, <2>2, SuffixesOfAppend
    <3>2. y \in Words /\ Len(y) <= Len(p)
      BY <3>1 DEF Closed, Longest
    <3>3. Suf(y, p)
      BY <1>1, <3>1, <3>2, SufCompare
    <3>4. Suf(x, Append(p, c))
      BY <1>1, <3>1, <3>2, <3>3, SufAppend
    <3> QED BY <3>4 DEF Longest
  <2> QED BY <2>1, <2>2
<1> QED BY <1>1, <1>4, <1>5 DEF Longest

\* A rule with fewer longer ones above it has the longer keyword.
LEMMA RankOrder ==
  ASSUME NEW K \in RuleLists, NEW t, NEW i \in At(K, t), NEW j \in At(K, t),
         Cardinality(Above(K, t, i)) < Cardinality(Above(K, t, j))
  PROVE  Len(K[i]) > Len(K[j])
<1>1. Len(K[i]) \in Nat /\ Len(K[j]) \in Nat
  BY RuleFacts, WordLen DEF At
<1>2. ASSUME Len(K[i]) <= Len(K[j]) PROVE FALSE
  <2>1. ASSUME NEW k \in Above(K, t, j) PROVE k \in Above(K, t, i)
    <3>1. k \in At(K, t) /\ Len(K[k]) > Len(K[j])
      BY <2>1 DEF Above
    <3>2. Len(K[k]) \in Nat
      BY <3>1, RuleFacts, WordLen DEF At
    <3>3. Len(K[k]) > Len(K[i])
      BY <1>1, <1>2, <3>1, <3>2
    <3> QED BY <3>1, <3>3 DEF Above
  <2>2. PICK a \in Nat, b \in Nat :
          /\ a = Cardinality(Above(K, t, i)) /\ b = Cardinality(Above(K, t, j))
          /\ IsFiniteSet(Above(K, t, i))
    BY RanksFinite
  <2>3. Above(K, t, j) \subseteq Above(K, t, i)
    BY <2>1
  <2>4. Cardinality(Above(K, t, j)) <= Cardinality(Above(K, t, i))
    BY <2>2, <2>3, FS_Subset, Zenon
  <2> QED BY <2>2, <2>4
<1> QED BY <1>1, <1>2

\* What rule i is found at place n of the text t.
Hit(K, t, i, n) ==
  /\ i \in At(K, SubSeq(t, 1, n))
  /\ Cardinality(Above(K, SubSeq(t, 1, n), i)) < MaxN

Before(K, a, b) ==
  \/ a.end < b.end
  \/ a.end = b.end /\ Len(K[a.rule]) > Len(K[b.rule])

Results(K) == [rule : 1..Len(K), end : Nat]

\* f are the results of the text t: none is wrong, none is missing, in order.
FoundOK(K, f, t) ==
  /\ f \in Seq(Results(K))
  /\ \A k \in 1..Len(f) : f[k].end \in 1..Len(t) /\ Hit(K, t, f[k].rule, f[k].end)
  /\ \A n \in 1..Len(t), i \in 1..Len(K) :
       Hit(K, t, i, n) => \E k \in 1..Len(f) : f[k].rule = i /\ f[k].end = n
  /\ \A k, l \in 1..Len(f) : k < l => Before(K, f[k], f[l])

LEMMA PrefixesOfAppend ==
  ASSUME NEW t \in Words, NEW c \in Chars
  PROVE  /\ \A n \in 1..Len(t) : SubSeq(Append(t, c), 1, n) = SubSeq(t, 1, n)
         /\ SubSeq(Append(t, c), 1, Len(t) + 1) = Append(t, c)
<1> DEFINE u == Append(t, c)
<1>1. u \in Words /\ Len(u) = Len(t) + 1 /\ \A k \in 1..Len(t) : u[k] = t[k]
  BY AppendProperties DEF Words
<1> HIDE DEF u
<1>2. Len(t) \in Nat
  BY WordLen
<1>3. ASSUME NEW n \in 1..Len(t) PROVE SubSeq(u, 1, n) = SubSeq(t, 1, n)
  <2>1. n \in Nat /\ n <= Len(u) /\ n <= Len(t)
    BY <1>1, <1>2
  <2> DEFINE a == SubSeq(u, 1, n)
             b == SubSeq(t, 1, n)
  <2>2. a \in Words /\ Len(a) = n /\ \A k \in 1..n : a[k] = u[k]
    BY <1>1, <2>1, FrontFacts DEF Words
  <2>3. b \in Words /\ Len(b) = n /\ \A k \in 1..n : b[k] = t[k]
    BY <2>1, FrontFacts DEF Words
  <2> HIDE DEF a, b
  <2>4. \A k \in 1..Len(a) : a[k] = b[k]
    BY <1>1, <1>2, <2>1, <2>2, <2>3
  <2>5. a = b
    BY <2>2, <2>3, <2>4, SeqEqual DEF Words
  <2> QED BY <2>5 DEF a, b
<1>4. SubSeq(u, 1, Len(u)) = u
  BY <1>1, SubSeqFull DEF Words
<1> QED BY <1>1, <1>3, <1>4 DEF u

\* The outputs of the node reached are the results of one place.
LEMMA AddHits ==
  ASSUME NEW K \in RuleLists, NEW t \in Words, NEW c \in Chars,
         NEW f, FoundOK(K, f, t), NEW o, OutOK(K, o, Append(t, c)),
         NEW h, h = [k \in 1..Len(o) |-> [rule |-> o[k], end |-> Len(t) + 1]]
  PROVE  FoundOK(K, f \o h, Append(t, c))
<1> DEFINE u == Append(t, c)
           e == Len(t) + 1
           g == f \o h
<1>1. /\ Len(t) \in Nat /\ Len(u) = e /\ e \in Nat
      /\ f \in Seq(Results(K)) /\ Len(f) \in Nat
      /\ o \in Seq(1..Len(K)) /\ Len(o) \in Nat /\ Len(o) <= MaxN /\ MaxN \in Nat
  BY WordLen, WordAppend, LenProperties, BoundsAssumption DEF FoundOK, OutOK
<1>2. /\ \A n \in 1..Len(t), i \in 1..Len(K) : Hit(K, u, i, n) <=> Hit(K, t, i, n)
      /\ SubSeq(u, 1, e) = u
  BY PrefixesOfAppend DEF Hit
<1> HIDE DEF u, e
<1>3. h \in Seq(Results(K)) /\ Len(h) = Len(o)
      /\ \A k \in 1..Len(o) : h[k].rule = o[k] /\ h[k].end = e
  <2>1. h = [k \in 1..Len(o) |-> [rule |-> o[k], end |-> e]]
    BY DEF e
  <2>2. \A k \in 1..Len(o) : o[k] \in 1..Len(K)
    BY <1>1, LenProperties
  <2>3. \A k \in 1..Len(o) : [rule |-> o[k], end |-> e] \in Results(K)
    BY <1>1, <2>2 DEF Results
  <2>4. h \in [1..Len(o) -> Results(K)]
    BY <2>1, <2>3
  <2>5. h \in Seq(Results(K)) /\ Len(h) = Len(o)
    BY ONLY <1>1, <2>4
  <2> QED BY <2>1, <2>5
<1>4. /\ g \in Seq(Results(K)) /\ Len(g) = Len(f) + Len(o)
      /\ \A k \in 1..Len(f) + Len(o) : g[k] = IF k <= Len(f) THEN f[k] ELSE h[k - Len(f)]
  BY <1>1, <1>3, ConcatProperties
<1> HIDE DEF g
<1>5. ASSUME NEW k \in 1..Len(f) PROVE k \in 1..Len(g) /\ g[k] = f[k]
  BY <1>1, <1>4
<1>6. ASSUME NEW k \in 1..Len(g), ~(k <= Len(f))
      PROVE  \E j \in 1..Len(o) : k = Len(f) + j /\ g[k] = h[j]
  <2>1. k - Len(f) \in 1..Len(o)
    BY <1>1, <1>4, <1>6
  <2>2. g[k] = h[k - Len(f)] /\ k = Len(f) + (k - Len(f))
    BY <1>1, <1>4, <1>6
  <2> QED BY <2>1, <2>2
<1>7. ASSUME NEW j \in 1..Len(o) PROVE Len(f) + j \in 1..Len(g) /\ g[Len(f) + j] = h[j]
  <2>1. PICK k \in 1..Len(g) : k = Len(f) + j
    <3>1. Len(f) + j \in 1..Len(g)
      BY <1>1, <1>4
    <3> QED BY <3>1, Zenon
  <2>2. ~(k <= Len(f)) /\ k - Len(f) = j
    BY <1>1, <2>1
  <2> QED BY <1>4, <2>1, <2>2
<1>8. ASSUME NEW k \in 1..Len(g)
      PROVE  g[k].end \in 1..Len(u) /\ Hit(K, u, g[k].rule, g[k].end)
  <2>1. CASE k <= Len(f)
    <3>1. k \in 1..Len(f) /\ g[k] = f[k]
      BY <1>1, <1>5, <2>1
    <3>2. f[k].end \in 1..Len(t) /\ Hit(K, t, f[k].rule, f[k].end)
      BY <3>1 DEF FoundOK
    <3>3. f[k].rule \in 1..Len(K)
      BY <3>2 DEF Hit, At
    <3>4. Hit(K, u, f[k].rule, f[k].end)
      BY <1>2, <3>2, <3>3
    <3>5. f[k].end \in 1..Len(u)
      BY <1>1, <3>2 DEF e
    <3> QED BY <3>1, <3>4, <3>5
  <2>2. CASE ~(k <= Len(f))
    <3>1. PICK j \in 1..Len(o) : g[k] = h[j]
      BY <1>6, <2>2
    <3>2. o[j] \in At(K, u) /\ Cardinality(Above(K, u, o[j])) = j - 1
      BY DEF OutOK, u
    <3>3. j - 1 < MaxN
      BY <1>1
    <3>4. Hit(K, u, o[j], e)
      BY <1>2, <3>2, <3>3 DEF Hit
    <3>5. e \in 1..Len(u)
      BY <1>1 DEF e
    <3> QED BY <1>3, <3>1, <3>4, <3>5
  <2> QED BY <2>1, <2>2
<1>9. ASSUME NEW n \in 1..Len(u), NEW i \in 1..Len(K), Hit(K, u, i, n)
      PROVE  \E k \in 1..Len(g) : g[k].rule = i /\ g[k].end = n
  <2>1. CASE n = e
    <3>1. i \in At(K, u) /\ Cardinality(Above(K, u, i)) < MaxN
      BY <1>2, <1>9, <2>1 DEF Hit
    <3>2. PICK j \in 1..Len(o) : o[j] = i
      BY <3>1 DEF OutOK, u
    <3>3. h[j].rule = i /\ h[j].end = n
      BY <1>3, <2>1, <3>2
    <3> QED BY <1>7, <3>3
  <2>2. CASE n # e
    <3>1. n \in 1..Len(t)
      BY <1>1, <2>2 DEF e
    <3>2. Hit(K, t, i, n)
      BY <1>2, <1>9, <3>1
    <3>3. PICK k \in 1..Len(f) : f[k].rule = i /\ f[k].end = n
      BY <3>1, <3>2 DEF FoundOK
    <3> QED BY <1>5, <3>3
  <2> QED BY <2>1, <2>2
<1>10. ASSUME NEW k \in 1..Len(g), NEW l \in 1..Len(g), k < l
       PROVE  Before(K, g[k], g[l])
  <2>1. CASE l <= Len(f)
    <3>1. k \in 1..Len(f) /\ l \in 1..Len(f)
      BY <1>1, <1>10, <2>1
    <3>2. Before(K, f[k], f[l])
      BY <1>10, <3>1 DEF FoundOK
    <3> QED BY <1>5, <3>1, <3>2
  <2>2. CASE ~(l <= Len(f)) /\ k <= Len(f)
    <3>1. k \in 1..Len(f) /\ g[k] = f[k]
      BY <1>1, <1>5, <2>2
    <3>2. PICK j \in 1..Len(o) : g[l] = h[j]
      BY <1>6, <2>2
    <3>3. f[k].end \in 1..Len(t) /\ h[j].end = e
      BY <1>3, <3>1 DEF FoundOK
    <3>4. f[k].end < h[j].end
      <4>1. PICK n \in 1..Len(t) : n = f[k].end
        BY <3>3, Zenon
      <4>2. n < e
        BY <1>1 DEF e
      <4> QED BY <3>3, <4>1, <4>2
    <3> QED BY <3>1, <3>2, <3>4 DEF Before
  <2>3. CASE ~(l <= Len(f)) /\ ~(k <= Len(f))
    <3>1. PICK i \in 1..Len(o) : k = Len(f) + i /\ g[k] = h[i]
      BY <1>6, <2>3
    <3>2. PICK j \in 1..Len(o) : l = Len(f) + j /\ g[l] = h[j]
      BY <1>6, <2>3
    <3>3. i - 1 < j - 1
      BY <1>1, <1>10, <3>1, <3>2
    <3>4. /\ o[i] \in At(K, u) /\ Cardinality(Above(K, u, o[i])) = i - 1
          /\ o[j] \in At(K, u) /\ Cardinality(Above(K, u, o[j])) = j - 1
      BY DEF OutOK, u
    <3>5. Cardinality(Above(K, u, o[i])) < Cardinality(Above(K, u, o[j]))
      BY <3>3, <3>4
    <3>6. Len(K[o[i]]) > Len(K[o[j]])
      BY <3>4, <3>5, RankOrder
    <3> QED BY <1>3, <3>1, <3>2, <3>6 DEF Before
  <2> QED BY <2>1, <2>2, <2>3
<1> QED BY <1>4, <1>8, <1>9, <1>10 DEF FoundOK, u, g

-----------------------------------------------------------------------------
(* The invariant. *)

\* The machine of the rules, as buildAhoMachine leaves it.
Machine ==
  /\ rules \in RuleLists
  /\ g_ \in [Nodes(rules) \X Chars -> Nodes(rules)]
  /\ \A q \in Nodes(rules), c \in Chars :
       Longest(g_[q, c], Append(q, c), Nodes(rules))
  /\ DOMAIN out_ = Nodes(rules)
  /\ \A q \in Nodes(rules) : OutOK(rules, out_[q], q)

\* What reading has come to after the text t: the node and the results.
AccOK(K, acc, t) ==
  /\ Longest(acc.state, t, Nodes(K))
  /\ acc.end = Len(t)
  /\ FoundOK(K, acc.found, t)

Kept(s) == [state |-> tmpState[s], end |-> Len(text[s]), found |-> found[s]]

\* Of every stream the state and the results are those of its text.
IInv ==
  /\ Machine
  /\ tmpState \in [StreamIds -> Nodes(rules)]
  /\ DOMAIN found = StreamIds
  /\ text \in [StreamIds -> Words]
  /\ \A s \in StreamIds : Len(text[s]) <= MaxText /\ AccOK(rules, Kept(s), text[s])

LEMMA NothingRead ==
  ASSUME NEW K \in RuleLists
  PROVE  /\ <<>> \in Words /\ Root \in Nodes(K)
         /\ AccOK(K, [state |-> Root, end |-> Len(<<>>), found |-> <<>>], <<>>)
<1>1. <<>> \in Words /\ Len(<<>>) = 0 /\ <<>> \in Nodes(K) /\ Closed(Nodes(K))
  BY EmptySeq, NodesClosed DEF Words, Closed
<1>2. Longest(<<>>, <<>>, Nodes(K))
  BY <1>1, LongestItself
<1>3. FoundOK(K, <<>>, <<>>)
  BY <1>1, EmptySeq DEF FoundOK
<1> QED BY <1>1, <1>2, <1>3 DEF AccOK, Root

\* One character more.
LEMMA ReadStep ==
  ASSUME Machine, NEW t \in Words, NEW c \in Chars, NEW acc, AccOK(rules, acc, t)
  PROVE  AccOK(rules, Read(acc, c), Append(t, c))
<1> DEFINE N == Nodes(rules)
           p == acc.state
           q == g_[acc.state, c]
           o == out_[q]
           e == Len(t) + 1
           h == [k \in 1..Len(o) |-> [rule |-> o[k], end |-> e]]
<1>1. rules \in RuleLists /\ Closed(N)
  BY NodesClosed DEF Machine
<1>2. Longest(p, t, N) /\ p \in N /\ acc.end = Len(t) /\ FoundOK(rules, acc.found, t)
  BY DEF AccOK, Longest
<1>3. Longest(q, Append(p, c), N) /\ q \in N
  BY <1>2 DEF Machine, Longest
<1>4. OutOK(rules, o, q)
  BY <1>3 DEF Machine
<1>5. Read(acc, c) = [state |-> q, end |-> e, found |-> acc.found \o h]
  BY <1>2 DEF Read
<1>6. Append(t, c) \in Words /\ Len(Append(t, c)) = e
  BY WordAppend
<1> HIDE DEF N, p, q, o
<1>7. Longest(q, Append(t, c), N)
  BY <1>1, <1>2, <1>3, LongestStep
<1>8. At(rules, q) = At(rules, Append(t, c))
  BY <1>1, <1>6, <1>7, AtOfState DEF N
<1>9. OutOK(rules, o, Append(t, c))
  BY <1>4, <1>8, OutSame
<1>10. FoundOK(rules, acc.found \o h, Append(t, c))
  BY <1>1, <1>2, <1>9, AddHits
<1> HIDE DEF h, e
<1> QED BY <1>5, <1>6, <1>7, <1>10 DEF AccOK, N

\* What has been read after n characters of a packet.
LEMMA TextSteps ==
  ASSUME NEW t \in Words, NEW u \in Words
  PROVE  /\ t \o SubSeq(u, 1, 0) = t /\ t \o SubSeq(u, 1, Len(u)) = t \o u
         /\ \A n \in 0..Len(u) - 1 :
              /\ t \o SubSeq(u, 1, n) \in Words
              /\ t \o SubSeq(u, 1, n + 1) = Append(t \o SubSeq(u, 1, n), u[n + 1])
<1>1. Len(t) \in Nat /\ Len(u) \in Nat /\ \A n \in 1..Len(u) : u[n] \in Chars
  BY WordLen
<1>2. SubSeq(u, 1, 0) = <<>> /\ t \o <<>> = t /\ SubSeq(u, 1, Len(u)) = u
  BY SubSeqEmpty, ConcatEmptySeq, SubSeqFull DEF Words
<1>3. ASSUME NEW n \in 0..Len(u) - 1
      PROVE  /\ t \o SubSeq(u, 1, n) \in Words
             /\ t \o SubSeq(u, 1, n + 1) = Append(t \o SubSeq(u, 1, n), u[n + 1])
  <2> DEFINE a == SubSeq(u, 1, n)
             b == SubSeq(u, 1, n + 1)
             x == t \o a
             y == t \o b
  <2>1. n \in Nat /\ n <= Len(u) /\ n + 1 \in Nat /\ n + 1 <= Len(u)
    BY <1>1
  <2>2. a \in Words /\ Len(a) = n /\ \A k \in 1..n : a[k] = u[k]
    BY <2>1, FrontFacts DEF Words
  <2>3. b \in Words /\ Len(b) = n + 1 /\ \A k \in 1..n + 1 : b[k] = u[k]
    BY <2>1, FrontFacts DEF Words
  <2> HIDE DEF a, b
  <2>4. /\ x \in Words /\ Len(x) = Len(t) + n
        /\ \A k \in 1..Len(t) + n : x[k] = IF k <= Len(t) THEN t[k] ELSE a[k - Len(t)]
    BY <2>2, ConcatProperties DEF Words
  <2>5. /\ y \in Words /\ Len(y) = Len(t) + n + 1
        /\ \A k \in 1..Len(t) + n + 1 : y[k] = IF k <= Len(t) THEN t[k] ELSE b[k - Len(t)]
    <3>1. PICK m \in Nat : m = Len(b)
      BY <2>1, <2>3
    <3>2. /\ y \in Words /\ Len(y) = Len(t) + m
          /\ \A k \in 1..Len(t) + m :
               y[k] = IF k <= Len(t) THEN t[k] ELSE b[k - Len(t)]
      BY <2>3, <3>1, ConcatProperties DEF Words
    <3>3. Len(t) + m = Len(t) + n + 1
      BY <1>1, <2>1, <2>3, <3>1
    <3> HIDE DEF y
    <3> QED BY <3>2, <3>3
  <2> HIDE DEF x, y
  <2> DEFINE z == Append(x, u[n + 1])
  <2>6. u[n + 1] \in Chars
    BY <1>1, <2>1
  <2>7. /\ z \in Words /\ Len(z) = Len(x) + 1 /\ z[Len(x) + 1] = u[n + 1]
        /\ \A k \in 1..Len(x) : z[k] = x[k]
    BY <2>4, <2>6, AppendProperties DEF Words
  <2> HIDE DEF z
  <2>8. ASSUME NEW k \in 1..Len(y) PROVE y[k] = z[k]
    <3>1. CASE k <= Len(t)
      <4>1. k \in 1..Len(x)
        BY <1>1, <2>1, <2>4, <3>1
      <4>2. x[k] = t[k] /\ y[k] = t[k]
        BY <2>4, <2>5, <3>1, <4>1
      <4> QED BY <2>7, <4>1, <4>2
    <3>2. CASE ~(k <= Len(t)) /\ k <= Len(t) + n
      <4>1. k \in 1..Len(x)
        BY <1>1, <2>1, <2>4, <3>2
      <4>2. k - Len(t) \in 1..n
        BY <1>1, <2>1, <3>2
      <4>3. PICK j \in 1..n : j = k - Len(t)
        BY <4>2, Zenon
      <4>4. x[k] = a[j] /\ y[k] = b[j]
        BY <2>4, <2>5, <3>2, <4>1, <4>3
      <4>5. a[j] = u[j] /\ b[j] = u[j]
        BY <2>1, <2>2, <2>3
      <4> QED BY <2>7, <4>1, <4>4, <4>5
    <3>3. CASE ~(k <= Len(t) + n)
      <4>0. Len(x) = Len(t) + n /\ Len(y) = Len(t) + n + 1
        BY <2>4, <2>5
      <4>1. k = Len(x) + 1 /\ k - Len(t) = n + 1 /\ ~(k <= Len(t))
        BY <1>1, <2>1, <3>3, <4>0
      <4>2. y[k] = b[n + 1]
        BY <2>5, <4>1
      <4>3. b[n + 1] = u[n + 1]
        BY <2>1, <2>3
      <4> QED BY <2>7, <4>1, <4>2, <4>3
    <3> QED BY <3>1, <3>2, <3>3
  <2>9. Len(y) = Len(z)
    BY <1>1, <2>1, <2>4, <2>5, <2>7
  <2>10. y = z
    BY <2>5, <2>7, <2>8, <2>9, SeqEqual DEF Words
  <2> QED BY <2>4, <2>10 DEF a, b, x, y, z
<1> QED BY <1>2, <1>3

LEMMA SearchFacts ==
  ASSUME Machine, NEW s \in StreamIds, text[s] \in Words,
         AccOK(rules, Kept(s), text[s]), NEW content \in Words
  PROVE  AccOK(rules, AhoSearch(s, content), text[s] \o content)
<1> DEFINE L == Len(content)
           B == Kept(s)
           after[n \in 0..L] == IF n = 0 THEN B ELSE Read(after[n - 1], content[n])
           To(n) == text[s] \o SubSeq(content, 1, n)
<1>1. L \in Nat /\ \A n \in 1..L : content[n] \in Chars
  BY WordLen
<1>2. AhoSearch(s, content) = after[L]
  BY DEF AhoSearch, Kept
<1>3. after = CHOOSE g : g = [n \in 0..L |-> IF n = 0 THEN B
                                             ELSE Read(g[n - 1], content[n])]
  OBVIOUS
<1>4. /\ To(0) = text[s] /\ To(L) = text[s] \o content
      /\ \A n \in 0..L - 1 : To(n) \in Words /\ To(n + 1) = Append(To(n), content[n + 1])
  BY TextSteps
<1>5. AccOK(rules, B, text[s])
  OBVIOUS
<1> HIDE DEF L, B, after, To
<1> DEFINE Solved(g, m) ==
             g = [n \in 0..m |-> IF n = 0 THEN B ELSE Read(g[n - 1], content[n])]
           Some == {m \in Nat : \E g : Solved(g, m)}
<1>6. 0 \in Some
  <2> DEFINE g == [n \in 0..0 |-> B]
  <2>1. \A n \in 0..0 : n = 0
    OBVIOUS
  <2>2. g = [n \in 0..0 |-> IF n = 0 THEN B ELSE Read(g[n - 1], content[n])]
    BY <2>1
  <2> QED BY <2>2
<1>7. ASSUME NEW m \in Nat, m \in Some PROVE m + 1 \in Some
  <2>1. PICK g : Solved(g, m)
    BY <1>7
  <2> DEFINE a == m + 1
             last == Read(g[m], content[a])
             f == [n \in 0..a |-> IF n <= m THEN g[n] ELSE last]
  <2>2. a \in Nat /\ \A n \in 0..a : n <= m \/ n = a
    OBVIOUS
  <2>3. ASSUME NEW n \in 0..m
        PROVE  g[n] = IF n = 0 THEN B ELSE Read(g[n - 1], content[n])
    BY <2>1
  <2>4. f = [n \in 0..a |-> f[n]] /\ \A n \in 0..m : f[n] = g[n]
    OBVIOUS
  <2>5. f[a] = last
    OBVIOUS
  <2> HIDE DEF f, last
  <2>6. ASSUME NEW n \in 0..a
        PROVE  f[n] = IF n = 0 THEN B ELSE Read(f[n - 1], content[n])
    <3>1. CASE n = 0
      <4>1. 0 \in 0..m
        OBVIOUS
      <4>2. f[0] = g[0]
        BY <2>4, <4>1
      <4>3. g[0] = B
        BY <2>3, <4>1
      <4> QED BY <3>1, <4>2, <4>3
    <3>2. CASE n # 0 /\ n <= m
      <4>1. n \in 0..m /\ n - 1 \in 0..m
        BY <3>2
      <4>2. f[n] = g[n] /\ f[n - 1] = g[n - 1]
        BY <2>4, <4>1
      <4>3. g[n] = Read(g[n - 1], content[n])
        BY <2>3, <3>2, <4>1
      <4> QED BY <3>2, <4>2, <4>3
    <3>3. CASE n = a
      <4>1. n # 0 /\ n - 1 = m /\ m \in 0..m
        BY <3>3
      <4>2. f[n - 1] = g[m]
        BY <2>4, <4>1
      <4> QED BY <2>5, <3>3, <4>1, <4>2 DEF last
    <3> QED BY <2>2, <3>1, <3>2, <3>3
  <2>7. f = [n \in 0..a |-> IF n = 0 THEN B ELSE Read(f[n - 1], content[n])]
    BY <2>4, <2>6
  <2> HIDE DEF a
  <2>8. Solved(f, a)
    BY <2>7
  <2> QED BY <2>2, <2>8 DEF a
<1>8. L \in Some
  <2> HIDE DEF Some
  <2> QED BY <1>1, <1>6, <1>7, Induct
<1>9. after = [n \in 0..L |-> IF n = 0 THEN B ELSE Read(after[n - 1], content[n])]
  BY <1>3, <1>8
<1> DEFINE Right == {n \in Nat : n <= L => AccOK(rules, after[n], To(n))}
<1>10. 0 \in Right
  <2>1. after[0] = B
    BY <1>1, <1>9
  <2> QED BY <1>4, <1>5, <2>1
<1>11. ASSUME NEW n \in Nat, n \in Right PROVE n + 1 \in Right
  <2> SUFFICES ASSUME n + 1 <= L PROVE AccOK(rules, after[n + 1], To(n + 1))
    OBVIOUS
  <2>1. n \in 0..L - 1 /\ n + 1 \in 0..L /\ n + 1 \in 1..L /\ n + 1 # 0
        /\ (n + 1) - 1 = n /\ n <= L
    BY <1>1
  <2>2. after[n + 1] = Read(after[n], content[n + 1])
    BY <1>9, <2>1
  <2>3. AccOK(rules, after[n], To(n))
    BY <1>11, <2>1
  <2>4. To(n) \in Words /\ To(n + 1) = Append(To(n), content[n + 1])
        /\ content[n + 1] \in Chars
    BY <1>1, <1>4, <2>1
  <2>5. AccOK(rules, Read(after[n], content[n + 1]), Append(To(n), content[n + 1]))
    BY <2>3, <2>4, ReadStep
  <2> QED BY <2>2, <2>4, <2>5
<1>12. L \in Right
  <2> HIDE DEF Right
  <2> QED BY <1>1, <1>10, <1>11, Induct
<1>13. AccOK(rules, after[L], To(L))
  <2>1. L <= L
    BY <1>1
  <2> QED BY <1>12, <2>1
<1>14. AccOK(rules, after[L], text[s] \o content)
  BY <1>4, <1>13
<1> QED BY <1>2, <1>14 DEF L

LEMMA InitInv == Init => IInv
<1> SUFFICES ASSUME Init PROVE IInv
  OBVIOUS
<1>1. /\ rules \in RuleLists
      /\ g_ = Goto(rules, Fail(rules)) /\ out_ = Out(rules, Fail(rules))
      /\ tmpState = [s \in StreamIds |-> Root]
      /\ found = [s \in StreamIds |-> <<>>]
      /\ text = [s \in StreamIds |-> <<>>]
  BY DEF Init
<1>2. Machine
  BY <1>1, GotoFacts, OutFacts DEF Machine
<1>3. /\ <<>> \in Words /\ Root \in Nodes(rules)
      /\ AccOK(rules, [state |-> Root, end |-> Len(<<>>), found |-> <<>>], <<>>)
  BY <1>1, NothingRead
<1>4. ASSUME NEW s \in StreamIds
      PROVE  Len(text[s]) <= MaxText /\ AccOK(rules, Kept(s), text[s])
  <2>1. tmpState[s] = Root /\ found[s] = <<>> /\ text[s] = <<>>
    BY <1>1
  <2>2. Len(<<>>) <= MaxText
    BY EmptySeq, BoundsAssumption
  <2> QED BY <1>3, <2>1, <2>2 DEF Kept
<1> QED BY <1>1, <1>2, <1>3, <1>4 DEF IInv

\* A packet, and the end of a stream, are both a change of one stream: what is
\* kept of it is right for its new text.
LEMMA OneStream ==
  ASSUME IInv, NEW s \in StreamIds, NEW a, NEW t \in Words, Len(t) <= MaxText,
         a.end = Len(t), AccOK(rules, a, t),
         tmpState' = [tmpState EXCEPT ![s] = a.state],
         found' = [found EXCEPT ![s] = a.found],
         text' = [text EXCEPT ![s] = t],
         UNCHANGED <<rules, g_, out_>>
  PROVE  IInv'
<1>1. Machine'
  BY DEF IInv, Machine
<1>2. a.state \in Nodes(rules) /\ rules' = rules
  BY DEF AccOK, Longest
<1>3. /\ tmpState' \in [StreamIds -> Nodes(rules')]
      /\ DOMAIN found' = StreamIds
      /\ text' \in [StreamIds -> Words]
  BY <1>2 DEF IInv
<1>4. /\ tmpState'[s] = a.state /\ found'[s] = a.found /\ text'[s] = t
      /\ \A x \in StreamIds \ {s} :
           tmpState'[x] = tmpState[x] /\ found'[x] = found[x] /\ text'[x] = text[x]
  BY DEF IInv
<1>5. ASSUME NEW x \in StreamIds
      PROVE  Len(text'[x]) <= MaxText /\ AccOK(rules', Kept(x)', text'[x])
  <2>1. CASE x = s
    <3>1. Kept(s)' = [state |-> a.state, end |-> Len(t), found |-> a.found]
      BY <1>4 DEF Kept
    <3>2. AccOK(rules, [state |-> a.state, end |-> Len(t), found |-> a.found], t)
      BY DEF AccOK
    <3> QED BY <1>2, <1>4, <2>1, <3>1, <3>2
  <2>2. CASE x # s
    <3>1. Kept(x)' = Kept(x) /\ text'[x] = text[x]
      BY <1>4, <2>2 DEF Kept
    <3> QED BY <1>2, <3>1 DEF IInv
  <2> QED BY <2>1, <2>2
<1> QED BY <1>1, <1>3, <1>5 DEF IInv

LEMMA NextInv == IInv /\ [Next]_vars => IInv'
<1> SUFFICES ASSUME IInv, [Next]_vars PROVE IInv'
  OBVIOUS
<1>1. ASSUME NEW s \in StreamIds, NEW content \in Contents,
             Len(text[s]) + Len(content) <= MaxText, Proc(s, content)
      PROVE  IInv'
  <2> DEFINE done == AhoSearch(s, content)
             t == text[s] \o content
  <2>1. content \in Words
    <3>1. PICK n \in 1..MaxContent : content \in [1..n -> Chars]
      BY DEF Contents
    <3>2. n \in Nat
      BY BoundsAssumption
    <3> QED BY <3>1, <3>2 DEF Words
  <2>2. /\ Machine /\ text[s] \in Words /\ AccOK(rules, Kept(s), text[s])
    BY DEF IInv
  <2>3. t \in Words /\ Len(t) = Len(text[s]) + Len(content)
    BY <2>1, <2>2, ConcatProperties DEF Words
  <2>4. AccOK(rules, done, t)
    BY <2>1, <2>2, SearchFacts
  <2>5. /\ tmpState' = [tmpState EXCEPT ![s] = done.state]
        /\ found' = [found EXCEPT ![s] = done.found]
        /\ text' = [text EXCEPT ![s] = t]
        /\ UNCHANGED <<rules, g_, out_>>
    BY <1>1 DEF Proc
  <2>6. done.end = Len(t) /\ Len(t) <= MaxText
    BY <1>1, <2>3, <2>4 DEF AccOK
  <2> HIDE DEF done, t
  <2> QED BY <2>3, <2>4, <2>5, <2>6, OneStream
<1>2. ASSUME NEW s \in StreamIds, DeleteStream(s) PROVE IInv'
  <2> DEFINE a == [state |-> Root, end |-> Len(<<>>), found |-> <<>>]
  <2>1. <<>> \in Words /\ AccOK(rules, a, <<>>)
    BY NothingRead DEF IInv, Machine
  <2>2. Len(<<>>) <= MaxText
    BY EmptySeq, BoundsAssumption
  <2>3. /\ a.end = Len(<<>>) /\ a.state = Root /\ a.found = <<>>
    OBVIOUS
  <2>4. /\ tmpState' = [tmpState EXCEPT ![s] = a.state]
        /\ found' = [found EXCEPT ![s] = a.found]
        /\ text' = [text EXCEPT ![s] = <<>>]
        /\ UNCHANGED <<rules, g_, out_>>
    BY <1>2, <2>3 DEF DeleteStream
  <2> HIDE DEF a
  <2> QED BY <2>1, <2>2, <2>3, <2>4, OneStream
<1>3. CASE UNCHANGED vars
  <2>1. /\ rules' = rules /\ g_' = g_ /\ out_' = out_ /\ tmpState' = tmpState
        /\ found' = found /\ text' = text
    BY <1>3 DEF vars
  <2>2. Machine'
    BY <2>1 DEF IInv, Machine
  <2>3. \A s \in StreamIds : Kept(s)' = Kept(s)
    BY <2>1 DEF Kept
  <2> QED BY <2>1, <2>2, <2>3 DEF IInv
<1> QED BY <1>1, <1>2, <1>3 DEF Next

THEOREM Invariance == Spec => []IInv
BY InitInv, NextInv, PTL DEF Spec

-----------------------------------------------------------------------------
(* The theorems. *)

LEMMA InvType == IInv => TypeOK
<1> SUFFICES ASSUME IInv PROVE TypeOK
  OBVIOUS
<1>1. Machine /\ rules \in RuleLists
  BY DEF IInv, Machine
<1>2. /\ g_ \in [Nodes(rules) \X Chars -> Nodes(rules)]
      /\ DOMAIN out_ = Nodes(rules)
      /\ tmpState \in [StreamIds -> Nodes(rules)]
      /\ text \in [StreamIds -> Seq(Chars)]
  BY DEF IInv, Machine, Words
<1>3. \A q \in DOMAIN out_ : out_[q] \in Seq(1..Len(rules)) /\ Len(out_[q]) <= MaxN
  BY <1>1 DEF Machine, OutOK
<1>4. ASSUME NEW s \in StreamIds
      PROVE  found[s] \in Seq([rule : 1..Len(rules), end : 1..MaxText])
  <2> DEFINE f == found[s]
  <2>1. FoundOK(rules, f, text[s])
    BY DEF IInv, AccOK, Kept
  <2>2. Len(text[s]) <= MaxText /\ Len(text[s]) \in Nat /\ MaxText \in Nat
    BY BoundsAssumption, WordLen DEF IInv
  <2>3. f \in Seq(Results(rules)) /\ \A k \in 1..Len(f) : f[k].end \in 1..Len(text[s])
    BY <2>1 DEF FoundOK
  <2> HIDE DEF f
  <2>4. Len(f) \in Nat /\ f \in [1..Len(f) -> Results(rules)]
    BY <2>3, LenProperties
  <2>5. ASSUME NEW k \in 1..Len(f)
        PROVE  f[k] \in [rule : 1..Len(rules), end : 1..MaxText]
    <3>1. f[k] \in Results(rules) /\ f[k].end \in 1..Len(text[s])
      BY <2>3, <2>4
    <3>2. PICK n \in 1..Len(text[s]) : n = f[k].end
      BY <3>1, Zenon
    <3>3. n \in 1..MaxText
      BY <2>2
    <3> QED BY <3>1, <3>2, <3>3 DEF Results
  <2> DEFINE R == [rule : 1..Len(rules), end : 1..MaxText]
  <2>6. f \in [1..Len(f) -> R]
    BY <2>4, <2>5
  <2> HIDE DEF R
  <2>7. PICK m \in Nat : m = Len(f) /\ f \in [1..m -> R]
    BY <2>4, <2>6, Zenon
  <2>8. f \in Seq(R)
    BY ONLY <2>7
  <2> QED BY <2>8 DEF f, R
<1> QED BY <1>1, <1>2, <1>3, <1>4 DEF TypeOK

LEMMA InvState == IInv => StateIsLongestSuffix
<1> SUFFICES ASSUME IInv, NEW s \in StreamIds
             PROVE  LET ends == {q \in Nodes(rules) : IsSuffix(q, text[s])}
                    IN tmpState[s] \in ends /\ \A q \in ends : Len(q) <= Len(tmpState[s])
  BY DEF StateIsLongestSuffix
<1>1. Longest(tmpState[s], text[s], Nodes(rules)) /\ text[s] \in Words
  BY DEF IInv, AccOK, Kept
<1>2. Nodes(rules) \subseteq Words
  BY NodesClosed DEF IInv, Machine, Closed
<1>3. \A q \in Nodes(rules) : IsSuffix(q, text[s]) <=> Suf(q, text[s])
  BY <1>1, <1>2, SuffixMeans
<1> QED BY <1>1, <1>3 DEF Longest

\* The rules expected at a place are the hits there.
LEMMA ExpectedIsHit ==
  ASSUME rules \in RuleLists, NEW t \in Words, NEW n \in 1..Len(t), NEW i
  PROVE  i \in Expected(SubSeq(t, 1, n)) <=> i \in 1..Len(rules) /\ Hit(rules, t, i, n)
<1> DEFINE u == SubSeq(t, 1, n)
<1>1. u \in Words
  BY WordLen, FrontFacts DEF Words
<1>2. Hit(rules, t, i, n) <=> i \in At(rules, u) /\ Cardinality(Above(rules, u, i)) < MaxN
  BY DEF Hit
<1> HIDE DEF u
<1>3. \A j \in 1..Len(rules) : IsSuffix(rules[j], u) <=> Suf(rules[j], u)
  BY <1>1, RuleFacts, SuffixMeans
<1>4. Ending(u) = At(rules, u)
  BY <1>3 DEF Ending, At
<1>5. Longer(u, i) = Above(rules, u, i)
  BY <1>4 DEF Longer, Above
<1>6. i \in Expected(u) <=> i \in At(rules, u) /\ Cardinality(Above(rules, u, i)) < MaxN
  BY <1>4, <1>5 DEF Expected
<1>7. i \in At(rules, u) => i \in 1..Len(rules)
  BY DEF At
<1> QED BY <1>2, <1>6, <1>7 DEF u

LEMMA InvFound == IInv => FoundIsExpected
<1> SUFFICES ASSUME IInv, NEW s \in StreamIds
             PROVE  /\ ToSet(found[s]) =
                         UNION {{[rule |-> i, end |-> n] :
                                   i \in Expected(SubSeq(text[s], 1, n))} :
                                  n \in 1..Len(text[s])}
                    /\ \A k, l \in 1..Len(found[s]) : k < l =>
                         \/ found[s][k].end < found[s][l].end
                         \/ /\ found[s][k].end = found[s][l].end
                            /\ Len(rules[found[s][k].rule]) > Len(rules[found[s][l].rule])
  BY DEF FoundIsExpected
<1> DEFINE f == found[s]
           t == text[s]
           there(n) == {[rule |-> i, end |-> n] : i \in Expected(SubSeq(t, 1, n))}
           all == UNION {there(n) : n \in 1..Len(t)}
<1>1. t \in Words /\ rules \in RuleLists /\ FoundOK(rules, f, t)
  BY DEF IInv, Machine, AccOK, Kept
<1>2. \A n \in 1..Len(t) : \A i :
        i \in Expected(SubSeq(t, 1, n)) <=> i \in 1..Len(rules) /\ Hit(rules, t, i, n)
  BY <1>1, ExpectedIsHit
<1> HIDE DEF f, t
<1>3. /\ f \in Seq(Results(rules)) /\ DOMAIN f = 1..Len(f)
      /\ \A k \in 1..Len(f) : f[k] \in Results(rules)
  BY <1>1, LenProperties DEF FoundOK
<1>4. ToSet(f) = {f[k] : k \in 1..Len(f)}
  BY <1>3 DEF ToSet
<1>5. ASSUME NEW k \in 1..Len(f) PROVE f[k] \in all
  <2>1. f[k].end \in 1..Len(t) /\ Hit(rules, t, f[k].rule, f[k].end)
    BY <1>1 DEF FoundOK
  <2>2. PICK i \in 1..Len(rules), n \in Nat : f[k] = [rule |-> i, end |-> n]
    BY <1>3 DEF Results
  <2>3. n \in 1..Len(t) /\ Hit(rules, t, i, n)
    BY <2>1, <2>2
  <2>4. f[k] \in there(n)
    BY <1>2, <2>2, <2>3
  <2> HIDE DEF there
  <2> QED BY <2>3, <2>4
<1>6. ASSUME NEW n \in 1..Len(t), NEW x \in there(n) PROVE x \in ToSet(f)
  <2>1. PICK i \in Expected(SubSeq(t, 1, n)) : x = [rule |-> i, end |-> n]
    OBVIOUS
  <2>2. i \in 1..Len(rules) /\ Hit(rules, t, i, n)
    BY <1>2
  <2>3. PICK k \in 1..Len(f) : f[k].rule = i /\ f[k].end = n
    BY <1>1, <2>2 DEF FoundOK
  <2>4. f[k] \in Results(rules)
    BY <1>3
  <2>5. f[k] = x
    BY <2>1, <2>3, <2>4 DEF Results
  <2> QED BY <1>4, <2>5
<1>7. ToSet(f) = all
  <2>1. ToSet(f) \subseteq all
    BY <1>4, <1>5
  <2>2. all \subseteq ToSet(f)
    <3> HIDE DEF there
    <3> QED BY <1>6
  <2> QED BY <2>1, <2>2
<1>8. \A k, l \in 1..Len(f) : k < l =>
        \/ f[k].end < f[l].end
        \/ f[k].end = f[l].end /\ Len(rules[f[k].rule]) > Len(rules[f[l].rule])
  BY <1>1 DEF FoundOK, Before
<1> QED BY <1>7, <1>8 DEF f, t

\* The machine, the states and the results keep their types, and no node has
\* more than MAXN outputs (MatchPreFilter's tables g_ and out_).
THEOREM TypeCorrect == Spec => []TypeOK
BY Invariance, InvType, PTL

\* Whatever the rules and wherever the packets are cut, the search of
\* MatchPreFilter::AhoSearch finds in each stream what a search for every
\* keyword at every place of its whole text finds, and in the same order; the
\* state kept with the stream is the longest end that begins a keyword.
THEOREM SearchCorrect == Spec => []SearchIsNaive
BY Invariance, InvState, InvFound, PTL DEF SearchIsNaive
=============================================================================
