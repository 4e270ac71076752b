--------------------------- MODULE SequenceFacts ---------------------------
(***************************************************************************)
(* What appending to, inserting into and removing from a sequence does to  *)
(* its length, its elements and its being free of repetitions; that a set  *)
(* of positions has a least one, with which the proofs replace induction   *)
(* over positions; and what Min and Max are.                               *)
(***************************************************************************)
EXTENDS Integers, Sequences, SequencesExt, SequenceTheorems,
        FiniteSetTheorems, WellFoundedInduction, TLAPS

(* Appending keeps the elements where they are and adds one at the end:    *)
(* the push_back of the lists of the program.                              *)
LEMMA AppendFacts ==
  ASSUME NEW S, NEW q \in Seq(S), NEW x \in S
  PROVE  /\ Append(q, x) \in Seq(S)
         /\ Append(q, x) # << >>
         /\ Len(Append(q, x)) = Len(q) + 1
         /\ \A i \in 1..Len(q) : Append(q, x)[i] = q[i]
         /\ Append(q, x)[Len(q) + 1] = x
         /\ Last(Append(q, x)) = x
         /\ ToSet(Append(q, x)) = ToSet(q) \cup {x}
         /\ IsInjective(q) /\ x \notin ToSet(q) => IsInjective(Append(q, x))
<1> DEFINE r == Append(q, x)
<1>1. /\ r \in Seq(S) /\ r # << >> /\ Len(r) = Len(q) + 1
      /\ \A i \in 1..Len(q) : r[i] = q[i]
      /\ r[Len(q) + 1] = x
  BY AppendProperties
<1>2. DOMAIN q = 1..Len(q) /\ DOMAIN r = 1..Len(q) + 1 /\ Len(q) \in Nat
  BY <1>1, LenProperties
<1> HIDE DEF r
<1>3. Last(r) = x
  BY <1>1 DEF Last
<1>4. ToSet(r) = ToSet(q) \cup {x}
  <2>1. ASSUME NEW y \in ToSet(r) PROVE y \in ToSet(q) \cup {x}
    <3>1. PICK i \in 1..Len(q) + 1 : y = r[i]
      BY <1>2 DEF ToSet
    <3> QED BY <3>1, <1>1, <1>2 DEF ToSet
  <2>2. ASSUME NEW y \in ToSet(q) \cup {x} PROVE y \in ToSet(r)
    BY <1>1, <1>2 DEF ToSet
  <2> QED BY <2>1, <2>2
<1>5. IsInjective(q) /\ x \notin ToSet(q) => IsInjective(r)
  BY <1>1, <1>2 DEF ToSet, IsInjective
<1> QED BY <1>1, <1>3, <1>4, <1>5 DEF r

(* Removing one element: list::erase and multimap::erase.                  *)
LEMMA RemoveAtElements ==
  ASSUME NEW S, NEW q \in Seq(S), NEW i \in 1..Len(q)
  PROVE  /\ RemoveAt(q, i) \in Seq(S)
         /\ Len(RemoveAt(q, i)) = Len(q) - 1
         /\ \A j \in 1..i - 1 : RemoveAt(q, i)[j] = q[j]
         /\ \A j \in i..Len(q) - 1 : RemoveAt(q, i)[j] = q[j + 1]
<1> DEFINE a == SubSeq(q, 1, i - 1)
           b == SubSeq(q, i + 1, Len(q))
<1>1. a \in Seq(S) /\ Len(a) = i - 1 /\ \A j \in 1..i - 1 : a[j] = q[j]
  BY SMT
<1>2. /\ b \in Seq(S) /\ Len(b) = Len(q) - i
      /\ \A j \in 1..Len(q) - i : b[j] = q[j + i]
  BY SMT
<1> HIDE DEF a, b
<1>3. /\ a \o b \in Seq(S)
      /\ Len(a \o b) = Len(a) + Len(b)
      /\ \A j \in 1..Len(a) + Len(b) :
           (a \o b)[j] = IF j <= Len(a) THEN a[j] ELSE b[j - Len(a)]
  BY <1>1, <1>2, ConcatProperties
<1>4. \A j \in 1..i - 1 : (a \o b)[j] = q[j]
  BY <1>1, <1>2, <1>3
<1>5. \A j \in i..Len(q) - 1 : (a \o b)[j] = q[j + 1]
  BY <1>1, <1>2, <1>3
<1>6. RemoveAt(q, i) = a \o b
  BY Zenon DEF RemoveAt, a, b
<1>7. Len(a \o b) = Len(q) - 1
  BY <1>1, <1>2, <1>3
<1> QED BY <1>3, <1>4, <1>5, <1>6, <1>7

LEMMA RemoveAtFacts ==
  ASSUME NEW S, NEW q \in Seq(S), NEW i \in 1..Len(q), IsInjective(q)
  PROVE  /\ IsInjective(RemoveAt(q, i))
         /\ ToSet(RemoveAt(q, i)) = ToSet(q) \ {q[i]}
<1> DEFINE r == RemoveAt(q, i)
<1>1. /\ r \in Seq(S) /\ Len(r) = Len(q) - 1
      /\ \A j \in 1..i - 1 : r[j] = q[j]
      /\ \A j \in i..Len(q) - 1 : r[j] = q[j + 1]
  BY RemoveAtElements
<1>2. DOMAIN q = 1..Len(q) /\ DOMAIN r = 1..Len(q) - 1 /\ Len(q) \in Nat
  BY <1>1, LenProperties
<1> HIDE DEF r
<1>. DEFINE o(j) == IF j < i THEN j ELSE j + 1
<1>0. \A j \in 1..Len(q) - 1 : o(j) \in 1..Len(q) \ {i} /\ r[j] = q[o(j)]
  BY <1>1, <1>2
<1>a. \A j, k \in 1..Len(q) : q[j] = q[k] => j = k
  BY <1>2 DEF IsInjective
<1>b. \A j, k \in 1..Len(q) - 1 : o(j) = o(k) => j = k
  BY <1>2
<1> HIDE DEF o
<1>3. IsInjective(r)
  BY <1>0, <1>2, <1>a, <1>b DEF IsInjective
<1>4. ASSUME NEW y \in ToSet(r) PROVE y \in ToSet(q) \ {q[i]}
  <2>1. PICK j \in 1..Len(q) - 1 : y = r[j]
    BY <1>2, <1>4 DEF ToSet
  <2>2. y = q[o(j)] /\ q[o(j)] # q[i] /\ o(j) \in DOMAIN q
    BY <2>1, <1>0, <1>2, <1>a
  <2> QED BY <2>2 DEF ToSet
<1>5. ASSUME NEW y \in ToSet(q) \ {q[i]} PROVE y \in ToSet(r)
  <2>1. PICK j \in 1..Len(q) : y = q[j] /\ j # i
    BY <1>2, <1>5 DEF ToSet
  <2>2. CASE j < i
    <3>1. j \in 1..Len(q) - 1 /\ r[j] = y
      BY <2>1, <2>2, <1>1, <1>2
    <3> QED BY <3>1, <1>2 DEF ToSet
  <2>3. CASE j > i
    <3>1. j - 1 \in 1..Len(q) - 1 /\ r[j - 1] = y
      BY <2>1, <2>3, <1>1, <1>2
    <3> QED BY <3>1, <1>2 DEF ToSet
  <2> QED BY <2>1, <2>2, <2>3
<1> QED BY <1>3, <1>4, <1>5 DEF r

(* Inserting one element: multimap::insert.                                *)
LEMMA InsertAtElements ==
  ASSUME NEW S, NEW q \in Seq(S), NEW i \in 1..Len(q) + 1, NEW x \in S
  PROVE  /\ InsertAt(q, i, x) \in Seq(S)
         /\ Len(InsertAt(q, i, x)) = Len(q) + 1
         /\ \A j \in 1..i - 1 : InsertAt(q, i, x)[j] = q[j]
         /\ InsertAt(q, i, x)[i] = x
         /\ \A j \in i + 1..Len(q) + 1 : InsertAt(q, i, x)[j] = q[j - 1]
<1> DEFINE a == SubSeq(q, 1, i - 1)
           b == SubSeq(q, i, Len(q))
           c == Append(a, x)
<1>1. a \in Seq(S) /\ Len(a) = i - 1 /\ \A j \in 1..i - 1 : a[j] = q[j]
  BY SMT
<1>2. /\ b \in Seq(S) /\ Len(b) = Len(q) + 1 - i
      /\ \A j \in 1..Len(q) + 1 - i : b[j] = q[j + i - 1]
  BY SMT
<1> HIDE DEF a, b
<1>3. a \o <<x>> = c
  BY <1>1, AppendIsConcat
<1>4. /\ c \in Seq(S) /\ Len(c) = i /\ c[i] = x
      /\ \A j \in 1..i - 1 : c[j] = q[j]
  BY <1>1, AppendProperties
<1> HIDE DEF c
<1>5. /\ c \o b \in Seq(S)
      /\ Len(c \o b) = Len(c) + Len(b)
      /\ \A j \in 1..Len(c) + Len(b) :
           (c \o b)[j] = IF j <= Len(c) THEN c[j] ELSE b[j - Len(c)]
  BY <1>2, <1>4, ConcatProperties
<1>6. \A j \in 1..i - 1 : (c \o b)[j] = q[j]
  BY <1>2, <1>4, <1>5
<1>7. (c \o b)[i] = x
  BY <1>2, <1>4, <1>5
<1>8. \A j \in i + 1..Len(q) + 1 : (c \o b)[j] = q[j - 1]
  BY <1>2, <1>4, <1>5
<1>9. Len(c \o b) = Len(q) + 1
  BY <1>2, <1>4, <1>5
<1>10. InsertAt(q, i, x) = a \o <<x>> \o b
  BY Zenon DEF InsertAt, a, b
<1> QED BY <1>3, <1>5, <1>6, <1>7, <1>8, <1>9, <1>10

LEMMA InsertAtFacts ==
  ASSUME NEW S, NEW q \in Seq(S), NEW i \in 1..Len(q) + 1, NEW x \in S,
         IsInjective(q), x \notin ToSet(q)
  PROVE  /\ IsInjective(InsertAt(q, i, x))
         /\ ToSet(InsertAt(q, i, x)) = ToSet(q) \cup {x}
<1> DEFINE r == InsertAt(q, i, x)
<1>1. /\ r \in Seq(S) /\ Len(r) = Len(q) + 1
      /\ \A j \in 1..i - 1 : r[j] = q[j]
      /\ r[i] = x
      /\ \A j \in i + 1..Len(q) + 1 : r[j] = q[j - 1]
  BY InsertAtElements
<1>2. DOMAIN q = 1..Len(q) /\ DOMAIN r = 1..Len(q) + 1 /\ Len(q) \in Nat
  BY <1>1, LenProperties
<1> DEFINE o(j) == IF j < i THEN j ELSE j - 1
<1> HIDE DEF r
<1>3. \A j \in 1..Len(q) : q[j] # x
  BY <1>2 DEF ToSet
<1>a. \A j, k \in 1..Len(q) : q[j] = q[k] => j = k
  BY <1>2 DEF IsInjective
<1>b. \A j \in (1..Len(q) + 1) \ {i} : o(j) \in 1..Len(q) /\ r[j] = q[o(j)]
  BY <1>1, <1>2
<1>c. \A j, k \in (1..Len(q) + 1) \ {i} : o(j) = o(k) => j = k
  BY <1>2
<1> HIDE DEF o
<1>4. IsInjective(r)
  BY <1>1, <1>2, <1>3, <1>a, <1>b, <1>c DEF IsInjective
<1>5. ASSUME NEW y \in ToSet(r) PROVE y \in ToSet(q) \cup {x}
  <2>1. PICK j \in 1..Len(q) + 1 : y = r[j]
    BY <1>2, <1>5 DEF ToSet
  <2>2. CASE j # i
    BY <2>1, <2>2, <1>b, <1>2 DEF ToSet
  <2>3. CASE j = i
    BY <2>1, <2>3, <1>1
  <2> QED BY <2>2, <2>3
<1>6. ASSUME NEW y \in ToSet(q) PROVE y \in ToSet(r)
  <2>1. PICK j \in 1..Len(q) : y = q[j]
    BY <1>2, <1>6 DEF ToSet
  <2>2. CASE j < i
    BY <2>1, <2>2, <1>1, <1>2 DEF ToSet
  <2>3. CASE j >= i
    <3>1. j + 1 \in 1..Len(q) + 1 /\ r[j + 1] = y
      BY <2>1, <2>3, <1>1, <1>2
    <3> QED BY <3>1, <1>2 DEF ToSet
  <2> QED BY <2>1, <2>2, <2>3
<1>7. x \in ToSet(r)
  BY <1>1, <1>2 DEF ToSet
<1> QED BY <1>4, <1>5, <1>6, <1>7 DEF r

(* Dropping the first element, which is what the loop over                 *)
(* end_stream_list does with each of its steps.                            *)
LEMMA TailFacts ==
  ASSUME NEW S, NEW q \in Seq(S), q # << >>
  PROVE  /\ Tail(q) \in Seq(S)
         /\ Len(q) \in Nat \ {0}
         /\ Len(Tail(q)) = Len(q) - 1
         /\ \A i \in 1..Len(q) - 1 : Tail(q)[i] = q[i + 1]
         /\ Head(q) = q[1]
         /\ Head(q) \in S
         /\ Head(q) \in ToSet(q)
         /\ IsInjective(q) => /\ IsInjective(Tail(q))
                              /\ ToSet(Tail(q)) = ToSet(q) \ {Head(q)}
<1> DEFINE r == Tail(q)
<1>1. /\ r \in Seq(S) /\ Len(q) \in Nat \ {0} /\ Len(r) = Len(q) - 1
      /\ \A i \in 1..Len(q) - 1 : r[i] = q[i + 1]
      /\ Head(q) = q[1] /\ Head(q) \in S
  BY HeadTailProperties, EmptySeq, SMT
<1>2. DOMAIN q = 1..Len(q) /\ DOMAIN r = 1..Len(q) - 1
  BY <1>1, LenProperties
<1> HIDE DEF r
<1>3. Head(q) \in ToSet(q)
  BY <1>1, <1>2 DEF ToSet
<1>4. ASSUME IsInjective(q)
      PROVE  IsInjective(r) /\ ToSet(r) = ToSet(q) \ {Head(q)}
  <2>1. IsInjective(r)
    BY <1>1, <1>2, <1>4 DEF IsInjective
  <2>2. ASSUME NEW y \in ToSet(r) PROVE y \in ToSet(q) \ {Head(q)}
    <3>1. PICK j \in 1..Len(q) - 1 : y = r[j]
      BY <1>2, <2>2 DEF ToSet
    <3> QED BY <3>1, <1>1, <1>2, <1>4 DEF ToSet, IsInjective
  <2>3. ASSUME NEW y \in ToSet(q) \ {Head(q)} PROVE y \in ToSet(r)
    <3>1. PICK j \in 1..Len(q) : y = q[j] /\ j # 1
      BY <1>1, <1>2, <2>3 DEF ToSet
    <3>2. j - 1 \in 1..Len(q) - 1 /\ r[j - 1] = y
      BY <3>1, <1>1
    <3> QED BY <3>2, <1>2 DEF ToSet
  <2> QED BY <2>1, <2>2, <2>3
<1> QED BY <1>1, <1>3, <1>4 DEF r

(* A set of naturals that is not empty has a least element.                *)
LEMMA Least ==
  ASSUME NEW T \in SUBSET Nat, T # {}
  PROVE  \E n \in T : \A m \in T : n <= m
<1> DEFINE R == OpToRel(<, Nat)
<1>1. IsWellFoundedOn(R, Nat)
  BY NatLessThanWellFounded
<1>2. R = {ss \in Nat \X Nat : ss[1] < ss[2]}
  BY DEF OpToRel
<1> HIDE DEF R
<1>3. PICK n \in T : \A m \in T : ~(<<m, n>> \in R)
  BY <1>1, WFMin
<1>4. ASSUME NEW m \in T PROVE n <= m
  <2>1. m \in Nat /\ n \in Nat /\ <<m, n>> \notin R
    BY <1>3
  <2>2. <<m, n>> \in Nat \X Nat /\ <<m, n>>[1] = m /\ <<m, n>>[2] = n
    BY <2>1
  <2>3. ~(m < n)
    BY <1>2, <2>1, <2>2
  <2> QED BY <2>1, <2>3
<1> QED BY <1>4

(* Induction over the naturals, for a set of them.                         *)
LEMMA Induct ==
  ASSUME NEW S, 0 \in S, \A n \in Nat : n \in S => n + 1 \in S
  PROVE  Nat \subseteq S
<1> SUFFICES ASSUME Nat \ S # {} PROVE FALSE
  OBVIOUS
<1>1. PICK n \in Nat \ S : \A m \in Nat \ S : n <= m
  BY Least
<1>2. n - 1 \in Nat /\ n - 1 \notin Nat \ S
  BY <1>1
<1> QED BY <1>1, <1>2

(* A set of positions that holds everything before each of its elements is *)
(* the first positions, as many as it has elements.                        *)
LEMMA FirstPositions ==
  ASSUME NEW n \in Nat, NEW T \in SUBSET (1..n),
         \A i \in T, j \in 1..n : j < i => j \in T
  PROVE  T = 1..Cardinality(T)
<1>1. \A k \in Nat : Cardinality(1..k) = k
  <2> TAKE k \in Nat
  <2>1. 1 \in Int /\ k \in Int
    OBVIOUS
  <2>2. Cardinality(1..k) = IF 1 > k THEN 0 ELSE k - 1 + 1
    BY <2>1, FS_Interval, Zenon
  <2> QED BY <2>2
<1>2. CASE T = 1..n
  BY <1>1, <1>2
<1>3. CASE T # 1..n
  <2> DEFINE out == (1..n) \ T
  <2>1. out \in SUBSET Nat /\ out # {}
    <3>1. \A i \in 1..n : i \in Nat
      OBVIOUS
    <3> QED BY <3>1, <1>3
  <2>2. PICK m \in out : \A k \in out : m <= k
    BY <2>1, Least
  <2>3. m \in 1..n /\ m \notin T
    BY <2>2
  <2>4. T = 1..m - 1
    <3>1. ASSUME NEW i \in T PROVE i \in 1..m - 1
      BY <2>3
    <3>2. ASSUME NEW i \in 1..m - 1 PROVE i \in T
      <4>1. i \in 1..n /\ ~(m <= i)
        BY <2>3
      <4> QED BY <2>2, <4>1
    <3> QED BY <3>1, <3>2
  <2>5. m - 1 \in Nat
    BY <2>3
  <2> QED BY <1>1, <2>4, <2>5
<1> QED BY <1>2, <1>3

(* The first elements of a sequence, and the greater and less of numbers.  *)
LEMMA FrontFacts ==
  ASSUME NEW S, NEW a \in Seq(S), NEW l \in Nat, l <= Len(a)
  PROVE  /\ SubSeq(a, 1, l) \in Seq(S) /\ Len(SubSeq(a, 1, l)) = l
         /\ \A k \in 1..l : SubSeq(a, 1, l)[k] = a[k]
<1> DEFINE y == SubSeq(a, 1, l)
<1>1. Len(a) \in Nat /\ 1 \in Int /\ l \in Int
  BY LenProperties
<1>2. \A k \in 1..l : a[k] \in S
  <2> TAKE k \in 1..l
  <2>1. k \in 1..Len(a)
    BY <1>1
  <2> QED BY <2>1, LenProperties
<1>3. /\ y \in Seq(S) /\ Len(y) = (IF 1 <= l THEN l - 1 + 1 ELSE 0)
      /\ \A k \in 1..l - 1 + 1 : y[k] = a[1 + k - 1]
  BY <1>1, <1>2, SubSeqProperties
<1> HIDE DEF y
<1>4. Len(y) = l
  BY <1>1, <1>3
<1>5. ASSUME NEW k \in 1..l PROVE y[k] = a[k]
  <2>1. k \in 1..l - 1 + 1 /\ 1 + k - 1 = k
    OBVIOUS
  <2> QED BY <1>3, <2>1
<1> QED BY <1>3, <1>4, <1>5 DEF y

(* What two parts that are joined are the parts of.                        *)
Parts(w, q, r) ==
  /\ Len(w) = Len(q) + Len(r)
  /\ SubSeq(w, 1, Len(q)) = q /\ SubSeq(w, Len(q) + 1, Len(w)) = r

LEMMA JoinedParts ==
  ASSUME NEW S, NEW q \in Seq(S), NEW r \in Seq(S)
  PROVE  Parts(q \o r, q, r)
<1> DEFINE w == q \o r
           l == Len(q)
           n == Len(w)
<1>1. l \in Nat /\ Len(r) \in Nat /\ l \in Int /\ 1 \in Int
  BY LenProperties
<1>2. /\ w \in Seq(S) /\ n = l + Len(r)
      /\ \A i \in 1..(l + Len(r)) : w[i] = IF i <= l THEN q[i] ELSE r[i - l]
  BY ConcatProperties
<1> HIDE DEF w
<1>3. n \in Nat /\ n \in Int /\ l + 1 \in Int
  BY <1>1, <1>2
<1>4. SubSeq(w, 1, l) = q
  <2>1. l <= n
    BY <1>1, <1>2
  <2>2. /\ SubSeq(w, 1, l) \in Seq(S) /\ Len(SubSeq(w, 1, l)) = l
        /\ \A k \in 1..l : SubSeq(w, 1, l)[k] = w[k]
    BY <1>1, <1>2, <2>1, FrontFacts
  <2>3. \A k \in 1..l : w[k] = q[k]
    BY <1>1, <1>2
  <2> QED BY <2>2, <2>3, SeqEqual
<1>5. SubSeq(w, l + 1, n) = r
  <2>1. \A i \in (l + 1)..n : w[i] \in S
    <3>1. \A i \in (l + 1)..n : i \in 1..n
      BY <1>1
    <3> QED BY <1>2, <3>1, ElementOfSeq
  <2>2. /\ SubSeq(w, l + 1, n) \in Seq(S)
        /\ Len(SubSeq(w, l + 1, n)) = IF l + 1 <= n THEN n - (l + 1) + 1 ELSE 0
        /\ \A i \in 1..(n - (l + 1) + 1) : SubSeq(w, l + 1, n)[i] = w[(l + 1) + i - 1]
    BY <1>3, <2>1, SubSeqProperties
  <2>3. Len(SubSeq(w, l + 1, n)) = Len(r) /\ n - (l + 1) + 1 = Len(r)
    BY <1>1, <1>2, <2>2
  <2>4. \A i \in 1..Len(r) : SubSeq(w, l + 1, n)[i] = r[i]
    <3> TAKE i \in 1..Len(r)
    <3>1. /\ (l + 1) + i - 1 = l + i /\ l + i \in 1..(l + Len(r))
          /\ ~(l + i <= l) /\ (l + i) - l = i
      BY <1>1
    <3>2. w[l + i] = r[i]
      BY <1>2, <3>1
    <3>3. SubSeq(w, l + 1, n)[i] = w[(l + 1) + i - 1]
      BY <2>2, <2>3
    <3> QED BY <3>1, <3>2, <3>3
  <2> QED BY <2>2, <2>3, <2>4, SeqEqual
<1> QED BY <1>2, <1>4, <1>5 DEF Parts, w

LEMMA MiddlePart ==
  ASSUME NEW S, NEW q \in Seq(S), NEW r \in Seq(S), NEW t \in Seq(S)
  PROVE  /\ Len((q \o r) \o t) = Len(q) + Len(r) + Len(t)
         /\ SubSeq((q \o r) \o t, Len(q) + 1, Len(q) + Len(r)) = r
<1>1. PICK w \in Seq(S) : w = q \o r
  BY ConcatProperties
<1>2. PICK x \in Seq(S) : x = w \o t
  BY ConcatProperties
<1>3. PICK l \in Nat, m \in Nat, n \in Nat : l = Len(q) /\ m = Len(r) /\ n = Len(t)
  BY LenProperties
<1>4. Len(w) = l + m /\ Len(x) = l + m + n
  BY <1>1, <1>2, <1>3, ConcatProperties
<1>5. \A i \in 1..m : x[l + i] = r[i]
  <2> TAKE i \in 1..m
  <2>1. /\ l + i \in 1..(l + m) /\ l + i \in 1..(l + m + n) /\ l + i <= l + m
        /\ ~(l + i <= l) /\ (l + i) - l = i
    BY <1>3
  <2>2. x[l + i] = w[l + i]
    BY <1>2, <1>3, <1>4, <2>1, ConcatProperties
  <2>3. w[l + i] = r[i]
    BY <1>1, <1>3, <2>1, ConcatProperties
  <2> QED BY <2>2, <2>3
<1> DEFINE y == SubSeq(x, l + 1, l + m)
<1>6. /\ y \in Seq(S) /\ Len(y) = m
      /\ \A i \in 1..m : y[i] = x[l + i]
  <2>1. \A i \in (l + 1)..(l + m) : x[i] \in S
    <3>1. \A i \in (l + 1)..(l + m) : i \in 1..Len(x)
      BY <1>3, <1>4
    <3> QED BY <1>2, <3>1, ElementOfSeq
  <2>2. l + 1 \in Int /\ l + m \in Int /\ (l + m) - (l + 1) + 1 = m
    BY <1>3
  <2>3. /\ y \in Seq(S)
        /\ Len(y) = IF l + 1 <= l + m THEN (l + m) - (l + 1) + 1 ELSE 0
        /\ \A i \in 1..((l + m) - (l + 1) + 1) : y[i] = x[(l + 1) + i - 1]
    BY <2>1, <2>2, SubSeqProperties
  <2> HIDE DEF y
  <2>4. \A i \in 1..m : (l + 1) + i - 1 = l + i
    BY <1>3
  <2>5. Len(y) = m
    BY <1>3, <2>3
  <2> QED BY <2>2, <2>3, <2>4, <2>5
<1> HIDE DEF y
<1>7. y = r
  <2>1. \A i \in 1..m : y[i] = r[i]
    BY <1>5, <1>6
  <2> QED BY <1>3, <1>6, <2>1, SeqEqual
<1> QED BY <1>1, <1>2, <1>3, <1>4, <1>7 DEF y

LEMMA MaxOfTwo ==
  ASSUME NEW a \in Int, NEW b \in Int
  PROVE  Max({a, b}) \in {a, b} /\ Max({a, b}) >= a /\ Max({a, b}) >= b
<1>1. \E n \in {a, b} : \A m \in {a, b} : n >= m
  OBVIOUS
<1> QED BY <1>1 DEF Max

LEMMA MinOfTwo ==
  ASSUME NEW a \in Int, NEW b \in Int
  PROVE  Min({a, b}) \in {a, b} /\ Min({a, b}) <= a /\ Min({a, b}) <= b
<1>1. \E n \in {a, b} : \A m \in {a, b} : n <= m
  OBVIOUS
<1> QED BY <1>1 DEF Min

(* A set of positions has a greatest one.                                 *)
LEMMA MaxOf ==
  ASSUME NEW n \in Nat, NEW S \in SUBSET (1..n), S # {}
  PROVE  Max(S) \in S /\ \A y \in S : Max(S) >= y
<1> DEFINE T == {n - x : x \in S}
<1>1. T \in SUBSET Nat /\ T # {}
  <2>1. \A x \in S : x \in 1..n /\ n - x \in Nat
    OBVIOUS
  <2> QED BY <2>1
<1>2. PICK m \in T : \A k \in T : m <= k
  <2> HIDE DEF T
  <2> QED BY <1>1, Least
<1>3. PICK x \in S : m = n - x
  OBVIOUS
<1>4. ASSUME NEW y \in S PROVE x >= y
  <2>1. m <= n - y
    BY <1>2
  <2> QED BY <1>3, <2>1
<1>5. \E z \in S : \A y \in S : z >= y
  BY <1>4
<1> QED BY <1>5, Zenon DEF Max
-----------------------------------------------------------------------------
(* Recursive functions that go from one place to the next, each by a step  *)
(* of its own: one exists, and there is no other.                          *)
Follows(f, Step, a, b) == \A k \in (a + 1)..b : f[k] = Step[k][f[k - 1]]

Runs(f, S, s, Step, a, b) ==
  f \in [a..b -> S] /\ f[a] = s /\ Follows(f, Step, a, b)

LEMMA RunExists ==
  ASSUME NEW S, NEW s \in S, NEW a \in Nat, NEW b \in Nat, a <= b,
         NEW Step \in [(a + 1)..b -> [S -> S]]
  PROVE  \E f : Runs(f, S, s, Step, a, b)
<1> USE DEF Runs, Follows
<1> DEFINE Good(f, n) ==
             /\ f \in [a..(a + n) -> S] /\ f[a] = s
             /\ \A k \in (a + 1)..(a + n) : f[k] = Step[k][f[k - 1]]
           Solved == {n \in Nat : a + n <= b => \E f : Good(f, n)}
<1>1. 0 \in Solved
  <2> DEFINE f == [k \in a..a |-> s]
  <2>1. a + 0 = a /\ (a + 1)..a = {}
    OBVIOUS
  <2>2. f \in [a..(a + 0) -> S] /\ f[a] = s
    BY <2>1
  <2>3. Good(f, 0)
    BY <2>1, <2>2
  <2> QED BY <2>3
<1>2. ASSUME NEW n \in Nat, n \in Solved PROVE n + 1 \in Solved
  <2> SUFFICES ASSUME a + (n + 1) <= b PROVE \E f : Good(f, n + 1)
    <3> HIDE DEF Good
    <3> QED OBVIOUS
  <2>1. PICK f : Good(f, n)
    BY <1>2
  <2>2. PICK m \in Nat : m = a + n /\ m + 1 \in (a + 1)..b
    OBVIOUS
  <2>3. f[m] \in S
    BY <2>1, <2>2
  <2>4. PICK x \in S : x = Step[m + 1][f[m]]
    BY <2>2, <2>3
  <2> DEFINE g == [k \in a..(m + 1) |-> IF k = m + 1 THEN x ELSE f[k]]
  <2>5. g \in [a..(a + (n + 1)) -> S] /\ g[a] = s
    BY <2>1, <2>2
  <2>6. ASSUME NEW k \in (a + 1)..(a + (n + 1))
        PROVE  g[k] = Step[k][g[k - 1]]
    <3>1. CASE k = m + 1
      <4>1. g[k] = x /\ g[k - 1] = f[m]
        BY <2>2, <3>1
      <4> QED BY <2>4, <3>1, <4>1
    <3>2. CASE k # m + 1
      <4>1. g[k] = f[k] /\ g[k - 1] = f[k - 1] /\ k \in (a + 1)..(a + n)
        BY <2>2, <3>2
      <4> QED BY <2>1, <4>1
    <3> QED BY <3>1, <3>2
  <2> QED BY <2>5, <2>6
<1>3. b - a \in Nat /\ a + (b - a) = b
  OBVIOUS
<1>4. b - a \in Solved
  <2> HIDE DEF Solved
  <2> QED BY <1>1, <1>2, <1>3, Induct
<1>5. PICK f : Good(f, b - a)
  BY <1>3, <1>4
<1> QED BY <1>3, <1>5

LEMMA RunUnique ==
  ASSUME NEW a \in Nat, NEW b \in Nat, NEW Step, NEW f, NEW g, f[a] = g[a],
         Follows(f, Step, a, b), Follows(g, Step, a, b)
  PROVE  \A k \in a..b : f[k] = g[k]
<1> USE DEF Follows
<1> DEFINE Same == {n \in Nat : a + n <= b => f[a + n] = g[a + n]}
<1>1. 0 \in Same
  OBVIOUS
<1>2. ASSUME NEW n \in Nat, n \in Same PROVE n + 1 \in Same
  <2>1. PICK k \in Nat : k = a + (n + 1) /\ k - 1 = a + n
    OBVIOUS
  <2>2. k <= b => f[k - 1] = g[k - 1] /\ k \in (a + 1)..b
    BY <1>2, <2>1
  <2> QED BY <2>1, <2>2
<1> HIDE DEF Same
<1>3. Nat \subseteq Same
  BY <1>1, <1>2, Induct
<1>4. ASSUME NEW k \in a..b PROVE f[k] = g[k]
  <2>1. k - a \in Same /\ a + (k - a) = k
    BY <1>3
  <2> QED BY <2>1 DEF Same
<1> QED BY <1>4
=============================================================================
