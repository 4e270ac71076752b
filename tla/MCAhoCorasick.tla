--------------------------- MODULE MCAhoCorasick ---------------------------
(***************************************************************************)
(* Rule files for AhoCorasick over two characters.                         *)
(***************************************************************************)
EXTENDS AhoCorasick

Keywords == UNION {[1..n -> Chars] : n \in 1..3}

\* Every file of one or two rules: keywords inside, at the end of and equal to
\* one another, in both orders.
TwoRules == UNION {[1..n -> Keywords] : n \in 1..2}

\* Three keywords, each the end of the next longer one, in every order: more
\* outputs at one node than it has slots.
NestedRules ==
  {f \in [1..3 -> Keywords] :
     /\ {Len(f[i]) : i \in 1..3} = 1..3
     /\ \A i, j \in 1..3 : Len(f[i]) < Len(f[j]) => IsSuffix(f[i], f[j])}

Files ==
  TwoRules \cup NestedRules \cup
    { << <<"a", "b">>, <<"b", "a">>, <<"a", "b", "a">> >>,
      << <<"b">>, <<"a", "b">>, <<"b">> >> }
=============================================================================
