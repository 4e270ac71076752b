------------------------------ MODULE LintText ------------------------------
(***************************************************************************)
(* How cpplint reads a text: ProcessFileData blanks comments of several    *)
(* lines, CleansedLines takes raw strings, strings and comments away, and  *)
(* CloseExpression and ReverseCloseExpression find the other end of a      *)
(* bracket in what is left.  An environment writes the text token by token *)
(* and knows what each token is to C++.                                    *)
(*                                                                         *)
(* A line is a sequence of tokens that stand apart, except in literals:    *)
(*   "word", "//", "/*", "*/", "(", ")", "{", "}", "<", ">", ";", "->",    *)
(*   "<<", "operator" (with no space after it)  as written;                *)
(*   "quote", "tick", "escaped"  the characters ", ' and \";               *)
(*   "raw(", ")raw"  the two ends of a raw string, R"( and )";             *)
(*   "lit"  an empty literal, "" or ''.                                    *)
(* Left out: digit separators, #include lines (their name is not collapsed)*)
(* and the delimiter of a raw string.                                      *)
(***************************************************************************)
EXTENDS Integers, Sequences, FiniteSets, SequencesExt

CONSTANTS Texts        \* kinds of texts: their tokens, at most how many, and on
                       \* at most how many lines

VARIABLES
  kind,                \* chosen once
  pc, lines,           \* raw lines
  elided, flagged,     \* clean_lines.elided, complaints
  mode,                \* what the environment is in: "code", "string", ...
  code,                \* the code of each line, a literal standing for itself
  open, pairs          \* brackets that are open, and pairs, at <<line, place>>

vars == <<kind, pc, lines, elided, flagged, mode, code, open, pairs>>

Init ==
  /\ kind \in Texts
  /\ pc = "write" /\ lines = <<<<>>>> /\ elided = <<>> /\ flagged = {}
  /\ mode = "code" /\ code = <<<<>>>> /\ open = <<>> /\ pairs = {}

Has(toks, set) == \E i \in DOMAIN toks : toks[i] \in set
HowMany(toks, set) == Len(SelectSeq(toks, LAMBDA t : t \in set))
AppendLast(ls, t) == [ls EXCEPT ![Len(ls)] = Append(@, t)]

-----------------------------------------------------------------------------
(* RemoveMultiLineComments                                                 *)

FirstFrom(i, P(_)) ==
  LET at == {j \in i..Len(lines) : P(lines[j])}
  IN IF at = {} THEN Len(lines) + 1 ELSE CHOOSE j \in at : \A k \in at : j <= k

\* A comment counts if it begins its line and goes beyond it; it ends with the
\* first line that ends with the mark.
FindNextMultiLineCommentStart(i) ==
  FirstFrom(i, LAMBDA l : l # <<>> /\ l[1] = "/*" /\ ~Has(l, {"*/"}))
FindNextMultiLineCommentEnd(i) ==
  FirstFrom(i, LAMBDA l : l # <<>> /\ Last(l) = "*/")

\* The comments found from line i on, as pairs of lines; the last one may lack
\* its end.
MultiLineComments ==
  LET found[i \in 1..(Len(lines) + 1)] ==
        LET begin == FindNextMultiLineCommentStart(i)
            end == FindNextMultiLineCommentEnd(begin)
        IN IF begin > Len(lines) THEN {}
           ELSE {<<begin, end>>}
                \cup (IF end > Len(lines) THEN {} ELSE found[end + 1])
  IN found[1]

Blanked(i) == \E c \in MultiLineComments : c[2] <= Len(lines) /\ i \in c[1]..c[2]

-----------------------------------------------------------------------------
(* CleansedLines                                                           *)

Quotes == {"quote", "raw(", ")raw"}
IsCppString(toks) ==
  LET quoted == {i \in 2..(Len(toks) - 1) :
                   toks[i - 1] = "tick" /\ toks[i] = "quote" /\ toks[i + 1] = "tick"}
  IN (HowMany(toks, Quotes) - Cardinality(quoted)) % 2 = 1

From(toks, i) == SubSeq(toks, i, Len(toks))
LastAt(toks, t) ==
  LET at == {i \in DOMAIN toks : toks[i] = t}
  IN IF at = {} THEN 0 ELSE CHOOSE i \in at : \A j \in at : j <= i
FirstAt(toks, t) ==
  LET at == {i \in DOMAIN toks : toks[i] = t}
  IN IF at = {} THEN 0 ELSE CHOOSE i \in at : \A j \in at : i <= j

\* One line: the last raw string on it is taken first, and where it does not
\* end there the line is left at that.
CutRaw(s) ==
  LET at == LastAt(s.line, "raw(")
      tail == From(s.line, at + 1)
      end == FirstAt(tail, ")raw")
      head == Append(SubSeq(s.line, 1, at - 1), "lit")
  IN IF s.inside \/ at = 0 THEN s
     ELSE IF end = 0 THEN [inside |-> TRUE, line |-> head]
     ELSE [inside |-> FALSE, line |-> head \o From(tail, end + 1)]
LeaveRaw(inside, toks) ==
  LET end == FirstAt(toks, ")raw")
  IN CASE ~inside -> [inside |-> FALSE, line |-> toks]
       [] inside /\ end = 0 -> [inside |-> TRUE, line |-> <<"lit">>]
       [] inside /\ end # 0 ->
            [inside |-> FALSE, line |-> <<"lit">> \o From(toks, end + 1)]
\* A line is gone through as often as it has tokens, which is enough.
CleanseRawStrings(ls) ==
  FoldLeft(LAMBDA acc, toks :
             LET s == FoldLeft(LAMBDA x, t : CutRaw(x),
                               LeaveRaw(acc.inside, toks), toks)
             IN [inside |-> s.inside, out |-> Append(acc.out, s.line)],
           [inside |-> FALSE, out |-> <<>>], ls).out

\* (mutant) An escaped quote ends a string.
CollapseEscaped(toks) ==
  LET Sort(t) == CASE t = "tick" -> "tick"
                   [] t \in Quotes \cup {"escaped"} -> "quote" [] OTHER -> "none"
      s == FoldLeft(LAMBDA acc, t :
             CASE acc.in = "none" /\ Sort(t) = "none" -> [acc EXCEPT !.out = Append(@, t)]
               [] acc.in = "none" /\ Sort(t) # "none" ->
                    [acc EXCEPT !.in = Sort(t), !.held = <<t>>]
               [] acc.in # "none" /\ Sort(t) = acc.in ->
                    [acc EXCEPT !.in = "none", !.out = Append(@, "lit")]
               [] OTHER -> [acc EXCEPT !.held = Append(@, t)],
             [in |-> "none", out |-> <<>>, held |-> <<>>], toks)
  IN IF s.in = "none" THEN s.out ELSE s.out \o s.held

\* From a quote to the next of its kind is a literal; from one without such a
\* mate on, the line is left alone.
CollapseStrings(toks) ==
  LET Sort(t) == CASE t = "tick" -> "tick" [] t \in Quotes -> "quote" [] OTHER -> "none"
      s == FoldLeft(LAMBDA acc, t :
             CASE acc.in = "none" /\ Sort(t) = "none" -> [acc EXCEPT !.out = Append(@, t)]
               [] acc.in = "none" /\ Sort(t) # "none" ->
                    [acc EXCEPT !.in = Sort(t), !.held = <<t>>]
               [] acc.in # "none" /\ Sort(t) = acc.in ->
                    [acc EXCEPT !.in = "none", !.out = Append(@, "lit")]
               [] OTHER -> [acc EXCEPT !.held = Append(@, t)],
             [in |-> "none", out |-> <<>>, held |-> <<>>],
             SelectSeq(toks, LAMBDA t : t # "escaped"))
  IN IF s.in = "none" THEN s.out ELSE s.out \o s.held

\* The first // counts, if it is in no string; then /*...*/ goes.
CleanseComments(toks) ==
  LET at == FirstAt(toks, "//")
      left == IF at # 0 /\ ~IsCppString(SubSeq(toks, 1, at - 1))
              THEN SubSeq(toks, 1, at - 1) ELSE toks
      s == FoldLeft(LAMBDA acc, t :
             CASE ~acc.in /\ t = "/*" -> [acc EXCEPT !.in = TRUE, !.held = <<t>>]
               [] ~acc.in /\ t # "/*" -> [acc EXCEPT !.out = Append(@, t)]
               [] acc.in /\ t = "*/" -> [acc EXCEPT !.in = FALSE]
               [] acc.in /\ t # "*/" -> [acc EXCEPT !.held = Append(@, t)],
             [in |-> FALSE, out |-> <<>>, held |-> <<>>], left)
  IN IF s.in THEN s.out \o s.held ELSE s.out

\* CheckForMultilineCommentsAndStrings.
MultilineErrors(toks) ==
  {e \in {"complex comment", "multi-line string"} :
     CASE e = "complex comment" -> HowMany(toks, {"/*"}) > HowMany(toks, {"*/"})
       [] e = "multi-line string" -> HowMany(toks, Quotes) % 2 = 1}

-----------------------------------------------------------------------------
(* The other end of a bracket                                              *)

Mate == [x \in {"(", "{"} |-> IF x = "(" THEN ")" ELSE "}"]
WithoutTop(stack, t) ==
  LET keep == {i \in DOMAIN stack : stack[i] # t}
  IN SubSeq(stack, 1, IF keep = {} THEN 0 ELSE CHOOSE i \in keep : \A j \in keep : j <= i)
IsTop(stack, t) == stack # <<>> /\ Last(stack) = t

\* A scan: the stack, and whether it is over and where (0: in vain).
Push(s, t) == [s EXCEPT !.stack = Append(@, t)]
Pop(s, at) ==
  [s EXCEPT !.stack = Front(@), !.over = Len(s.stack) = 1,
            !.at = IF Len(s.stack) = 1 THEN at ELSE @]
GiveUp(s) == [s EXCEPT !.over = TRUE]
\* A bracket or a semicolon shows that what is pending was an operator.
Shed(s, t) == [s EXCEPT !.stack = WithoutTop(@, t),
                        !.over = WithoutTop(s.stack, t) = <<>>]

ForwardStep(s, line, n, i) ==
  LET t == line[i]
      named == i > 1 /\ line[i - 1] = "operator"
      left == Shed(s, "<")
  IN CASE s.over -> s
       [] ~s.over /\ t \in {"(", "{"} -> Push(s, t)
       [] ~s.over /\ t = "<" -> IF named THEN s ELSE Push(s, "<")
       [] ~s.over /\ t \in {")", "}"} ->
            IF left.over THEN left
            ELSE IF Mate[Last(left.stack)] = t THEN Pop(left, <<n, i>>)
            ELSE GiveUp(left)
       [] ~s.over /\ t = ">" -> IF IsTop(s.stack, "<") THEN Pop(s, <<n, i>>) ELSE s
       [] ~s.over /\ t = ";" -> left
       [] OTHER -> s

\* (mutant) What is pending stays at an opening bracket.
BackwardStepKeeping(s, line, n, i) ==
  LET t == line[i]
      named == i > 1 /\ line[i - 1] = "operator"
  IN CASE s.over -> s
       [] ~s.over /\ t \in {")", "}"} -> Push(s, t)
       [] ~s.over /\ t = ">" -> IF named THEN s ELSE Push(s, ">")
       [] ~s.over /\ t = "<" -> IF IsTop(s.stack, ">") THEN Pop(s, <<n, i>>) ELSE s
       [] ~s.over /\ t \in {"(", "{"} ->
            IF Last(s.stack) = Mate[t] THEN Pop(s, <<n, i>>) ELSE GiveUp(s)
       [] ~s.over /\ t = ";" -> Shed(s, ">")
       [] OTHER -> s

BackwardStep(s, line, n, i) ==
  LET t == line[i]
      named == i > 1 /\ line[i - 1] = "operator"
      left == Shed(s, ">")
  IN CASE s.over -> s
       [] ~s.over /\ t \in {")", "}"} -> Push(s, t)
       [] ~s.over /\ t = ">" -> IF named THEN s ELSE Push(s, ">")
       [] ~s.over /\ t = "<" -> IF IsTop(s.stack, ">") THEN Pop(s, <<n, i>>) ELSE s
       [] ~s.over /\ t \in {"(", "{"} ->
            IF left.over THEN left
            ELSE IF Last(left.stack) = Mate[t] THEN Pop(left, <<n, i>>)
            ELSE GiveUp(left)
       [] ~s.over /\ t = ";" -> left
       [] OTHER -> s

NoScan == [stack |-> <<>>, over |-> FALSE, at |-> <<0, 0>>]
\* The places of the text from one on, in the order they are read.
PlacesFrom(text, p) ==
  FlattenSeq([n \in DOMAIN text |->
    LET first == IF n = p[1] THEN p[2] ELSE IF n < p[1] THEN Len(text[n]) + 1 ELSE 1
    IN [k \in 1..(Len(text[n]) - first + 1) |-> <<n, first + k - 1>>]])
PlacesBefore(text, p) ==
  Reverse(FlattenSeq([n \in DOMAIN text |->
    [k \in 1..(IF n = p[1] THEN p[2] ELSE IF n > p[1] THEN 0 ELSE Len(text[n]))
       |-> <<n, k>>]]))

CloseExpression(text, p) ==
  FoldLeft(LAMBDA s, q : ForwardStep(s, text[q[1]], q[1], q[2]),
           NoScan, PlacesFrom(text, p)).at
ReverseCloseExpression(text, p) ==
  FoldLeft(LAMBDA s, q : BackwardStep(s, text[q[1]], q[1], q[2]),
           NoScan, PlacesBefore(text, p)).at

-----------------------------------------------------------------------------
(* The environment                                                         *)

\* The mode after a token.  "blocks" is a comment begun on an earlier line,
\* "tail" what is behind it: code that goes with the comment, so none is written.
Turn(m, t) ==
  CASE m = "code" /\ t = "quote" -> "string"
    [] m = "code" /\ t = "tick" -> "char"
    [] m = "code" /\ t = "//" -> "line"
    [] m = "code" /\ t = "/*" -> "block"
    [] m = "code" /\ t = "raw(" -> "raw"
    [] m = "string" /\ t = "quote" -> "code"
    [] m = "char" -> "end of char"
    [] m = "end of char" -> "code"
    [] m = "block" /\ t = "*/" -> "code"
    [] m = "blocks" /\ t = "*/" -> "tail"
    [] m = "raw" /\ t = ")raw" -> "code"
    [] OTHER -> m
EndsLiteral(m, t) == m \in {"string", "end of char", "raw"} /\ Turn(m, t) = "code"
Allowed(m, t) ==
  CASE m = "code" -> t \notin {"*/", ")raw", "escaped"}
    [] m = "string" -> t \notin {"raw(", ")raw"}
    [] m = "char" -> t \in {"word", "quote"}
    [] m = "end of char" -> t = "tick"
    [] m = "line" -> t \notin {")raw", "escaped"}
    [] m \in {"block", "blocks"} -> t \notin {")raw", "escaped"}
    [] m = "raw" -> t # "escaped"
    [] m = "tail" -> FALSE

\* Brackets are balanced; < and > are operators where the innermost bracket is
\* no template's.
Innermost == IF open = <<>> THEN "none" ELSE Last(open).token
AfterOperator == Last(lines) # <<>> /\ Last(Last(lines)) = "operator"
Balanced(t) ==
  /\ t = ")" => Innermost = "("
  /\ t = "}" => Innermost = "{"
  /\ t = ";" => Innermost # "<"
  /\ t \in {"{", "<<"} => Innermost # "<"
  /\ AfterOperator => t \in {"<", ">"}

\* What cpplint misreads without a word is not written: the mark of a raw string
\* in another literal or a comment, a quote in a comment, a comment's mark at
\* the beginning of a raw string's line, an operator's name in a template's list.
Misread(t) ==
  \/ t = "raw(" /\ mode # "code"
  \/ t \in {"quote", "tick"} /\ mode \in {"block", "blocks"}
  \/ t = "/*" /\ mode = "raw" /\ Last(lines) = <<>>
  \/ t = "operator" /\ Innermost = "<"

Here == <<Len(code), Len(Last(code)) + 1>>
Size == Len(FlattenSeq(lines))
Write(t, template) ==
  /\ pc = "write" /\ Size < kind.size
  /\ Allowed(mode, t) /\ ~Misread(t)
  /\ mode = "code" => Balanced(t)
  /\ lines' = AppendLast(lines, t)
  /\ mode' = Turn(mode, t)
  /\ code' = CASE EndsLiteral(mode, t) -> AppendLast(code, "lit")
               [] mode = "code" /\ Turn(mode, t) = "code" -> AppendLast(code, t)
               [] OTHER -> code
  /\ IF mode # "code" \/ AfterOperator
     THEN ~template /\ UNCHANGED <<open, pairs>>
     ELSE CASE t \in {"(", "{"} \/ (t = "<" /\ template) ->
                 /\ template => t = "<"
                 /\ open' = Append(open, [token |-> t, at |-> Here])
                 /\ UNCHANGED pairs
            [] t \in {")", "}"} \/ (t = ">" /\ Innermost = "<") ->
                 /\ ~template
                 /\ open' = Front(open)
                 /\ pairs' = pairs \cup {<<Last(open).at, Here>>}
            [] OTHER -> /\ ~template /\ (t = "<" => Innermost # "<")
                        /\ UNCHANGED <<open, pairs>>
  /\ UNCHANGED <<kind, pc, elided, flagged>>

\* The next line; a string goes on behind a backslash, a raw string leaves an
\* empty literal on each of its lines.  (Of two raw strings on a line cpplint
\* loses the first if the second goes on.)
Break ==
  /\ pc = "write" /\ Len(lines) < kind.lines /\ Last(lines) # <<>>
  /\ mode = "raw" => HowMany(Last(lines), {"raw("}) < 2
  /\ mode \notin {"char", "end of char"}
  /\ ~AfterOperator
  /\ lines' = Append(lines, <<>>)
  /\ code' = Append(IF mode = "raw" THEN AppendLast(code, "lit") ELSE code, <<>>)
  /\ mode' = CASE mode \in {"line", "tail"} -> "code"
                 [] mode = "block" -> "blocks"
                 [] OTHER -> mode
  /\ UNCHANGED <<kind, pc, elided, flagged, open, pairs>>

-----------------------------------------------------------------------------
(* ProcessFileData                                                         *)

\* (mutant) The lines of a comment are taken out, not blanked.
RemoveMultiLineCommentsWhole ==
  FlattenSeq([i \in DOMAIN lines |-> IF Blanked(i) THEN <<>> ELSE <<lines[i]>>])

RemoveMultiLineComments ==
  [i \in DOMAIN lines |-> IF Blanked(i) THEN <<"/*", "*/">> ELSE lines[i]]

CleansedLines(ls) ==
  LET without == CleanseRawStrings(ls)
  IN [i \in DOMAIN ls |-> CleanseComments(CollapseStrings(without[i]))]

ProcessFileData ==
  /\ pc = "write" /\ mode \in {"code", "tail", "line"}
  /\ lines' = RemoveMultiLineComments
  /\ elided' = CleansedLines(RemoveMultiLineComments)
  /\ flagged' =
       (IF \E c \in MultiLineComments : c[2] > Len(lines)
        THEN {"no end of comment"} ELSE {})
       \cup UNION {MultilineErrors(toks) : toks \in ToSet(elided')}
  /\ pc' = "end"
  /\ UNCHANGED <<kind, mode, code, open, pairs>>

Next ==
  \/ \E t \in kind.tokens, template \in BOOLEAN : Write(t, template)
  \/ Break \/ ProcessFileData

Spec == Init /\ [][Next]_vars

-----------------------------------------------------------------------------
(* Properties                                                              *)

\* Every variable keeps its type; all texts have one entry for each line
\* ("all these members are ... of the same length", cpplint.py:1298).
TypeOK ==
  /\ pc \in {"write", "end"}
  /\ Len(code) = Len(lines)
  /\ pc = "end" => Len(elided) = Len(lines)

\* What is left of a text is its code, line by line, or there is a complaint
\* about a comment or a string: strings that hold comment marks, comments that
\* hold quotes, raw strings and comments of several lines, in whatever order
\* (RemoveMultiLineComments, CleansedLines).
ElidedIsCode ==
  pc = "end" /\ flagged = {} => elided = code

\* From either end of a pair of brackets the other is found, on the same line or
\* on another, whatever < and > stand between as operators ("almost the
\* reverse", cpplint.py:1510), except where a template's list names an operator.
PairsMatch ==
  pc = "end" /\ elided = code =>
    \A p \in pairs : /\ CloseExpression(elided, p[1]) = p[2]
                     /\ ReverseCloseExpression(elided, p[2]) = p[1]

=============================================================================
