---------------------------- MODULE LintNesting ----------------------------
(***************************************************************************)
(* NestingState of cpplint: which blocks are open at a line.  A line is    *)
(* what is left of it after cleansing, as a sequence of tokens:            *)
(*   "namespace", "class", "struct"  such a head with its name and, before *)
(*                    "class", a closed template<...>;                     *)
(*   "public:", "private:"  an access label;  "extern", "asm"  as written; *)
(*   "{", "}", "(", ")", ";", ":", "=", ">"  themselves;                   *)
(*   "word"           anything else.                                       *)
(* The state is a record: stack, pp_stack, and what Update() remembers of  *)
(* the top of the stack before the line.                                   *)
(***************************************************************************)
EXTENDS Integers, Sequences, FiniteSets, SequencesExt

NO_ASM == "no asm"
INSIDE_ASM == "inside"
END_ASM == "end"
BLOCK_ASM == "block"

\* _BlockInfo and the classes derived from it.
Info(kind, open, indent, access) ==
  [kind |-> kind, seen_open_brace |-> open, open_parentheses |-> 0,
   inline_asm |-> NO_ASM, indent |-> indent, access |-> access]
BlockInfo == Info("block", TRUE, 0, "none")
ExternCInfo == Info("extern", TRUE, 0, "none")
NamespaceInfo == Info("namespace", FALSE, 0, "none")
ClassInfo(word, indent) ==
  Info("class", FALSE, indent, IF word = "struct" THEN "public" ELSE "private")

NoNesting == [stack |-> <<>>, pp_stack |-> <<>>, before |-> 0, kept |-> 0]

Top(stack) == stack[Len(stack)]
SetTop(stack, block) == [stack EXCEPT ![Len(stack)] = block]
SeenOpenBrace(stack) == stack = <<>> \/ Top(stack).seen_open_brace
Within(stack, kind) == stack # <<>> /\ Top(stack).kind = kind
InAsmBlock(stack) == stack # <<>> /\ Top(stack).inline_asm # NO_ASM

-----------------------------------------------------------------------------
(* Conditional compilation                                                 *)

SavedBy(stack) ==
  [stack_before_if |-> stack, stack_before_else |-> <<>>, seen_else |-> FALSE]
InIf(n) == n.pp_stack # <<>>

\* (mutant) Every #elif and #else saves the stack, not only the first.
UpdatePreprocessorEveryElse(n, directive) ==
  CASE directive = "if" -> [n EXCEPT !.pp_stack = Append(@, SavedBy(n.stack))]
    [] directive = "else" /\ InIf(n) ->
         LET p == Top(n.pp_stack)
         IN [n EXCEPT !.stack = p.stack_before_if,
               !.pp_stack = SetTop(@, [p EXCEPT !.seen_else = TRUE,
                                         !.stack_before_else = n.stack])]
    [] directive = "endif" /\ InIf(n) ->
         [n EXCEPT !.stack = IF Top(n.pp_stack).seen_else
                             THEN Top(n.pp_stack).stack_before_else ELSE @,
                   !.pp_stack = Front(@)]
    [] OTHER -> n

\* The condition counts as true up to the first #else or #elif; what follows
\* is read from where the #if began and forgotten at the #endif.
UpdatePreprocessor(n, directive) ==
  CASE directive = "if" -> [n EXCEPT !.pp_stack = Append(@, SavedBy(n.stack))]
    [] directive = "else" /\ InIf(n) ->
         LET p == Top(n.pp_stack)
         IN [n EXCEPT !.stack = p.stack_before_if,
               !.pp_stack =
                 IF p.seen_else THEN @
                 ELSE SetTop(@, [p EXCEPT !.seen_else = TRUE,
                                   !.stack_before_else = n.stack])]
    [] directive = "endif" /\ InIf(n) ->
         [n EXCEPT !.stack = IF Top(n.pp_stack).seen_else
                             THEN Top(n.pp_stack).stack_before_else ELSE @,
                   !.pp_stack = Front(@)]
    [] OTHER -> n

-----------------------------------------------------------------------------
(* The parts of Update()                                                   *)

HowMany(toks, t) == Len(SelectSeq(toks, LAMBDA x : x = t))
MatchAsm(toks) == Len(toks) > 1 /\ toks[1] = "asm" /\ toks[2] \in {"(", "{"}

\* Parentheses are counted for the block that is innermost as the line begins;
\* they also say where asm(...) begins and ends.
CountParentheses(stack, toks) ==
  IF stack = <<>> THEN stack
  ELSE LET change == HowMany(toks, "(") - HowMany(toks, ")")
           open == Top(stack).open_parentheses + change
           was == Top(stack).inline_asm
           now == CASE was \in {NO_ASM, END_ASM} ->
                         IF change # 0 /\ open = 1 /\ MatchAsm(toks)
                         THEN INSIDE_ASM ELSE NO_ASM
                    [] was = INSIDE_ASM /\ open = 0 -> END_ASM
                    [] OTHER -> was
       IN SetTop(stack, [Top(stack) EXCEPT !.open_parentheses = open,
                                           !.inline_asm = now])

\* Where a token is first found, 0 where it is not.
Find(toks, set) ==
  LET at == {i \in DOMAIN toks : toks[i] \in set}
  IN IF at = {} THEN 0 ELSE CHOOSE i \in at : \A j \in at : i <= j
After(toks, i) == SubSeq(toks, i + 1, Len(toks))

\* Update() at work: the stack, how little of it was ever left, the rest of the
\* line, and what it complains of.
BeginLine(n, line) ==
  LET m == UpdatePreprocessor(n, line.pp)
  IN [stack |-> CountParentheses(m.stack, line.toks), kept |-> Len(m.stack),
      rest |-> line.toks, says |-> {}]
Leave(s, stack, rest) ==
  [s EXCEPT !.stack = stack, !.rest = rest,
            !.kept = IF Len(stack) < @ THEN Len(stack) ELSE @]

StartsNamespace(toks) == toks # <<>> /\ toks[1] = "namespace"
ConsumeNamespace(s) ==
  LET brace == Find(s.rest, {"{"})
      head == [NamespaceInfo EXCEPT !.seen_open_brace = brace # 0]
  IN IF ~StartsNamespace(s.rest) THEN s
     ELSE Leave(s, Append(s.stack, head),
                IF brace # 0 THEN After(s.rest, brace) ELSE Tail(s.rest))

\* A class head is not a template argument: the first token that decides, on
\* this line or a later one, is a brace or a semicolon.
InTemplateArgumentList(toks, later) ==
  LET text == toks \o FlattenSeq([i \in DOMAIN later |-> later[i].toks])
      at == Find(text, {"{", "}", ";", ">", "="})
  IN at # 0 /\ text[at] \in {">", "="}

\* The end of the head is a position in the rest of the line, and is taken for
\* one in the line itself (2462-2463): with namespaces before it the search
\* begins in the first of their heads.
StartsClass(s, line, later) ==
  /\ s.rest # <<>> /\ s.rest[1] \in {"class", "struct"}
  /\ s.stack # <<>> => Top(s.stack).open_parentheses = 0
  /\ ~InTemplateArgumentList(Tail(line.toks), later)

ConsumeClass(s, line, later) ==
  IF StartsClass(s, line, later)
  THEN Leave(s, Append(s.stack, ClassInfo(s.rest[1], line.indent)), Tail(s.rest))
  ELSE s

AccessLabels == {"public:", "private:"}
AccessOf(label) == IF label = "public:" THEN "public" ELSE "private"
UpdateAccess(s, line) ==
  LET at == Find(s.rest, AccessLabels)
      class == Top(s.stack)
  IN IF ~Within(s.stack, "class") \/ at = 0 THEN s
     ELSE [s EXCEPT
            !.stack = SetTop(@, [class EXCEPT !.access = AccessOf(s.rest[at])]),
            !.says = IF at = 1 /\ line.indent # class.indent + 1
                     THEN @ \cup {"label indent"} ELSE @]

Marks == {"{", ";", ")", "}"}
OpenBrace(stack, toks) ==
  IF ~SeenOpenBrace(stack)
  THEN SetTop(stack, [Top(stack) EXCEPT !.seen_open_brace = TRUE])
  ELSE Append(stack,
         CASE toks[1] = "extern" -> ExternCInfo
           [] MatchAsm(toks) -> [BlockInfo EXCEPT !.inline_asm = BLOCK_ASM]
           [] OTHER -> BlockInfo)
\* A semicolon or a parenthesis before the brace: it was a declaration.
GiveUpHead(stack) == IF SeenOpenBrace(stack) THEN stack ELSE Front(stack)
CloseBrace(stack) == IF stack = <<>> THEN stack ELSE Front(stack)

ConsumeMark(s, line) ==
  LET at == Find(s.rest, Marks)
      mark == s.rest[at]
      askew == /\ mark = "}" /\ Within(s.stack, "class")
               /\ line.toks[1] = "}" /\ line.indent # Top(s.stack).indent
  IN IF at = 0 THEN s
     ELSE [Leave(s, CASE mark = "{" -> OpenBrace(s.stack, s.rest)
                      [] mark \in {";", ")"} -> GiveUpHead(s.stack)
                      [] mark = "}" -> CloseBrace(s.stack),
                 After(s.rest, at))
             EXCEPT !.says = IF askew THEN @ \cup {"closing brace"} ELSE @]

\* Both loops of Update() go round at most once for each token.
Repeat(Op(_), s, toks) == FoldLeft(LAMBDA x, t : Op(x), s, toks)

Update(n, line, later) ==
  LET heads == Repeat(ConsumeNamespace, BeginLine(n, line), line.toks)
      marks == Repeat(LAMBDA s : ConsumeMark(s, line),
                      UpdateAccess(ConsumeClass(heads, line, later), line),
                      line.toks)
      m == UpdatePreprocessor(n, line.pp)
  IN [nesting |-> [m EXCEPT !.stack = marks.stack, !.kept = marks.kept,
                            !.before = Len(n.stack)],
      says |-> marks.says]

-----------------------------------------------------------------------------
(* The checks that read it                                                 *)

\* The line put a class or a namespace right on the namespace that was
\* innermost before it, or declares a class there.
IsNamespaceIndentItem(n) ==
  /\ Len(n.stack) = n.before + 1 /\ n.before > 0 /\ n.kept >= n.before
  /\ Top(n.stack).kind \in {"class", "namespace"}
  /\ n.stack[n.before].kind = "namespace"
IsForwardClassDeclaration(line) ==
  Len(line.toks) = 2 /\ line.toks[1] = "class" /\ line.toks[2] = ";"
CheckForNamespaceIndentation(n, line) ==
  /\ line.indent > 0 /\ line.pp = ""
  /\ IsNamespaceIndentItem(n) \/ /\ IsForwardClassDeclaration(line)
                                 /\ Within(n.stack, "namespace")

\* (mutant) Any class on the stack will do, not the innermost block only.
CheckAccessInside(n, line) ==
  /\ line.toks # <<>> /\ line.toks[1] = "DISALLOW"
  /\ \E i \in DOMAIN n.stack : n.stack[i].kind = "class" /\ n.stack[i].access # "private"

CheckAccess(n, line) ==
  /\ line.toks # <<>> /\ line.toks[1] = "DISALLOW"
  /\ Within(n.stack, "class") /\ Top(n.stack).access # "private"

\* _FunctionState.
NoFunction == [in_a_function |-> FALSE, lines_in_function |-> 0]
StartsFunction(line) ==
  /\ line.indent = 0 /\ Len(line.toks) > 1
  /\ line.toks[1] \in {"word", "struct"} /\ line.toks[2] = "("
\* Of the lines from the head on, the first with a semicolon or a closing brace
\* makes it a declaration, the first with an opening one a function.
BodyFound(line, later) ==
  LET lines == <<line>> \o later
      says == {i \in DOMAIN lines : Find(lines[i].toks, {";", "}", "{"}) # 0}
  IN IF says = {} THEN "none"
     ELSE LET i == CHOOSE j \in says : \A k \in says : j <= k
          IN IF Find(lines[i].toks, {";", "}"}) # 0 THEN "declaration" ELSE "body"
EndsFunction(line) == line.indent = 0 /\ line.toks = <<"}">>

\* (mutant) The end of a function does not end the counting.
FunctionAfterCounting(f, line, later) ==
  CASE StartsFunction(line) ->
         IF BodyFound(line, later) = "body"
         THEN [in_a_function |-> TRUE, lines_in_function |-> 0] ELSE f
    [] ~StartsFunction(line) /\ (line.toks # <<>> \/ line.pp # "")
         /\ f.in_a_function -> [f EXCEPT !.lines_in_function = @ + 1]
    [] OTHER -> f

FunctionAfter(f, line, later) ==
  CASE StartsFunction(line) ->
         IF BodyFound(line, later) = "body"
         THEN [in_a_function |-> TRUE, lines_in_function |-> 0] ELSE f
    [] EndsFunction(line) -> [f EXCEPT !.in_a_function = FALSE]
    [] ~StartsFunction(line) /\ ~EndsFunction(line)
         /\ (line.toks # <<>> \/ line.pp # "") /\ f.in_a_function ->
         [f EXCEPT !.lines_in_function = @ + 1]
    [] OTHER -> f

=============================================================================
