------------------------------ MODULE LintFile ------------------------------
(***************************************************************************)
(* One file under cpplint: ProcessLine takes its lines one by one, through *)
(* the nesting of blocks, the includes and the function lengths.  The file *)
(* is written while it is read: an environment of well-formed C++ adds one *)
(* chunk of lines after the other (a head that takes several lines is one  *)
(* chunk), and keeps in its own terms what is open: the variable `truth`.  *)
(***************************************************************************)
EXTENDS LintNesting, LintIncludes

CONSTANTS Kinds,        \* a function from names to kinds of files: a record of
                        \* the chunks and indentations to write it with, what
                        \* is known of the file, and three bounds: on its #ifs
                        \* and #includes, on the branches of an #if, and on
                        \* the open scopes
          MaxIfs, MaxBody,  \* bounds on every file
          Trigger       \* _NORMAL_TRIGGER * 2^verbose

VARIABLES
  kind,                          \* which of them, chosen once
  pc, ahead, line,               \* the lines to come, the last one
  nesting, includes, function,   \* the three states
  flagged,                       \* complaints about the last line
  truth                          \* what the environment knows

reader == <<pc, ahead, line, nesting, includes, function, flagged>>
vars == <<kind, reader, truth>>

Kind == Kinds[kind]
file == Kind.file

\* The environment: the scopes that are open where the conditions up to the
\* first #else hold, the same for the open #ifs, what was included so far,
\* and whether the #include at hand stands right under another.
NoTruth == [scopes |-> <<>>, ifs |-> <<>>, skewed |-> FALSE, body |-> 0,
            path |-> <<>>, count |-> 0, past |-> <<>>, segment |-> <<>>,
            used |-> {}, expect |-> {}, afterInclude |-> FALSE]
Blank == [toks |-> <<>>, pp |-> "", indent |-> 0, inc |-> NoHeader, uses |-> {}]

Init ==
  /\ kind \in DOMAIN Kinds
  /\ pc = "write" /\ ahead = <<>> /\ line = Blank
  /\ nesting = NoNesting /\ includes = NoIncludes /\ function = NoFunction
  /\ flagged = {} /\ truth = NoTruth

-----------------------------------------------------------------------------
(* The environment                                                         *)

Scope == IF truth.scopes = <<>> THEN "global" ELSE Top(truth.scopes).kind
Own == Top(truth.scopes)
Opens(k, indent) ==
  IF k \in {"class", "struct"}
  THEN [kind |-> "class", indent |-> indent,
        access |-> IF k = "struct" THEN "public" ELSE "private"]
  ELSE [kind |-> k, indent |-> 0, access |-> "none"]

\* What there is to complain of in the chunk's last line, in the scopes as
\* they are.
ExpectedOf(c, indent) ==
  {f \in {"closing brace", "label indent", "not private", "namespace indent"} :
     CASE f = "closing brace" ->
            c.close = 1 /\ Scope = "class" /\ indent # Own.indent
       [] f = "label indent" ->
            c.label # "" /\ Scope = "class" /\ indent # Own.indent + 1
       [] f = "not private" ->
            c.lines[1].toks = <<"DISALLOW", "(", ")", ";">>
              /\ Scope = "class" /\ Own.access # "private"
       [] f = "namespace indent" ->
            /\ indent > 0 /\ Scope = "namespace" /\ Len(c.lines) = 1
            /\ c.open \cap {"class", "struct", "namespace"} # {}
                 \/ c.lines[1].toks = <<"class", ";">>}

Shift(c, indent) == [i \in DOMAIN c.lines |->
                       [c.lines[i] EXCEPT !.indent = indent]]
InFunction(scopes) == \E i \in DOMAIN scopes : scopes[i].kind = "function"

\* The style the length check relies on: what is not indented in a function is
\* its end, and a function is not indented.
Styled(c, indent) ==
  /\ c.open = {"function"} => indent = 0
  /\ c.open = {"block"} => indent > 0
  /\ InFunction(truth.scopes) => (indent = 0) = (c.close = 1 /\ Scope = "function")
  /\ Scope \in {"block", "lambda"} => indent > 0

ScopesAfter(c, indent) ==
  IF c.label # "" /\ Scope = "class"
  THEN SetTop(truth.scopes, [Own EXCEPT !.access = AccessOf(c.label)])
  ELSE (IF c.close = 1 THEN Front(truth.scopes) ELSE truth.scopes)
       \o [i \in 1..Cardinality(c.open) |->
             Opens(CHOOSE k \in c.open : TRUE, indent)]

\* A brace at the margin that ends no function: the length of the function
\* before it may be reported once more.
MarginBrace(c, indent) ==
  c.close = 1 /\ indent = 0 /\ Scope \in {"namespace", "extern"}

WriteChunk(c, indent) ==
  /\ pc = "write" /\ c.pp = "" /\ c.inc = NoHeader
  /\ Scope \in c.within
  /\ Len(ScopesAfter(c, indent)) <= Kind.depth
  /\ Styled(c, indent)
  /\ truth.body + c.count <= MaxBody
  /\ truth' = [truth EXCEPT
       !.scopes = ScopesAfter(c, indent),
       !.body = CASE c.open = {"function"} -> c.count
                  [] c.open # {"function"}
                       /\ InFunction(ScopesAfter(c, indent)) -> @ + c.count
                  [] OTHER -> 0,
       !.skewed = @ \/ c.skews,
       !.used = @ \cup UNION {c.lines[i].uses : i \in DOMAIN c.lines},
       !.afterInclude = FALSE,
       !.expect = ExpectedOf(c, indent)
         \cup {f \in {"function size", "margin"} :
                 CASE f = "function size" ->
                        c.close = 1 /\ Scope = "function" /\ truth.body > Trigger
                   [] f = "margin" -> MarginBrace(c, indent)}]
  /\ ahead' = Shift(c, indent)
  /\ pc' = "lines"
  /\ UNCHANGED <<kind, line, nesting, includes, function, flagged>>

\* #if, #else (or #elif) and #endif.
WriteDirective(c) ==
  /\ pc = "write" /\ c.pp # ""
  /\ CASE c.pp = "if" -> Len(truth.ifs) < MaxIfs /\ truth.count < Kind.most
       [] c.pp = "else" -> truth.ifs # <<>> /\ Top(truth.path).branch < Kind.branches
       [] OTHER -> truth.ifs # <<>>
  /\ truth' = [truth EXCEPT
       !.segment = <<>>, !.expect = {}, !.afterInclude = FALSE,
       !.body = IF @ = 0 THEN 0 ELSE @ + 1,
       !.count = IF c.pp = "if" THEN @ + 1 ELSE @,
       !.ifs = CASE c.pp = "if" ->
                      Append(@, [before |-> truth.scopes, kept |-> <<>>,
                                 first |-> TRUE])
                 [] c.pp = "else" ->
                      SetTop(@, [Top(@) EXCEPT !.first = FALSE,
                        !.kept = IF Top(truth.ifs).first THEN truth.scopes ELSE @])
                 [] OTHER -> Front(@),
       !.scopes = CASE c.pp = "if" -> @
                    [] c.pp = "else" -> Top(truth.ifs).before
                    [] OTHER -> IF Top(truth.ifs).first THEN @
                                ELSE Top(truth.ifs).kept,
       !.path = CASE c.pp = "if" ->
                       Append([i \in DOMAIN @ |-> [@[i] EXCEPT !.nested = TRUE]],
                              [id |-> truth.count, branch |-> 1,
                               nested |-> FALSE])
                  [] c.pp = "else" ->
                       SetTop(@, [Top(@) EXCEPT !.branch = @ + 1])
                  [] OTHER -> Front(@)]
  /\ truth.body < MaxBody
  /\ ahead' = c.lines
  /\ pc' = "lines"
  /\ UNCHANGED <<kind, line, nesting, includes, function, flagged>>

WriteInclude(c) ==
  /\ pc = "write" /\ c.inc # NoHeader /\ truth.count < Kind.most
  /\ truth' = [truth EXCEPT !.count = @ + 1, !.expect = {},
       !.past = Append(@, [h |-> c.inc, path |-> truth.path]),
       !.segment = IF Recorded(file, includes, c.inc) THEN Append(@, c.inc) ELSE @,
       !.afterInclude = line.inc # NoHeader]
  /\ ahead' = c.lines
  /\ pc' = "lines"
  /\ UNCHANGED <<kind, line, nesting, includes, function, flagged>>

-----------------------------------------------------------------------------
(* ProcessLine                                                             *)

ThisLine == Head(ahead)
Later == Tail(ahead)
NestingErrors(parsed) ==
  parsed.says \cup (IF CheckForNamespaceIndentation(parsed.nesting, ThisLine)
                    THEN {"namespace indent"} ELSE {})

\* What every line goes through; parsed is what Update() makes of it.
TakeLine(parsed) ==
  /\ line' = ThisLine /\ ahead' = Later
  /\ nesting' = parsed.nesting
  /\ pc' = IF Later = <<>> THEN "write" ELSE "lines"
  /\ UNCHANGED <<kind, truth>>

\* Inside inline assembly nothing else is looked at.
ProcessAsmLine(parsed) ==
  /\ InAsmBlock(parsed.nesting.stack)
  /\ TakeLine(parsed)
  /\ flagged' = NestingErrors(parsed)
  /\ UNCHANGED <<includes, function>>

FunctionErrors ==
  {f \in {"function size", "no body"} :
     CASE f = "function size" ->
            EndsFunction(ThisLine) /\ function.lines_in_function > Trigger
       [] f = "no body" ->
            StartsFunction(ThisLine) /\ BodyFound(ThisLine, Later) = "none"}
AccessErrors(parsed) ==
  IF CheckAccess(parsed.nesting, ThisLine) THEN {"not private"} ELSE {}

ProcessLine(parsed) ==
  /\ ~InAsmBlock(parsed.nesting.stack)
  /\ ThisLine.inc = NoHeader
  /\ TakeLine(parsed)
  /\ function' = FunctionAfter(function, ThisLine, Later)
  /\ includes' = IF ThisLine.pp = "" THEN includes
                 ELSE ResetSection(includes, ThisLine.pp)
  /\ flagged' = NestingErrors(parsed) \cup FunctionErrors \cup AccessErrors(parsed)

ProcessInclude(parsed) ==
  /\ ~InAsmBlock(parsed.nesting.stack)
  /\ ThisLine.inc # NoHeader
  /\ TakeLine(parsed)
  /\ function' = FunctionAfter(function, ThisLine, Later)
  /\ includes' = IncludeAfter(file, includes, ThisLine.inc)
  /\ flagged' = NestingErrors(parsed) \cup FunctionErrors
                \cup IncludeErrors(file, includes, ThisLine.inc,
                                   line.inc # NoHeader)

\* CheckCompletedBlocks, CheckForIncludeWhatYouUse, CheckHeaderFileIncluded.
EndFile ==
  /\ pc = "write"
  /\ flagged' =
       {<<i, nesting.stack[i].kind>> :
          i \in {j \in DOMAIN nesting.stack :
                   nesting.stack[j].kind \in {"class", "namespace"}}}
       \cup {<<0, name>> : name \in Missing(file, includes, truth.used)}
       \cup (IF OwnHeaderMissing(file, includes) THEN {<<0, "own header">>}
             ELSE {})
  /\ pc' = "end"
  /\ UNCHANGED <<kind, ahead, line, nesting, includes, function,
                 truth>>

Next ==
  \/ \E c \in Kind.chunks : (\E indent \in Kind.indents : WriteChunk(c, indent))
                        \/ WriteDirective(c) \/ WriteInclude(c)
  \/ /\ pc = "lines"
     /\ \E parsed \in {Update(nesting, ThisLine, Later)} :
          ProcessAsmLine(parsed) \/ ProcessLine(parsed) \/ ProcessInclude(parsed)
  \/ EndFile

Spec == Init /\ [][Next]_vars

-----------------------------------------------------------------------------
(* Properties                                                              *)

AsParsed(s) ==
  Info(IF s.kind \in {"class", "namespace", "extern"} THEN s.kind ELSE "block",
       TRUE, s.indent, s.access)

\* Every variable keeps its type; a saved stack is a stack.
TypeOK ==
  /\ pc \in {"write", "lines", "end"}
  /\ \A s \in {nesting.stack} \cup {p.stack_before_if : p \in ToSet(nesting.pp_stack)}
              \cup {p.stack_before_else : p \in ToSet(nesting.pp_stack)} :
       \A i \in DOMAIN s :
         /\ s[i].kind \in {"namespace", "class", "block", "extern"}
         /\ s[i].inline_asm \in {NO_ASM, INSIDE_ASM, END_ASM, BLOCK_ASM}
         /\ s[i].open_parentheses \in 0..1 \/ truth.skewed
  /\ includes.section \in INITIAL_SECTION..OTHER_H_SECTION
  /\ Len(includes.include_list) >= 1
  /\ function.lines_in_function \in 0..MaxBody

\* NestingState.Update knows what is open: after every chunk the stack is the
\* scopes of the text up to the first #else of each open #if, whatever was in
\* the other branches; forward declarations, parameters and variables with
\* `struct`, inline assembly and heads of several lines included.  Where the
\* parentheses of a line are closed on the line of an inner block (a lambda)
\* it may not.
ScopesKnown ==
  pc = "write" /\ ~truth.skewed =>
    [i \in DOMAIN nesting.stack |->
       [nesting.stack[i] EXCEPT !.inline_asm = NO_ASM]]
    = [i \in DOMAIN truth.scopes |-> AsParsed(truth.scopes[i])]

\* The checks that read the nesting complain of a line exactly when its place
\* in the scopes says so: the brace of a class not under its head, a label not
\* one in, DISALLOW_ outside private:, indentation in a namespace, a function
\* too long (Update, _ClassInfo.CheckEnd, CheckAccess,
\* CheckForNamespaceIndentation, CheckForFunctionLengths).
NestingChecks == {"closing brace", "label indent", "not private",
                  "namespace indent", "function size", "no body"}
FlagsKnown ==
  pc = "write" /\ ~truth.skewed =>
    LET free == IF "margin" \in truth.expect
                THEN {"function size"} ELSE {}
    IN (flagged \cap NestingChecks) \ free = truth.expect \ (free \cup {"margin"})

\* The includes of the text so far, the one at hand left out.
Past == Front(truth.past)
Same(p, q) == p.id = q.id /\ p.branch = q.branch
Definite(path) == /\ Len(path) <= Len(truth.path)
                  /\ \A i \in DOMAIN path : Same(path[i], truth.path[i])
\* Branches of one #if, where no #if was nested since.
Alternative(path) ==
  \E i \in DOMAIN path \cap DOMAIN truth.path :
    /\ path[i].id = truth.path[i].id /\ path[i].branch # truth.path[i].branch
    /\ ~truth.path[i].nested
IsMine(h) == ClassifyInclude(file, h) \in {"likely mine", "possibly mine"}
\* The types of cpplint.py:4653-4658; the own header is in its deprecated
\* location if anything but an own header stands before it.
Level(h, before) ==
  LET class == ClassifyInclude(file, h)
  IN CASE class = "c system" -> 2
       [] class = "cpp system" -> 3
       [] class = "other" -> 5
       [] OTHER -> IF \A i \in DOMAIN before : IsMine(before[i]) THEN 1 ELSE 4
LevelAt(seq, i) == Level(seq[i], SubSeq(seq, 1, i - 1))

\* "Already included" is said of a header that was included before on every way
\* the conditions can go, never of one that was only in another branch of the
\* same #if (no #if nested there).
RepeatsKnown(h) ==
  LET like == {i \in DOMAIN Past : Past[i].h.name = h.name}
  IN /\ (\E i \in like : Definite(Past[i].path)) => "included twice" \in flagged
     /\ "included twice" \in flagged =>
          \E i \in like : ~Alternative(Past[i].path)

\* The order is wrong where a header of a higher type stands before the header
\* since the last directive ("keeps track of the highest type seen, and
\* complains if we see a lower type after that", cpplint.py:4661-4663), with
\* one exception: of the file's own header below an "other" one, type 4 after
\* type 5, CheckNextIncludeOrder (727-738) never complains.  Of two headers one
\* right under the other the order of the alphabet is asked for if they are
\* of one type, and only if the header is not out of order already.
OrderKnown(h) ==
  LET seg == truth.segment
      n == Len(seg)
      outOfAlphabet == truth.afterInclude /\ n > 1 /\ seg[n - 1].rank > h.rank
  IN "included twice" \notin flagged =>
       /\ "include order" \in flagged <=>
            /\ \E i \in 1..n - 1 : LevelAt(seg, i) > LevelAt(seg, n)
            /\ ~IsMine(h)
       /\ "include alpha" \in flagged =>
            outOfAlphabet /\ "include order" \notin flagged
       /\ /\ outOfAlphabet /\ LevelAt(seg, n - 1) = LevelAt(seg, n)
          /\ "include order" \notin flagged
          => "include alpha" \in flagged

RepeatsAndOrderKnown ==
  pc = "write" /\ line.inc # NoHeader =>
    LET h == line.inc
    IN ~h.third /\ ~Foreign(file, h) => RepeatsKnown(h) /\ OrderKnown(h)

\* Nothing is asked for that the file includes where it is used, or that its own
\* header includes (CheckForIncludeWhatYouUse).
AskedOnlyIfMissing ==
  pc = "end" => \A name \in truth.used :
    <<0, name>> \in flagged =>
      /\ \A i \in DOMAIN truth.past :
           truth.past[i].h.name = name => ~Definite(truth.past[i].path)
      /\ file.ext = "cc" => name \notin file.ownIncludes

\* The includes of a file are known for what they are: repeated, in the wrong
\* order, or missing.
IncludesKnown == RepeatsAndOrderKnown /\ AskedOnlyIfMissing
=============================================================================
