---------------------------- MODULE MCLintFile ----------------------------
(* Kinds of files: scopes of every kind, lambdas, scopes under #ifs, and   *)
(* includes under #ifs, in a source file with and without a header of its  *)
(* own, and in a header.                                                   *)
EXTENDS LintFile

T(toks) == [Blank EXCEPT !.toks = toks]
Chunk(lines, within, open, close, count) ==
  [lines |-> lines, within |-> within, open |-> open, close |-> close,
   count |-> count, label |-> "", skews |-> FALSE, pp |-> "", inc |-> NoHeader]
One(toks, within, open, close) == Chunk(<<T(toks)>>, within, open, close, 1)

Outer == {"global", "namespace", "extern"}
Bodies == {"function", "block", "lambda"}
Declares == Outer \cup {"class"}

OpenNamespace == One(<<"namespace", "{">>, Outer, {"namespace"}, 0)
OpenClass == One(<<"class", ":", "word", "{">>, Declares \cup Bodies, {"class"}, 0)
OpenStruct == One(<<"struct", "{">>, Declares, {"struct"}, 0)
Close == One(<<"}">>, {"namespace", "extern", "function", "block"}, {}, 1)
CloseClass == One(<<"}", ";">>, {"class", "init"}, {}, 1)
Forward == One(<<"class", ";">>, Declares, {}, 0)

Scopes ==
  {OpenNamespace, OpenClass, OpenStruct, Close, CloseClass, Forward,
   Chunk(<<T(<<"namespace">>), T(<<"{">>)>>, Outer, {"namespace"}, 0, 2),
   One(<<"namespace", "{", "namespace", "{", "class", ";", "}", "}">>, Outer, {}, 0),
   Chunk(<<T(<<"class">>), T(<<":", "word", "{">>)>>, Declares, {"class"}, 0, 2),
   Chunk(<<T(<<"class", "word">>), T(<<"class", ">", ";">>)>>, Declares, {}, 0, 2),
   One(<<"struct", "=", "{">>, Outer, {"init"}, 0),
   One(<<"word", "(", "struct", ")", ";">>, Declares, {}, 0),
   Chunk(<<T(<<"word", "(", ")", "{">>)>>, Outer, {"function"}, 0, 0),
   Chunk(<<T(<<"word", "(">>), T(<<"struct", "word">>),
           T(<<"struct", ")", "{">>)>>,
         {"namespace", "extern"}, {"function"}, 0, 2),
   Chunk(<<T(<<"word", "(">>), T(<<"struct", "word">>), T(<<"struct", ")", ";">>)>>,
         {"namespace", "extern", "class"}, {}, 0, 3),
   One(<<"word", "(", ")", "{">>, {"class"} \cup Bodies, {"block"}, 0),
   One(<<"}", "word", "{">>, {"block"}, {"block"}, 1),
   One(<<"extern", "{">>, {"global"}, {"extern"}, 0),
   [One(<<"public:">>, {"class"}, {}, 0) EXCEPT !.label = "public:"],
   [One(<<"private:">>, {"class"}, {}, 0) EXCEPT !.label = "private:"],
   One(<<"DISALLOW", "(", ")", ";">>, {"class"}, {}, 0),
   Chunk(<<T(<<"asm", "(">>), T(<<"word">>), T(<<")", ";">>)>>, Bodies, {}, 0, 0),
   Chunk(<<T(<<"asm", "{">>), T(<<"word">>), T(<<"}">>)>>, Bodies, {}, 0, 1)}
Lambdas ==
  {OpenNamespace, OpenClass, CloseClass, Close,
   Chunk(<<T(<<"word", "(", ")", "{">>)>>, Outer, {"function"}, 0, 0),
   [One(<<"word", "(", "{">>, Bodies, {"lambda"}, 0) EXCEPT !.skews = TRUE],
   One(<<"}", ")", ";">>, {"lambda"}, {}, 1)}

Directive(d) == [Chunk(<<[Blank EXCEPT !.pp = d]>>, {}, {}, 0, 1) EXCEPT !.pp = d]
Directives == {Directive("if"), Directive("else"), Directive("endif")}
Conditional ==
  Directives \cup {OpenNamespace, OpenStruct, CloseClass, Close}

Header(name, rank) ==
  [name |-> name, rank |-> rank, system |-> FALSE, cpp |-> FALSE,
   cxx11 |-> FALSE, third |-> FALSE, cc |-> FALSE, bare |-> FALSE,
   dir |-> "p", base |-> name, first |-> name]
Include(h) ==
  [Chunk(<<[Blank EXCEPT !.toks = <<"word">>, !.inc = h]>>, {}, {}, 0, 1)
     EXCEPT !.inc = h]
Own1 == [Header("p/tool.h", 3) EXCEPT !.base = "tool", !.first = "tool"]
Mutex == [Header("mutex", 2) EXCEPT !.system = TRUE, !.cpp = TRUE,
                                    !.cxx11 = TRUE, !.dir = ""]
Stdio == [Header("stdio.h", 6) EXCEPT !.system = TRUE, !.dir = ""]
Other == [Header("q/odd.h", 5) EXCEPT !.dir = "q"]
Copied == [Header("q/odd.cc", 4) EXCEPT !.dir = "q", !.cc = TRUE]
Lua == [Header("lua.h", 1) EXCEPT !.third = TRUE, !.bare = TRUE, !.dir = ""]
Near == [Header("tool_x.h", 7) EXCEPT !.bare = TRUE, !.dir = "", !.first = "tool"]
Including(headers) ==
  {Include(h) : h \in headers}
  \cup {One(<<"word", ";">>, {"global"}, {}, 0),
        Chunk(<<[T(<<"word", ";">>) EXCEPT !.uses = {"mutex"}]>>, {"global"}, {}, 0, 1)}

AFile == [dir |-> "p", base |-> "tool", first |-> "tool", ext |-> "cc",
          test |-> FALSE, ownExists |-> TRUE, ownOpens |-> TRUE,
          ownIncludes |-> {"mutex"}]
Bare == [AFile EXCEPT !.ownIncludes = {}]
Alone == [AFile EXCEPT !.ownOpens = FALSE, !.ownExists = FALSE]
AHeader == [AFile EXCEPT !.ext = "h"]

AKind(chunks, indents, most, branches, depth, of) ==
  [chunks |-> chunks, indents |-> indents, most |-> most, branches |-> branches,
   depth |-> depth, file |-> of]
AllKinds ==
  [scopes |-> AKind(Scopes, {0, 1}, 0, 0, 3, AFile),
   lambdas |-> AKind(Lambdas, {0, 1}, 0, 0, 3, AFile),
   conditions |-> AKind(Conditional, {0}, 2, 3, 2, AFile),
   branches |-> AKind(Directives \cup Including({Own1, Mutex, Stdio}), {0}, 4, 2, 0, Bare),
   source |-> AKind(Including({Own1, Mutex, Stdio, Other, Copied, Lua, Near}), {0}, 3, 0, 0, AFile),
   alone |-> AKind(Including({Own1, Mutex, Near}), {0}, 3, 0, 0, Alone),
   header |-> AKind(Directives \cup Including({Mutex, Other, Near}), {0}, 3, 2, 0, AHeader)]

MCKinds == [k \in DOMAIN AllKinds |-> AllKinds[k]]
=============================================================================
