----------------------------- MODULE MCLintRun -----------------------------
(* Four files in two directories, each CPPLINT.cfg of a small set in each. *)
EXTENDS LintRun

P(sign, prefix) == [sign |-> sign, prefix |-> prefix]
MCDefaultFilters == <<P("-", <<"build", "include_alpha">>)>>
MCErrorCategories ==
  {<<"whitespace", "line_length">>, <<"whitespace", "tab">>,
   <<"runtime", "int">>, <<"readability", "multiline_comment">>,
   <<"build", "header_guard">>}
MCLegacyCategories == {<<"readability", "streams">>}

MCDirs == {"root", "a", "b", "c"}
MCChain == [f \in {"f.cc", "g.h", "n.txt", "lost.cc"} |->
              IF f = "g.h" THEN <<"c", "root">> ELSE <<"b", "a", "root">>]

Mark(next, cat) == [next |-> next, cat |-> cat]
L(role, width, finds, mark) ==
  [role |-> role, width |-> width, finds |-> finds, nolint |-> mark,
   copyright |-> FALSE, cr |-> FALSE]
Tab == <<<<"whitespace", "tab">>, 1>>
CInt == <<<<"runtime", "int">>, 4>>
Alpha == <<<<"build", "include_alpha">>, 4>>
NoGuard == [nolint |-> FALSE, defined |-> FALSE, style |-> "path",
            comment |-> "path"]
Source ==
  [readable |-> TRUE, ext |-> "cc", guard |-> NoGuard,
   late |-> <<<<2, <<"build", "header_guard">>>>>>,
   lines |-> <<[L("text", 5, <<CInt, Alpha>>,
                  Mark(TRUE, <<"whitespace", "line_length">>))
                   EXCEPT !.cr = TRUE],
               L("unclosed", 6, <<Tab, Tab>>, NoMark),
               [L("text", 6, <<CInt, Tab>>, Mark(FALSE, AllCategories))
                   EXCEPT !.cr = TRUE],
               L("nul", 0, <<>>, Mark(FALSE, <<"spelt", "wrong">>)),
               L("empty", 0, <<>>, NoMark)>>]
Header ==
  [readable |-> TRUE, ext |-> "h",
   guard |-> [nolint |-> FALSE, defined |-> TRUE, style |-> "path_",
              comment |-> "none"],
   late |-> <<>>,
   lines |-> <<[L("text", 2, <<>>, Mark(FALSE, <<"readability", "streams">>))
                   EXCEPT !.copyright = TRUE],
               L("ifndef", 0, <<>>, NoMark),
               L("text", 5, <<Tab, CInt>>,
                 Mark(TRUE, <<"build", "header_guard">>)),
               L("endif", 0, <<>>, Mark(FALSE, <<"spelt", "wrong">>))>>]
MCText == [f \in {"f.cc", "g.h", "n.txt", "lost.cc"} |->
             CASE f = "f.cc" -> Source
               [] f = "g.h" -> Header
               [] f = "n.txt" -> [Source EXCEPT !.ext = "txt"]
               [] f = "lost.cc" -> [Source EXCEPT !.readable = FALSE]]

MCConfigs ==
  {NoFile, Unreadable,
   <<<<"filter", <<P("-", <<"whitespace">>), P("+", <<"whitespace", "tab">>)>>>>,
     <<"linelength", 8>>>>,
   <<<<"linelength", BadNumber>>, <<"filter", <<P("+", <<>>)>>>>,
     <<"set noparent">>, <<"filter", <<P("-", <<"readability">>)>>>>>>,
   <<<<"filter", <<P("-", <<"legal">>)>>>>, <<"exclude_files", {"g.h", "b"}>>>>}
MCSignless == {<<<<"filter", <<P("", <<"build">>)>>>>>>}

Line(opts, names) == [opts |-> opts, files |-> names]
MCCommandLines ==
  {Line(<<<<"verbose", 0>>, <<"counting", "toplevel">>,
          <<"filter", <<P("-", <<"runtime">>)>>>>>>,
        <<"f.cc", "g.h", "f.cc">>),
   Line(<<<<"counting", "detailed">>, <<"linelength", 3>>, <<"output", "vs7">>>>,
        <<"g.h", "n.txt", "lost.cc", "f.cc">>),
   Line(<<<<"extensions", {"h", "txt"}>>>>, <<"f.cc", "n.txt">>),
   Line(<<<<"help", 0>>>>, <<"f.cc">>), Line(<<<<"nonesuch", 0>>>>, <<"f.cc">>),
   Line(<<<<"filter", <<>>>>>>, <<"f.cc">>),
   Line(<<<<"filter", <<P("", <<"build">>)>>>>>>, <<"f.cc">>),
   Line(<<<<"counting", "most">>>>, <<"f.cc">>),
   Line(<<<<"linelength", BadNumber>>>>, <<"f.cc">>), Line(<<>>, <<>>)}
MCAllConfigs == MCConfigs \cup MCSignless

=============================================================================
