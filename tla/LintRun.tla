------------------------------ MODULE LintRun ------------------------------
(***************************************************************************)
(* One run of the style gate of the build: circle.yml calls                *)
(* dev/lint/lint.sh, which runs dev/lint/cpplint.py on every source file,  *)
(* and the build goes on only when it exits with 0.                        *)
(*                                                                         *)
(* The module models what the run keeps ACROSS its files: the filters, the *)
(* line length, the suppressions and the counters are globals of the       *)
(* script.  A file is the list of its lines, each with what the checks     *)
(* would find in it; what is printed is decided here.  A category is a     *)
(* pair <<top, sub>>, a filter a sign and the beginning of a category.     *)
(***************************************************************************)
EXTENDS Naturals, Sequences, FiniteSets, SequencesExt

CONSTANTS
  CommandLines,      \* [opts : Seq of <<name, value>>, files : Seq of names]
  Configs,           \* what CPPLINT.cfg may hold: entries, NoFile or Unreadable
  Dirs,              \* directories that may hold one
  Chain,             \* file name -> its directories, its own first
  Text,              \* file name -> what is in the file
  ErrorCategories,   \* _ERROR_CATEGORIES
  LegacyCategories,  \* _LEGACY_ERROR_CATEGORIES
  DefaultFilters,    \* _DEFAULT_FILTERS
  DefaultLength,     \* _line_length
  NoFile, Unreadable, BadNumber, AllCategories, NoMark

Filter == [sign : {"+", "-", ""}, prefix : Seq(STRING)]
Names == UNION {ToSet(c.files) : c \in CommandLines}
Options == UNION {ToSet(c.opts) : c \in CommandLines}
Entries == UNION {ToSet(c) : c \in Configs \ {NoFile, Unreadable}}

\* What getopt and the lines of a CPPLINT.cfg give: a line length is a number
\* (a negative one is not modelled) or none, and filters come in a list.
Setting(e) == /\ e[1] = "linelength" => e[2] = BadNumber \/ e[2] \in Nat
              /\ e[1] = "filter" => e[2] \in Seq(Filter)
ASSUME SettingsAssumption ==
  /\ DefaultFilters \in Seq(Filter) /\ DefaultLength \in Nat
  /\ \A c \in CommandLines : c.opts \in Seq(Options) /\ c.files \in Seq(Names)
  /\ \A c \in Configs \ {NoFile, Unreadable} : c \in Seq(Entries)
  /\ \A e \in Options \cup Entries : Setting(e)
ASSUME FilesAssumption ==
  \A f \in Names :
    /\ Chain[f] \in Seq(Dirs)
    /\ Text[f].lines \in Seq(ToSet(Text[f].lines))
    /\ Text[f].late \in Seq(ToSet(Text[f].late))
    /\ \A l \in ToSet(Text[f].lines) : l.finds \in Seq(ToSet(l.finds))

VARIABLES
  cmd, config,              \* the run's inputs
  pc, status,               \* where main() is, and its exit status
  args,                     \* ParseArguments's locals
  files, fileNo, name,      \* main()'s loop
  filters, filters_backup,  \* _cpplint_state
  verbose_level, counting, error_count, errors_by_category,
  line_length, valid_extensions,
  error_suppressions,       \* pairs <<category, line>>
  over,                     \* ProcessConfigOverrides's locals
  linenum, found,           \* the line at hand; what Error() gets next
  reported                  \* history: every error that was counted

inputs == <<cmd, config>>
lint == <<verbose_level, counting, error_count, errors_by_category>>
globals == <<line_length, valid_extensions>>
loop == <<files, fileNo, name>>
vars == <<inputs, pc, status, args, loop, filters, filters_backup, lint,
          globals, error_suppressions, over, linenum, found, reported>>

Extensions == {"cc", "h", "cpp", "cu", "cuh"}
Begins(cat, prefix) == IsPrefix(prefix, cat)
Flat(lists) == FlattenSeq(lists)
\* Two errors of one line may differ in their text alone: nth tells them apart.
Nth(i, n, cat, conf, by) ==
  [line |-> n, cat |-> cat, conf |-> conf, by |-> by, nth |-> i]
Err(n, cat, conf, by) == Nth(0, n, cat, conf, by)

-----------------------------------------------------------------------------
(* The command line                                                        *)

NoArgs == [opts |-> <<>>, filters |-> <<>>, verbosity |-> 1, counting |-> ""]
NoCounts == [k \in {} |-> 0]
NoOver == [at |-> 1, lines |-> <<>>, keep |-> TRUE, filters |-> <<>>]

Init ==
  /\ cmd \in CommandLines
  /\ config \in [Dirs -> Configs]
  /\ pc = "getopt" /\ status = 0
  /\ args = NoArgs
  /\ files = <<>> /\ fileNo = 0 /\ name = ""
  /\ filters = DefaultFilters /\ filters_backup = DefaultFilters
  /\ verbose_level = 1 /\ counting = "total"
  /\ error_count = 0 /\ errors_by_category = NoCounts
  /\ line_length = DefaultLength /\ valid_extensions = Extensions
  /\ error_suppressions = {}
  /\ over = NoOver
  /\ linenum = 0 /\ found = <<>> /\ reported = <<>>

Exit(code) ==
  /\ pc' = "exited" /\ status' = code
  /\ UNCHANGED <<inputs, args, loop, filters_backup, lint, globals,
                 error_suppressions, over, linenum, found, reported>>

\* --root only changes what header guards are asked for.
Known == {"help", "output", "verbose", "filter", "counting", "root",
          "linelength", "extensions"}
Opt == Head(args.opts)

GetOpt ==
  /\ pc = "getopt"
  /\ IF \A i \in DOMAIN cmd.opts : cmd.opts[i][1] \in Known
     THEN /\ args' = [args EXCEPT !.opts = cmd.opts]
          /\ pc' = "options"
          /\ UNCHANGED <<inputs, status, loop, filters, filters_backup, lint,
                         globals, error_suppressions, over, linenum, found,
                         reported>>
     ELSE Exit(1) /\ UNCHANGED filters

\* The values ParseArguments refuses; --filter without a value lists the
\* categories and leaves with 0.
Refused ==
  \/ Opt[1] = "help"
  \/ Opt[1] = "output" /\ Opt[2] \notin {"emacs", "vs7", "eclipse"}
  \/ Opt[1] = "counting" /\ Opt[2] \notin {"total", "toplevel", "detailed"}
  \/ Opt[1] = "linelength" /\ Opt[2] = BadNumber

PrintUsage ==
  /\ pc = "options" /\ args.opts # <<>>
  /\ \/ Refused /\ Exit(1)
     \/ Opt = <<"filter", <<>>>> /\ Exit(0)
  /\ UNCHANGED filters

ParseOption ==
  /\ pc = "options" /\ args.opts # <<>>
  /\ ~Refused /\ Opt # <<"filter", <<>>>>
  /\ args' = [args EXCEPT !.opts = Tail(@),
                !.filters = IF Opt[1] = "filter" THEN Opt[2] ELSE @,
                !.verbosity = IF Opt[1] = "verbose" THEN Opt[2] ELSE @,
                !.counting = IF Opt[1] = "counting" THEN Opt[2] ELSE @]
  /\ line_length' = IF Opt[1] = "linelength" THEN Opt[2] ELSE line_length
  /\ valid_extensions' =
       IF Opt[1] = "extensions" THEN Opt[2] ELSE valid_extensions
  /\ UNCHANGED <<inputs, pc, status, loop, filters, filters_backup, lint,
                 error_suppressions, over, linenum, found, reported>>

NoFilesGiven ==
  /\ pc = "options" /\ args.opts = <<>> /\ cmd.files = <<>>
  /\ Exit(1) /\ UNCHANGED filters

\* AddFilters appends first and looks at the signs afterwards.
Signed(list) == \A i \in DOMAIN list : list[i].sign \in {"+", "-"}

Configure ==
  /\ pc = "options" /\ args.opts = <<>> /\ cmd.files # <<>>
  /\ filters' = DefaultFilters \o args.filters
  /\ IF Signed(args.filters)
     THEN /\ verbose_level' = args.verbosity
          /\ counting' = args.counting
          /\ error_count' = 0 /\ errors_by_category' = NoCounts
          /\ files' = cmd.files
          /\ pc' = "next"
          /\ UNCHANGED <<inputs, status, args, fileNo, name, filters_backup,
                         globals, error_suppressions, over, linenum, found,
                         reported>>
     ELSE Exit(1)

-----------------------------------------------------------------------------
(* ProcessFile and ProcessConfigOverrides                                  *)

StartFile ==
  /\ pc = "next" /\ files # <<>>
  /\ name' = Head(files) /\ files' = Tail(files) /\ fileNo' = fileNo + 1
  /\ filters_backup' = filters
  /\ over' = NoOver
  /\ pc' = "dirs"
  /\ UNCHANGED <<inputs, status, args, filters, lint, globals,
                 error_suppressions, linenum, found, reported>>

\* What is left alone while the configuration files are read.
ReadingConfig ==
  UNCHANGED <<inputs, status, args, loop, filters_backup, lint,
              valid_extensions, error_suppressions, linenum, found, reported>>

LookInDir ==
  /\ pc = "dirs" /\ over.keep /\ over.at <= Len(Chain[name])
  /\ LET c == config[Chain[name][over.at]] IN
     /\ over' = [over EXCEPT !.keep = c # Unreadable,
                   !.lines = IF c \in {NoFile, Unreadable} THEN <<>> ELSE c,
                   !.at = IF c \in {NoFile, Unreadable} THEN @ + 1 ELSE @]
     /\ pc' = IF c \in {NoFile, Unreadable} THEN "dirs" ELSE "cfg"
  /\ UNCHANGED <<filters, line_length>> /\ ReadingConfig

\* exclude_files is matched against the part of the path below the directory.
Component == IF over.at = 1 THEN name ELSE Chain[name][over.at - 1]
Entry == Head(over.lines)
Excluded == Entry[1] = "exclude_files" /\ Component \in Entry[2]

ConfigLine ==
  /\ pc = "cfg" /\ over.lines # <<>> /\ ~Excluded
  /\ over' = [over EXCEPT !.lines = Tail(@),
                !.keep = @ /\ Entry[1] # "set noparent",
                !.filters = IF Entry[1] = "filter" THEN Append(@, Entry[2])
                            ELSE @]
  /\ line_length' = IF Entry[1] = "linelength" /\ Entry[2] # BadNumber
                    THEN Entry[2] ELSE line_length
  /\ UNCHANGED <<pc, filters>> /\ ReadingConfig

ExcludeFile ==
  /\ pc = "cfg" /\ over.lines # <<>> /\ Excluded
  /\ filters' = filters_backup
  /\ pc' = "next"
  /\ UNCHANGED <<over, line_length>> /\ ReadingConfig

ConfigEnd ==
  /\ pc = "cfg" /\ over.lines = <<>>
  /\ over' = [over EXCEPT !.at = @ + 1]
  /\ pc' = "dirs"
  /\ UNCHANGED <<filters, line_length>> /\ ReadingConfig

ApplyFilters ==
  /\ pc = "dirs" /\ (~over.keep \/ over.at > Len(Chain[name]))
  /\ filters' = filters \o Flat(Reverse(over.filters))
  /\ IF Signed(Flat(over.filters))
     THEN /\ pc' = "read"
          /\ UNCHANGED <<over, line_length>> /\ ReadingConfig
     ELSE Exit(1)

\* (mutant) A file that cannot be opened leaves without _RestoreFilters.
NotReadKeeping ==
  /\ pc = "read"
  /\ \/ ~Text[name].readable
     \/ Text[name].ext \notin valid_extensions
  /\ pc' = "next"
  /\ UNCHANGED <<inputs, status, args, loop, filters, filters_backup, lint,
                 globals, error_suppressions, over, linenum, found, reported>>

NotRead ==
  /\ pc = "read"
  /\ \/ ~Text[name].readable
     \/ Text[name].ext \notin valid_extensions
  /\ filters' = filters_backup
  /\ pc' = "next"
  /\ UNCHANGED <<inputs, status, args, loop, filters_backup, lint, globals,
                 error_suppressions, over, linenum, found, reported>>

-----------------------------------------------------------------------------
(* ProcessFileData: the order of the checks, and who suppresses whom       *)

Lines == Text[name].lines
Marked(n) == n \in DOMAIN Lines /\ Lines[n].nolint # NoMark
Places(role) == {n \in DOMAIN Lines : Lines[n].role = role}
FirstOf(role) ==
  IF Places(role) = {} THEN 0
  ELSE CHOOSE n \in Places(role) : \A k \in Places(role) : n <= k
LastOf(role) ==
  IF Places(role) = {} THEN 0
  ELSE CHOOSE n \in Places(role) : \A k \in Places(role) : n >= k

\* ParseNolintSuppressions on line n: what it adds, and what it complains of.
Nolint(n) == Lines[n].nolint
Target(n) == IF Nolint(n).next THEN n + 1 ELSE n

\* (mutant) Any category is entered, known or not.
ParsedNolintAny(n) ==
  IF Marked(n) THEN {<<Nolint(n).cat, Target(n)>>} ELSE {}

ParsedNolint(n) ==
  IF Marked(n) /\ Nolint(n).cat \in ErrorCategories \cup {AllCategories}
  THEN {<<Nolint(n).cat, Target(n)>>} ELSE {}
UnknownNolint(n, by) ==
  IF Marked(n) /\ Nolint(n).cat \notin
                    ErrorCategories \cup LegacyCategories \cup {AllCategories}
  THEN <<Err(n, <<"readability", "nolint">>, 5, by)>> ELSE <<>>

IsErrorSuppressedByNolint(cat, n) ==
  <<cat, n>> \in error_suppressions \/ <<AllCategories, n>> \in error_suppressions

\* The sign of the last filter that matches; without one nothing is filtered.
Filtered(list, cat) ==
  LET sign[i \in 0..Len(list)] ==
        IF i = 0 THEN "+"
        ELSE IF Begins(cat, list[i].prefix) THEN list[i].sign
        ELSE sign[i - 1]
  IN sign[Len(list)] = "-"

ShouldPrintError(e) ==
  /\ ~IsErrorSuppressedByNolint(e.cat, e.line)
  /\ e.conf >= verbose_level
  /\ ~Filtered(filters, e.cat)

Counting == counting \in {"toplevel", "detailed"}
CountKey(cat) == IF counting = "detailed" THEN cat ELSE <<cat[1]>>
\* (mutant) The first error of a category makes its entry and is not counted.
IncrementFromZero(counts, key) ==
  IF key \in DOMAIN counts THEN [counts EXCEPT ![key] = @ + 1]
  ELSE [k \in DOMAIN counts \cup {key} |-> IF k = key THEN 0 ELSE counts[k]]

Increment(counts, key) ==
  IF key \in DOMAIN counts THEN [counts EXCEPT ![key] = @ + 1]
  ELSE [k \in DOMAIN counts \cup {key} |-> IF k = key THEN 1 ELSE counts[k]]

Error ==
  /\ found # <<>>
  /\ found' = Tail(found)
  /\ IF ShouldPrintError(Head(found))
     THEN /\ error_count' = error_count + 1
          /\ errors_by_category' =
               IF Counting
               THEN Increment(errors_by_category, CountKey(Head(found).cat))
               ELSE errors_by_category
          /\ reported' = Append(reported, <<fileNo, Head(found)>>)
     ELSE UNCHANGED <<error_count, errors_by_category, reported>>
  /\ UNCHANGED <<inputs, pc, status, args, loop, filters, filters_backup,
                 verbose_level, counting, globals, error_suppressions, over,
                 linenum>>

\* A step of ProcessFileData begins once Error() has had all it was given.
Checking(from, to) ==
  /\ pc = from /\ found = <<>>
  /\ pc' = to
  /\ UNCHANGED <<inputs, status, args, loop, filters, filters_backup, lint,
                 globals, over, reported>>

CheckForCopyright ==
  IF \E n \in DOMAIN Lines : n <= 10 /\ Lines[n].copyright THEN <<>>
  ELSE <<Err(0, <<"legal", "copyright">>, 5, "copyright")>>

\* (mutant) ResetNolintSuppressions is not called.
StartDataNoReset ==
  /\ Checking("read", "comments")
  /\ Text[name].readable /\ Text[name].ext \in valid_extensions
  /\ found' = CheckForCopyright
  /\ UNCHANGED <<error_suppressions, linenum>>

StartData ==
  /\ Checking("read", "comments")
  /\ Text[name].readable /\ Text[name].ext \in valid_extensions
  /\ error_suppressions' = {}
  /\ found' = CheckForCopyright
  /\ UNCHANGED linenum

\* A comment that never ends is reported one line below its beginning.
RemoveMultiLineComments ==
  /\ Checking("comments", IF Text[name].ext = "h" THEN "ifndef" ELSE "line")
  /\ found' = IF FirstOf("unclosed") = 0 THEN <<>>
              ELSE <<Err(FirstOf("unclosed") + 1,
                         <<"readability", "multiline_comment">>, 5, "comments")>>
  /\ linenum' = 0
  /\ UNCHANGED error_suppressions

Guard == Text[name].guard
GuardError(n, level, by) ==
  <<Err(n, <<"build", "header_guard">>, level, by)>>

CheckForHeaderGuard ==
  /\ Checking("ifndef", IF Guard.nolint \/ ~Guard.defined THEN "line" ELSE "endif")
  /\ IF Guard.nolint \/ ~Guard.defined \/ Guard.style = "path"
     THEN UNCHANGED error_suppressions
     ELSE error_suppressions' =
            error_suppressions \cup ParsedNolint(FirstOf("ifndef"))
  /\ found' =
       CASE Guard.nolint -> <<>>
         [] ~Guard.nolint /\ ~Guard.defined -> GuardError(0, 5, "no guard")
         [] ~Guard.nolint /\ Guard.defined /\ Guard.style = "path" -> <<>>
         [] OTHER -> UnknownNolint(FirstOf("ifndef"), "ifndef")
                     \o GuardError(FirstOf("ifndef"),
                          IF Guard.style = "path_" THEN 0 ELSE 5, "ifndef")
  /\ UNCHANGED linenum

CheckGuardEnd ==
  /\ Checking("endif", "line")
  /\ error_suppressions' = error_suppressions \cup ParsedNolint(LastOf("endif"))
  /\ found' = UnknownNolint(LastOf("endif"), "endif") \o
              (IF Guard.comment = "path" THEN <<>>
               ELSE GuardError(LastOf("endif"),
                      IF Guard.comment = "path_" THEN 0 ELSE 5, "endif"))
  /\ UNCHANGED linenum

\* CheckStyle's test of the width: int(_line_length * 1.25).
LineLength(n) ==
  IF Lines[n].width <= line_length THEN <<>>
  ELSE <<Err(n, <<"whitespace", "line_length">>,
             IF Lines[n].width > (line_length * 5) \div 4 THEN 4 ELSE 2, "width")>>

Finds(n) == [i \in DOMAIN Lines[n].finds |->
               Nth(i, n, Lines[n].finds[i][1], Lines[n].finds[i][2], "find")]

ProcessLine ==
  /\ Checking("line", "line")
  /\ linenum <= Len(Lines) + 1
  /\ error_suppressions' = error_suppressions \cup ParsedNolint(linenum)
  /\ found' = IF linenum \in DOMAIN Lines
              THEN UnknownNolint(linenum, "line") \o Finds(linenum)
                   \o LineLength(linenum)
              ELSE <<>>
  /\ linenum' = linenum + 1

\* Blocks left open and missing includes (the subject of LintFile).
Late == [i \in DOMAIN Text[name].late |->
           Nth(i, Text[name].late[i][1], Text[name].late[i][2], 5, "late")]
\* The lines of a set, from the first to the last.
InOrder(places) ==
  LET upTo[n \in 0..Len(Lines)] ==
        IF n = 0 THEN <<>>
        ELSE IF n \in places THEN Append(upTo[n - 1], n) ELSE upTo[n - 1]
  IN upTo[Len(Lines)]
BadBytes == {n \in DOMAIN Lines : Lines[n].role = "nul"}
BadByte(n) == Err(n, <<"readability", "nul">>, 5, "nul")
CheckForBadCharacters ==
  [i \in DOMAIN InOrder(BadBytes) |-> BadByte(InOrder(BadBytes)[i])]
CheckForNewlineAtEOF ==
  IF Lines[Len(Lines)].role = "empty" THEN <<>>
  ELSE <<Err(Len(Lines), <<"whitespace", "ending_newline">>, 5, "eof")>>

AfterLines ==
  /\ Checking("line", "crlf")
  /\ linenum > Len(Lines) + 1
  /\ found' = Late \o CheckForBadCharacters \o CheckForNewlineAtEOF
  /\ UNCHANGED <<error_suppressions, linenum>>

\* The piece after the last newline has no end of line of its own.
Ended == 1..(Len(Lines) - 1)
Crlf == {n \in Ended : Lines[n].cr}
UnexpectedCr(n) == Err(n, <<"whitespace", "newline">>, 1, "crlf")

CheckNewlines ==
  /\ Checking("crlf", "restore")
  /\ found' = IF Crlf = Ended THEN <<>>
              ELSE [i \in DOMAIN InOrder(Crlf) |-> UnexpectedCr(InOrder(Crlf)[i])]
  /\ UNCHANGED <<error_suppressions, linenum>>

FinishFile ==
  /\ pc = "restore" /\ found = <<>>
  /\ filters' = filters_backup
  /\ pc' = "next"
  /\ UNCHANGED <<inputs, status, args, loop, filters_backup, lint, globals,
                 error_suppressions, over, linenum, found, reported>>

Finish ==
  /\ pc = "next" /\ files = <<>>
  /\ Exit(IF error_count > 0 THEN 1 ELSE 0) /\ UNCHANGED filters

Next ==
  \/ GetOpt \/ PrintUsage \/ ParseOption \/ NoFilesGiven \/ Configure
  \/ StartFile \/ LookInDir \/ ConfigLine \/ ExcludeFile \/ ConfigEnd
  \/ ApplyFilters \/ NotRead
  \/ StartData \/ RemoveMultiLineComments \/ CheckForHeaderGuard
  \/ CheckGuardEnd \/ ProcessLine \/ AfterLines \/ CheckNewlines
  \/ Error \/ FinishFile \/ Finish

Spec == Init /\ [][Next]_vars

-----------------------------------------------------------------------------
(* What the usage text promises of one file, stated without the steps      *)

Seen == Chain[name]
Stops(d) == \/ config[d] = Unreadable
            \/ /\ config[d] # NoFile
               /\ \E i \in DOMAIN config[d] : config[d][i][1] = "set noparent"
\* The directories whose configurations count for the file, nearest first.
Counts(i) == /\ i \in DOMAIN Seen /\ \A k \in 1..(i - 1) : ~Stops(Seen[k])
             /\ config[Seen[i]] \notin {NoFile, Unreadable}
\* The places <<directory, line>> of their entries of one kind.
Given(key) ==
  UNION {{<<i, j>> : j \in {k \in DOMAIN config[Seen[i]] :
                             config[Seen[i]][k][1] = key}} :
           i \in {k \in DOMAIN Seen : Counts(k)}}
Value(g) == config[Seen[g[1]]][g[2]][2]
Nearer(g, h) == g[1] < h[1] \/ (g[1] = h[1] /\ g[2] < h[2])

\* The last match of the nearest list that has one decides; after those of the
\* configurations come the command line's and the default.
Hits(list, cat) == {i \in DOMAIN list : Begins(cat, list[i].prefix)}
TurnsOff(list, cat) ==
  \E i \in Hits(list, cat) :
    list[i].sign = "-" /\ \A j \in Hits(list, cat) : j <= i
FilteredOut(cat) ==
  LET match == {g \in Given("filter") : Hits(Value(g), cat) # {}}
  IN IF match # {}
     THEN \E g \in match : /\ TurnsOff(Value(g), cat)
                           /\ \A h \in match \ {g} : Nearer(g, h)
     ELSE TurnsOff(IF Hits(args.filters, cat) # {} THEN args.filters
                   ELSE DefaultFilters, cat)

\* The lines whose NOLINT is heard when an error is found: all, but that the
\* guard lines are looked at before the others, and what is found before any
\* line is read cannot be silenced.
Heard(e) ==
  CASE e.by \in {"copyright", "comments", "no guard"} -> {}
    [] e.by = "ifndef" -> {e.line}
    [] e.by = "endif"  -> {e.line} \cup (IF Guard.style = "path" THEN {}
                                        ELSE {FirstOf("ifndef")})
    [] OTHER           -> DOMAIN Lines
Silenced(e) ==
  \E n \in Heard(e) :
    /\ Marked(n) /\ e.line = Target(n)
    /\ \/ Nolint(n).cat = AllCategories
       \/ Nolint(n).cat = e.cat /\ e.cat \in ErrorCategories

IsHeader == Text[name].ext = "h"
Bad(n) == Lines[n].nolint # NoMark /\ Nolint(n).cat \notin
            ErrorCategories \cup LegacyCategories \cup {AllCategories}
UnknownMark(n, by) == Err(n, <<"readability", "nolint">>, 5, by)

Checked(n) == ToSet(Finds(n)) \cup ToSet(LineLength(n))
                \cup (IF Bad(n) THEN {UnknownMark(n, "line")} ELSE {})
\* The two guard lines are read for their NOLINT twice.
OfGuard ==
  IF ~IsHeader \/ Guard.nolint THEN {}
  ELSE IF ~Guard.defined THEN ToSet(GuardError(0, 5, "no guard"))
  ELSE (IF Guard.style = "path" THEN {}
        ELSE {Err(FirstOf("ifndef"), <<"build", "header_guard">>,
                  IF Guard.style = "path_" THEN 0 ELSE 5, "ifndef")}
             \cup ToSet(UnknownNolint(FirstOf("ifndef"), "ifndef")))
       \cup ToSet(UnknownNolint(LastOf("endif"), "endif"))
       \cup (IF Guard.comment = "path" THEN {}
             ELSE {Err(LastOf("endif"), <<"build", "header_guard">>,
                       IF Guard.comment = "path_" THEN 0 ELSE 5, "endif")})
OfFile ==
  {Err(0, <<"legal", "copyright">>, 5, "copyright") :
     x \in {y \in {1} : \A n \in DOMAIN Lines : n > 10 \/ ~Lines[n].copyright}}
  \cup {Err(n + 1, <<"readability", "multiline_comment">>, 5, "comments") :
          n \in {m \in Places("unclosed") : \A k \in Places("unclosed") : m <= k}}
  \cup ToSet(Late)
  \cup {BadByte(n) : n \in Places("nul")}
  \cup {Err(n, <<"whitespace", "ending_newline">>, 5, "eof") :
          n \in {m \in {Len(Lines)} : Lines[m].role # "empty"}}
  \cup {UnexpectedCr(n) :
          n \in {m \in Ended : Lines[m].cr /\ \E k \in Ended : ~Lines[k].cr}}

\* exclude_files is matched against the part of the path below the directory.
Skipped == \E g \in Given("exclude_files") :
             (IF g[1] = 1 THEN name ELSE Seen[g[1] - 1]) \in Value(g)

Prints(e) ==
  ~FilteredOut(e.cat) /\ ~Silenced(e) /\ e.conf >= args.verbosity
Promised ==
  IF Skipped \/ ~Text[name].readable \/ Text[name].ext \notin valid_extensions
  THEN {}
  ELSE {e \in OfGuard \cup OfFile \cup UNION {Checked(n) : n \in DOMAIN Lines} :
          Prints(e)}

-----------------------------------------------------------------------------
(* Properties                                                              *)

\* Every variable keeps its type.
TypeOK ==
  /\ pc \in {"getopt", "options", "next", "dirs", "cfg", "read", "comments",
             "ifndef", "endif", "line", "crlf", "restore", "exited"}
  /\ status \in {0, 1} /\ fileNo \in Nat /\ linenum \in Nat
  /\ line_length \in Nat /\ error_count \in Nat
  /\ \A i \in DOMAIN filters : filters[i].sign \in {"+", "-", ""}
  /\ \A x \in error_suppressions :
       x[1] \in ErrorCategories \cup {AllCategories} /\ x[2] \in Nat

\* Between two files the filters are again those of the command line: what a
\* CPPLINT.cfg adds for one file (ProcessConfigOverrides) is gone whichever way
\* ProcessFile is left (_BackupFilters and the three _RestoreFilters).
FiltersAsGiven == pc = "next" => filters = DefaultFilters \o args.filters

\* What is reported of a file is what its own text, the command line and the
\* configurations above it ask for, each error once: nothing of an earlier
\* file's filters or NOLINT marks is left (ProcessFile, ProcessFileData, Error).
\* The line length is the one at hand, whoever set it.
Reports == {i \in DOMAIN reported : reported[i][1] = fileNo}
OwnErrors ==
  pc = "next" /\ fileNo > 0 =>
    /\ {reported[i][2] : i \in Reports} = Promised
    /\ \A i, j \in Reports : reported[i][2] = reported[j][2] => i = j

Keys == {CountKey(reported[i][2].cat) : i \in DOMAIN reported}
Of(k) == {i \in DOMAIN reported : CountKey(reported[i][2].cat) = k}

\* The exit status, the total and the counts by category tell of the same
\* errors: each counted under the key of its category when --counting asks for
\* it (IncrementErrorCount, PrintErrorCounts, main).
CountsAgree ==
  /\ errors_by_category = IF Counting THEN [k \in Keys |-> Cardinality(Of(k))]
                          ELSE NoCounts
  /\ error_count = Len(reported)
  /\ pc = "exited" /\ reported # <<>> => status = 1
=============================================================================
