---------------------------- MODULE LintIncludes ----------------------------
(***************************************************************************)
(* cpplint's _IncludeState and the checks that use it.  A header is a      *)
(* record: name, system (in <>), cpp (in _CPP_HEADERS), cxx11 (one of the  *)
(* unapproved ones), third (a third-party pattern), cc (a .cc file), bare  *)
(* (no directory in its name), dir and base (its path without the common   *)
(* suffixes), first (the first component of base) and rank (its place in   *)
(* alphabetical order).  The file at hand has dir, base, first and ext.    *)
(***************************************************************************)
EXTENDS Integers, Sequences, FiniteSets, SequencesExt

INITIAL_SECTION == 0
MY_H_SECTION == 1
C_SECTION == 2
CPP_SECTION == 3
OTHER_H_SECTION == 4

NoHeader == [name |-> ""]
NoIncludes == [include_list |-> <<<<>>>>, section |-> INITIAL_SECTION,
               last_header |-> 0]

FindHeader(inc, h) ==
  \E i \in DOMAIN inc.include_list : \E j \in DOMAIN inc.include_list[i] :
    inc.include_list[i][j].name = h.name

\* (mutant) #else keeps what the #if branch included.
ResetSectionKeeping(inc, directive) ==
  [inc EXCEPT !.section = INITIAL_SECTION, !.last_header = 0,
     !.include_list = IF directive = "if" THEN Append(@, <<>>) ELSE @]

\* #if opens a new list, #else and #elif empty the last one, nothing is popped.
ResetSection(inc, directive) ==
  [inc EXCEPT !.section = INITIAL_SECTION, !.last_header = 0,
     !.include_list =
       CASE directive = "if" -> Append(@, <<>>)
         [] directive = "else" -> [@ EXCEPT ![Len(@)] = <<>>]
         [] OTHER -> @]

ClassifyInclude(file, h) ==
  CASE h.system /\ h.cpp -> "cpp system"
    [] h.system /\ ~h.cpp -> "c system"
    [] ~h.system /\ h.base = file.base /\ h.dir = file.dir -> "likely mine"
    [] ~h.system /\ (h.base # file.base \/ h.dir # file.dir)
         /\ h.first = file.first -> "possibly mine"
    [] OTHER -> "other"

\* CheckNextIncludeOrder: the section after the header, or no section where the
\* header comes too late.
TooLate(inc, kind) ==
  \/ kind = "c system" /\ inc.section > C_SECTION
  \/ kind = "cpp system" /\ inc.section > CPP_SECTION
NextSection(inc, kind) ==
  CASE kind = "c system" -> C_SECTION
    [] kind = "cpp system" -> CPP_SECTION
    [] kind \in {"likely mine", "possibly mine"} ->
         IF inc.section <= MY_H_SECTION THEN MY_H_SECTION ELSE OTHER_H_SECTION
    [] kind = "other" -> OTHER_H_SECTION
CheckNextIncludeOrder(inc, kind) ==
  IF TooLate(inc, kind) THEN [inc EXCEPT !.last_header = 0]
  ELSE [inc EXCEPT !.section = NextSection(inc, kind),
          !.last_header = IF NextSection(inc, kind) = inc.section THEN @ ELSE 0]

Foreign(file, h) == h.cc /\ h.dir # file.dir
Recorded(file, inc, h) == ~FindHeader(inc, h) /\ ~Foreign(file, h) /\ ~h.third

\* CheckIncludeLine: the state after it, and what it complains of.
IncludeAfter(file, inc, h) ==
  IF ~Recorded(file, inc, h) THEN inc
  ELSE [CheckNextIncludeOrder(inc, ClassifyInclude(file, h)) EXCEPT
          !.include_list = [@ EXCEPT ![Len(@)] = Append(@, h)],
          !.last_header = h.rank]

\* A header after a blank line or other code is taken to be where it belongs.
IsInAlphabeticalOrder(last, h, afterInclude) == last <= h.rank \/ ~afterInclude

IncludeErrors(file, inc, h, afterInclude) ==
  LET kind == ClassifyInclude(file, h)
      last == CheckNextIncludeOrder(inc, kind).last_header
  IN {f \in {"bare name", "included twice", "foreign .cc", "include order",
             "include alpha", "c++11 header"} :
        CASE f = "bare name" -> h.bare /\ ~h.system /\ ~h.third
          [] f = "included twice" -> FindHeader(inc, h)
          [] f = "foreign .cc" -> ~FindHeader(inc, h) /\ Foreign(file, h)
          [] f = "include order" -> Recorded(file, inc, h) /\ TooLate(inc, kind)
          [] f = "include alpha" ->
               Recorded(file, inc, h) /\ ~IsInAlphabeticalOrder(last, h, afterInclude)
          [] f = "c++11 header" -> h.cxx11}

\* At the end of the file: CheckForIncludeWhatYouUse takes what a header of the
\* same module includes for included, and says nothing of a .cc file whose
\* header it cannot open; CheckHeaderFileIncluded asks for the own header.
Flattened(inc) == ToSet(FlattenSeq(inc.include_list))
SameModule(file, h) ==
  /\ file.ext = "cc" /\ ~h.cc /\ ~h.cpp
  /\ h.dir \in {file.dir, ""} /\ h.base = file.base
HeaderFound(file, inc) ==
  file.ownOpens /\ \E h \in Flattened(inc) : SameModule(file, h)
Missing(file, inc, used) ==
  IF file.ext = "cc" /\ ~HeaderFound(file, inc) THEN {}
  ELSE used \ ({h.name : h \in Flattened(inc)}
               \cup (IF HeaderFound(file, inc) THEN file.ownIncludes ELSE {}))
OwnHeaderMissing(file, inc) ==
  /\ file.ext = "cc" /\ file.ownExists /\ ~file.test
  /\ \A h \in Flattened(inc) : h.dir \notin {file.dir, ""} \/ h.base # file.base

=============================================================================
