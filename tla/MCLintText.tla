---------------------------- MODULE MCLintText ----------------------------
(* Texts of literals and comments, and texts of brackets.                  *)
EXTENDS LintText

AText(of, most, on) == [tokens |-> of, size |-> most, lines |-> on]
MCTexts ==
  {AText({"word", "//", "/*", "*/", "quote"}, 6, 3),
   AText({"word", "//", "quote", "tick", "escaped"}, 7, 2),
   AText({"word", "/*", "*/", "tick", "quote"}, 6, 2),
   AText({"word", "//", "quote", "raw(", ")raw"}, 7, 2),
   AText({"word", "/*", "*/", "raw(", ")raw"}, 7, 3),
   AText({"(", ")", "<", ">", "operator"}, 6, 2),
   AText({"(", ")", "{", "}", "<", ">", ";"}, 6, 2),
   AText({"(", ")", "<", ">", "->", "<<"}, 5, 2)}

=============================================================================
