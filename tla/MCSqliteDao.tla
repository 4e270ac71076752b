---------------------------- MODULE MCSqliteDao ----------------------------
(***************************************************************************)
(* Two processes that share a database with a third program.               *)
(***************************************************************************)
EXTENDS SqliteDao

CONSTANTS p1, p2

OneTable == <<"save_result">>

\* The rule that p1 reports first has a quote in its pattern.
QuotedPattern == {[proc |-> p1, row |-> 1]}
=============================================================================
