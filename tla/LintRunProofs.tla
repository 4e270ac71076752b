--------------------------- MODULE LintRunProofs ---------------------------
(***************************************************************************)
(* What cpplint adds to its filters for one file does not outlive it, the  *)
(* exit status and the counts tell what was reported, and that is what the *)
(* file itself asks for, whatever files, configurations and command lines  *)
(* there are.                                                              *)
(***************************************************************************)
EXTENDS LintRun, SequenceFacts, TLAPS

\* The filters of the command line, while a file has its own on top of them.
Kept == DefaultFilters \o args.filters
InFile == {"dirs", "cfg", "read", "comments", "ifndef", "endif", "line", "crlf",
           "restore"}
FiltersInv ==
  /\ pc \in {"getopt", "options", "next", "exited"} \cup InFile
  /\ pc = "next" => filters = Kept
  /\ pc \in InFile => filters_backup = Kept

LEMMA FiltersInit == Init => FiltersInv
  BY DEF Init, FiltersInv, InFile

LEMMA FiltersStep == FiltersInv /\ [Next]_vars => FiltersInv'
  <1> USE DEF FiltersInv, InFile, Kept
  <1> SUFFICES ASSUME FiltersInv, [Next]_vars
               PROVE  FiltersInv'
    OBVIOUS
  <1>1. CASE GetOpt
    BY <1>1 DEF GetOpt, Exit
  <1>2. CASE PrintUsage
    BY <1>2 DEF PrintUsage, Exit
  <1>3. CASE ParseOption
    BY <1>3 DEF ParseOption
  <1>4. CASE NoFilesGiven
    BY <1>4 DEF NoFilesGiven, Exit
  <1>5. CASE Configure
    BY <1>5 DEF Configure, Exit
  <1>6. CASE StartFile
    BY <1>6 DEF StartFile
  <1>7. CASE LookInDir
    BY <1>7 DEF LookInDir, ReadingConfig
  <1>8. CASE ConfigLine
    BY <1>8 DEF ConfigLine, ReadingConfig
  <1>9. CASE ExcludeFile
    BY <1>9 DEF ExcludeFile, ReadingConfig
  <1>10. CASE ConfigEnd
    BY <1>10 DEF ConfigEnd, ReadingConfig
  <1>11. CASE ApplyFilters
    BY <1>11 DEF ApplyFilters, ReadingConfig, Exit
  <1>12. CASE NotRead
    BY <1>12 DEF NotRead
  <1>13. CASE StartData
    BY <1>13 DEF StartData, Checking
  <1>14. CASE RemoveMultiLineComments
    BY <1>14 DEF RemoveMultiLineComments, Checking
  <1>15. CASE CheckForHeaderGuard
    BY <1>15 DEF CheckForHeaderGuard, Checking
  <1>16. CASE CheckGuardEnd
    BY <1>16 DEF CheckGuardEnd, Checking
  <1>17. CASE ProcessLine
    BY <1>17 DEF ProcessLine, Checking
  <1>18. CASE AfterLines
    BY <1>18 DEF AfterLines, Checking
  <1>19. CASE CheckNewlines
    BY <1>19 DEF CheckNewlines, Checking
  <1>20. CASE Error
    BY <1>20 DEF Error
  <1>21. CASE FinishFile
    BY <1>21 DEF FinishFile
  <1>22. CASE Finish
    BY <1>22 DEF Finish, Exit
  <1>23. CASE UNCHANGED vars
    BY <1>23 DEF vars, inputs, loop, lint, globals
  <1> QED
    BY <1>1, <1>2, <1>3, <1>4, <1>5, <1>6, <1>7, <1>8, <1>9, <1>10, <1>11,
       <1>12, <1>13, <1>14, <1>15, <1>16, <1>17, <1>18, <1>19, <1>20, <1>21,
       <1>22, <1>23 DEF Next

\* Between two files the filters are those of the command line again: every
\* way out of ProcessFile restores what _BackupFilters saved.
THEOREM FiltersRestored == Spec => []FiltersAsGiven
  <1>1. FiltersInv => FiltersAsGiven
    BY DEF FiltersInv, FiltersAsGiven, Kept
  <1> QED
    BY FiltersInit, FiltersStep, <1>1, PTL DEF Spec


-----------------------------------------------------------------------------
(* The counters and the exit status                                        *)

Before == {"getopt", "options"}
Quiet == Before \cup {"next", "dirs", "cfg", "read", "exited"}
CountsInv ==
  /\ pc \in Before \cup {"next", "exited"} \cup InFile
  /\ \E S : reported \in Seq(S)
  /\ pc \in Before => reported = <<>>
  /\ pc \in Quiet => found = <<>>
  /\ CountsAgree

\* Appending an error whose key is new or known changes the set of its key
\* by one index, and no other.
LEMMA OneMore ==
  ASSUME NEW S, reported \in Seq(S), NEW e, NEW k,
         reported' = Append(reported, <<fileNo, e>>), counting' = counting
  PROVE  /\ Of(k)' = IF CountKey(e.cat) = k THEN Of(k) \cup {Len(reported) + 1}
                     ELSE Of(k)
         /\ Keys' = Keys \cup {CountKey(e.cat)}
         /\ IsFiniteSet(Of(k)) /\ Len(reported) + 1 \notin Of(k)
         /\ k \notin Keys => Of(k) = {}
  <1> DEFINE r == <<fileNo, e>>
  <1>1. /\ Len(reported) \in Nat /\ DOMAIN reported = 1..Len(reported)
        /\ DOMAIN reported' = 1..(Len(reported) + 1)
        /\ \A i \in 1..Len(reported) : reported'[i] = reported[i]
        /\ reported'[Len(reported) + 1] = r
    <2>1. reported \in Seq(S \cup {r}) /\ r \in S \cup {r}
      OBVIOUS
    <2> QED
      BY <2>1
  <1>2. \A x : CountKey(x)' = CountKey(x)
    BY DEF CountKey
  <1>3. Of(k)' = {i \in DOMAIN reported' : CountKey(reported'[i][2].cat) = k}
    BY <1>2 DEF Of
  <1>4. Keys' = {CountKey(reported'[i][2].cat) : i \in DOMAIN reported'}
    BY <1>2 DEF Keys
  <1>5. r[2] = e
    OBVIOUS
  <1>6. Of(k)' = IF CountKey(e.cat) = k THEN Of(k) \cup {Len(reported) + 1}
                 ELSE Of(k)
    <2>1. \A i \in 1..Len(reported) :
            CountKey(reported'[i][2].cat) = CountKey(reported[i][2].cat)
      BY <1>1
    <2>2. CountKey(reported'[Len(reported) + 1][2].cat) = CountKey(e.cat)
      BY <1>1, <1>5
    <2>3. DOMAIN reported' = 1..Len(reported) \cup {Len(reported) + 1}
      BY <1>1
    <2> QED BY <1>1, <1>3, <2>1, <2>2, <2>3 DEF Of
  <1>7. Keys' = Keys \cup {CountKey(e.cat)}
    <2>1. \A i \in DOMAIN reported : reported'[i][2] = reported[i][2]
      BY <1>1
    <2>2. reported'[Len(reported) + 1][2] = e
      BY <1>1, <1>5
    <2>3. DOMAIN reported' = DOMAIN reported \cup {Len(reported) + 1}
      BY <1>1
    <2> QED
      BY <1>4, <2>1, <2>2, <2>3 DEF Keys
  <1>8. IsFiniteSet(Of(k)) /\ Len(reported) + 1 \notin Of(k)
    <2>1. IsFiniteSet(1..Len(reported))
      BY <1>1, FS_Interval
    <2>2. Of(k) \subseteq 1..Len(reported)
      BY <1>1 DEF Of
    <2>3. Len(reported) + 1 \notin 1..Len(reported)
      BY <1>1
    <2> QED
      BY <2>1, <2>2, <2>3, FS_Subset
  <1>9. k \notin Keys => Of(k) = {}
    BY DEF Keys, Of
  <1> QED
    BY <1>6, <1>7, <1>8, <1>9

LEMMA CountsInit == Init => CountsInv
  <1> SUFFICES ASSUME Init PROVE CountsInv
    OBVIOUS
  <1>1. reported = <<>> /\ found = <<>>
    BY DEF Init
  <1>3. Len(reported) = 0 /\ reported \in Seq({})
    BY <1>1
  <1>2. errors_by_category = NoCounts /\ ~Counting /\ error_count = 0
        /\ pc = "getopt"
    BY DEF Init, Counting
  <1> QED
    BY <1>1, <1>2, <1>3 DEF CountsInv, CountsAgree, Before

\* A step that reports nothing and counts nothing.
LEMMA CountsKept ==
  ASSUME CountsInv, UNCHANGED <<reported, error_count, errors_by_category,
                                counting>>,
         pc' \in Before => pc \in Before,
         pc' \in Quiet => found' = <<>>,
         pc' \in Before \cup {"next", "exited"} \cup InFile,
         pc' = "exited" /\ reported # <<>> => status' = 1
  PROVE  CountsInv'
  <1>1. \A k : Of(k)' = Of(k)
    BY DEF Of, CountKey
  <1>2. Keys' = Keys /\ Counting' = Counting
    BY DEF Keys, CountKey, Counting
  <1>3. errors_by_category' =
          IF Counting' THEN [k \in Keys' |-> Cardinality(Of(k)')] ELSE NoCounts
    BY <1>1, <1>2 DEF CountsInv, CountsAgree
  <1> QED
    BY <1>3 DEF CountsInv, CountsAgree, NoCounts

LEMMA CountsConfigure == CountsInv /\ Configure => CountsInv'
  <1> SUFFICES ASSUME CountsInv, Configure PROVE CountsInv'
    OBVIOUS
  <1>1. pc \in Before /\ reported = <<>> /\ reported' = reported
    BY DEF Configure, Exit, CountsInv, Before
  <1>2. CASE Signed(args.filters)
    <2>1. /\ pc' = "next" /\ error_count' = 0
          /\ errors_by_category' = NoCounts /\ found' = <<>>
      BY <1>1, <1>2 DEF Configure, CountsInv, Quiet
    <2>2. Keys' = {} /\ Len(reported') = 0 /\ reported' \in Seq({})
      BY <1>1 DEF Keys
    <2>3. errors_by_category' = IF Counting'
                                THEN [k \in Keys' |-> Cardinality(Of(k)')]
                                ELSE NoCounts
      BY <2>1, <2>2 DEF NoCounts
    <2> QED
      BY <1>1, <2>1, <2>2, <2>3 DEF CountsInv, CountsAgree, Before, NoCounts
  <1>3. CASE ~Signed(args.filters)
    BY <1>1, <1>3, CountsKept DEF Configure, Exit, lint, Before, Quiet, CountsInv
  <1> QED
    BY <1>2, <1>3

LEMMA CountsError == CountsInv /\ Error => CountsInv'
  <1> SUFFICES ASSUME CountsInv, Error PROVE CountsInv'
    OBVIOUS
  <1>1. pc' = pc /\ status' = status /\ counting' = counting
    BY DEF Error
  <1>4. pc \notin Quiet /\ pc \notin Before /\ pc # "exited"
    BY DEF Error, CountsInv, Quiet
  <1>2. CASE ~ShouldPrintError(Head(found))
    BY <1>1, <1>2, <1>4, CountsKept DEF Error, CountsInv, CountsAgree, Quiet
  <1>3. CASE ShouldPrintError(Head(found))
    <2> DEFINE e == Head(found)
               key == CountKey(e.cat)
    <2>1. /\ error_count' = error_count + 1
          /\ reported' = Append(reported, <<fileNo, e>>)
          /\ errors_by_category' = IF Counting
               THEN Increment(errors_by_category, key) ELSE errors_by_category
      BY <1>3 DEF Error
    <2>2. PICK S : reported \in Seq(S)
      BY DEF CountsInv
    <2>3. \A k : /\ Of(k)' = IF key = k THEN Of(k) \cup {Len(reported) + 1}
                             ELSE Of(k)
                 /\ Keys' = Keys \cup {key}
                 /\ IsFiniteSet(Of(k)) /\ Len(reported) + 1 \notin Of(k)
                 /\ k \notin Keys => Of(k) = {}
      BY <1>1, <2>1, <2>2, OneMore
    <2>4. \A k : Cardinality(Of(k)') = IF key = k THEN Cardinality(Of(k)) + 1
                                       ELSE Cardinality(Of(k))
      BY <2>3, FS_AddElement
    <2>5. key \notin Keys => Cardinality(Of(key)) = 0
      BY <2>3, FS_EmptySet
    <2>6. Keys' = Keys \cup {key} /\ Counting' = Counting
      BY <1>1, <2>3 DEF Counting
    <2>7. ASSUME Counting
          PROVE  errors_by_category' = [k \in Keys' |-> Cardinality(Of(k)')]
      <3>1. errors_by_category = [k \in Keys |-> Cardinality(Of(k))]
        BY <2>7 DEF CountsInv, CountsAgree
      <3>2. errors_by_category' = Increment(errors_by_category, key)
        BY <2>1, <2>7
      <3>3. CASE key \in Keys
        BY <2>4, <2>6, <3>1, <3>2, <3>3 DEF Increment
      <3>4. CASE key \notin Keys
        BY <2>4, <2>5, <2>6, <3>1, <3>2, <3>4 DEF Increment
      <3> QED
        BY <3>3, <3>4
    <2>8. ~Counting => errors_by_category' = NoCounts
      BY <2>1 DEF CountsInv, CountsAgree
    <2>9. Len(reported') = Len(reported) + 1 /\ \E T : reported' \in Seq(T)
      <3>1. reported \in Seq(S \cup {<<fileNo, e>>})
        BY <2>2
      <3>2. /\ reported' \in Seq(S \cup {<<fileNo, e>>})
            /\ Len(reported') = Len(reported) + 1
        BY <3>1, <2>1
      <3> QED
        BY <3>2
    <2>10. errors_by_category' = IF Counting'
                                 THEN [k \in Keys' |-> Cardinality(Of(k)')]
                                 ELSE NoCounts
      BY <2>6, <2>7, <2>8
    <2> QED
      BY <1>1, <1>4, <2>1, <2>9, <2>10 DEF CountsInv, CountsAgree, NoCounts
  <1> QED
    BY <1>2, <1>3

LEMMA CountsStep == CountsInv /\ [Next]_vars => CountsInv'
  <1> USE DEF lint, Before, Quiet, InFile
  <1> SUFFICES ASSUME CountsInv, [Next]_vars PROVE CountsInv'
    OBVIOUS
  <1>1. CASE GetOpt
    BY <1>1, CountsKept DEF GetOpt, Exit, CountsInv
  <1>2. CASE PrintUsage
    BY <1>2, CountsKept DEF PrintUsage, Exit, CountsInv
  <1>3. CASE ParseOption
    BY <1>3, CountsKept DEF ParseOption, CountsInv
  <1>4. CASE NoFilesGiven
    BY <1>4, CountsKept DEF NoFilesGiven, Exit, CountsInv
  <1>5. CASE StartFile
    BY <1>5, CountsKept DEF StartFile, CountsInv
  <1>6. CASE LookInDir
    BY <1>6, CountsKept DEF LookInDir, ReadingConfig, CountsInv
  <1>7. CASE ConfigLine
    BY <1>7, CountsKept DEF ConfigLine, ReadingConfig, CountsInv
  <1>8. CASE ExcludeFile
    BY <1>8, CountsKept DEF ExcludeFile, ReadingConfig, CountsInv
  <1>9. CASE ConfigEnd
    BY <1>9, CountsKept DEF ConfigEnd, ReadingConfig, CountsInv
  <1>10. CASE ApplyFilters
    BY <1>10, CountsKept DEF ApplyFilters, Exit, ReadingConfig, CountsInv
  <1>11. CASE NotRead
    BY <1>11, CountsKept DEF NotRead, CountsInv
  <1>12. CASE StartData
    BY <1>12, CountsKept DEF StartData, Checking, CountsInv
  <1>13. CASE RemoveMultiLineComments
    BY <1>13, CountsKept DEF RemoveMultiLineComments, Checking, CountsInv
  <1>14. CASE CheckForHeaderGuard
    BY <1>14, CountsKept DEF CheckForHeaderGuard, Checking, CountsInv
  <1>15. CASE CheckGuardEnd
    BY <1>15, CountsKept DEF CheckGuardEnd, Checking, CountsInv
  <1>16. CASE ProcessLine
    BY <1>16, CountsKept DEF ProcessLine, Checking, CountsInv
  <1>17. CASE AfterLines
    BY <1>17, CountsKept DEF AfterLines, Checking, CountsInv
  <1>18. CASE CheckNewlines
    BY <1>18, CountsKept DEF CheckNewlines, Checking, CountsInv
  <1>19. CASE FinishFile
    BY <1>19, CountsKept DEF FinishFile, CountsInv
  <1>20. CASE Finish
    BY <1>20, CountsKept DEF Finish, Exit, CountsInv, CountsAgree
  <1>21. CASE Configure
    BY <1>21, CountsConfigure
  <1>22. CASE Error
    BY <1>22, CountsError
  <1>23. CASE UNCHANGED vars
    BY <1>23, CountsKept DEF vars, CountsInv, CountsAgree
  <1> QED
    BY <1>1, <1>2, <1>3, <1>4, <1>5, <1>6, <1>7, <1>8, <1>9, <1>10, <1>11,
       <1>12, <1>13, <1>14, <1>15, <1>16, <1>17, <1>18, <1>19, <1>20,
       <1>21, <1>22, <1>23 DEF Next

\* The total, the counts by category and the exit status tell of the same
\* errors: a run that reported one exits with 1, and no category is counted
\* that was not reported.
THEOREM CountsTell == Spec => []CountsAgree
  <1>1. CountsInv => CountsAgree
    BY DEF CountsInv
  <1> QED
    BY CountsInit, CountsStep, <1>1, PTL DEF Spec

-----------------------------------------------------------------------------
(* Types                                                                   *)

\* The lists of several configurations in one: the recursion of FlattenSeq
\* has a solution, one list after the other.
Flattens(f, S, lists) ==
  /\ f \in [1..Len(lists) -> Seq(S)]
  /\ \A i \in 1..Len(lists) :
       f[i] = IF i = 1 THEN lists[i] ELSE f[i - 1] \o lists[i]

LEMMA FlatRun ==
  ASSUME NEW S, NEW lists \in Seq(Seq(S))
  PROVE  \E f : /\ Flattens(f, S, lists)
                /\ Flat(lists) = IF Len(lists) = 0 THEN lists ELSE f[Len(lists)]
  <1> DEFINE N == Len(lists)
             Good(f, n) ==
               /\ f \in [1..n -> Seq(S)]
               /\ \A i \in 1..n :
                    f[i] = IF i = 1 THEN lists[i] ELSE f[i - 1] \o lists[i]
             Solved == {n \in Nat : n <= N => \E f : Good(f, n)}
             flatten[i \in 1..N] ==
               IF i = 1 THEN lists[i] ELSE flatten[i - 1] \o lists[i]
  <1>1. N \in Nat /\ \A i \in 1..N : lists[i] \in Seq(S)
    BY LenProperties, ElementOfSeq
  <1> HIDE DEF N
  <1>2. 0 \in Solved
    <2>1. Good([i \in 1..0 |-> <<>>], 0)
      OBVIOUS
    <2> QED BY <2>1
  <1>3. ASSUME NEW n \in Nat, n \in Solved PROVE n + 1 \in Solved
    <2> SUFFICES ASSUME n + 1 <= N PROVE \E f : Good(f, n + 1)
      <3> HIDE DEF Good
      <3> QED OBVIOUS
    <2>1. PICK f : Good(f, n)
      BY <1>1, <1>3
    <2>2. PICK x \in Seq(S) : x = IF n + 1 = 1 THEN lists[n + 1]
                                  ELSE f[n] \o lists[n + 1]
      <3>1. lists[n + 1] \in Seq(S)
        BY <1>1
      <3>2. CASE n = 0
        BY <3>1, <3>2
      <3>3. CASE n # 0
        <4>1. f[n] \in Seq(S)
          BY <2>1, <3>3
        <4>2. f[n] \o lists[n + 1] \in Seq(S)
          BY <3>1, <4>1
        <4>3. n + 1 # 1
          BY <3>3
        <4> QED BY <4>2, <4>3
      <3> QED BY <3>2, <3>3
    <2> DEFINE g == [i \in 1..(n + 1) |-> IF i = n + 1 THEN x ELSE f[i]]
    <2>3. g \in [1..(n + 1) -> Seq(S)]
      BY <2>1
    <2>4. ASSUME NEW i \in 1..(n + 1)
          PROVE  g[i] = IF i = 1 THEN lists[i] ELSE g[i - 1] \o lists[i]
      <3>1. CASE i = n + 1
        <4>1. g[i] = x /\ (i # 1 => g[i - 1] = f[n])
          BY <3>1
        <4> QED BY <2>2, <3>1, <4>1
      <3>2. CASE i # n + 1
        <4>1. i \in 1..n /\ g[i] = f[i] /\ (i # 1 => g[i - 1] = f[i - 1])
          BY <3>2
        <4> QED BY <2>1, <4>1
      <3> QED BY <3>1, <3>2
    <2> QED BY <2>3, <2>4
  <1>4. PICK f : Good(f, N)
    <2> HIDE DEF Solved
    <2>1. N \in Solved
      BY <1>1, <1>2, <1>3, Induct
    <2> HIDE DEF Good
    <2> QED BY <1>1, <2>1 DEF Solved
  <1>5. f = [i \in 1..N |-> IF i = 1 THEN lists[i] ELSE f[i - 1] \o lists[i]]
    BY <1>4
  <1>6. flatten = [i \in 1..N |->
                     IF i = 1 THEN lists[i] ELSE flatten[i - 1] \o lists[i]]
    <2>1. flatten = CHOOSE g : g =
            [i \in 1..N |-> IF i = 1 THEN lists[i] ELSE g[i - 1] \o lists[i]]
      OBVIOUS
    <2> HIDE DEF flatten
    <2> QED BY <1>5, <2>1
  <1> HIDE DEF flatten
  <1> DEFINE Sequences_ == {n \in Nat : n + 1 <= N => flatten[n + 1] \in Seq(S)}
  <1>7. 0 \in Sequences_
    BY <1>1, <1>6
  <1>8. ASSUME NEW n \in Nat, n \in Sequences_ PROVE n + 1 \in Sequences_
    <2> SUFFICES ASSUME n + 2 <= N PROVE flatten[n + 2] \in Seq(S)
      OBVIOUS
    <2>1. n + 2 \in 1..N /\ n + 2 # 1 /\ (n + 2) - 1 = n + 1
      BY <1>1
    <2>2. flatten[n + 2] = flatten[n + 1] \o lists[n + 2]
      BY <1>6, <2>1
    <2>3. flatten[n + 1] \in Seq(S) /\ lists[n + 2] \in Seq(S)
      BY <1>1, <1>8, <2>1
    <2> QED BY <2>2, <2>3
  <1>9. flatten \in [1..N -> Seq(S)]
    <2>1. ASSUME NEW i \in 1..N PROVE flatten[i] \in Seq(S)
      <3>1. PICK n \in Nat : n + 1 = i
        BY <1>1
      <3> HIDE DEF Sequences_
      <3>2. n \in Sequences_
        BY <1>7, <1>8, Induct
      <3>4. n + 1 <= N
        BY <1>1, <3>1
      <3>3. flatten[n + 1] \in Seq(S)
        BY <3>2, <3>4 DEF Sequences_
      <3> QED BY <3>1, <3>3
    <2> QED BY <1>6, <2>1
  <1>10. Flat(lists) = IF N = 0 THEN lists ELSE flatten[N]
    BY DEF Flat, FlattenSeq, flatten, N
  <1>11. \A i \in 1..N :
           flatten[i] = IF i = 1 THEN lists[i] ELSE flatten[i - 1] \o lists[i]
    BY <1>6, Zenon
  <1>12. Flattens(flatten, S, lists)
    BY <1>9, <1>11, Zenon DEF Flattens, N
  <1> HIDE DEF N
  <1> QED BY <1>10, <1>12, Zenon DEF N

LEMMA FlatFacts ==
  ASSUME NEW S, NEW lists \in Seq(Seq(S))
  PROVE  Flat(lists) \in Seq(S)
  <1>1. PICK f : /\ Flattens(f, S, lists)
                 /\ Flat(lists) = IF Len(lists) = 0 THEN lists ELSE f[Len(lists)]
    BY FlatRun
  <1>2. Len(lists) \in Nat
    BY LenProperties
  <1>3. CASE Len(lists) = 0
    <2>1. lists \in Seq(S)
      BY <1>3
    <2> QED BY <1>1, <1>3, <2>1
  <1>4. CASE Len(lists) # 0
    <2>1. Len(lists) \in 1..Len(lists)
      BY <1>2, <1>4
    <2>2. f[Len(lists)] \in Seq(S)
      BY <1>1, <2>1, Zenon DEF Flattens
    <2> QED BY <1>1, <1>4, <2>2
  <1> QED BY <1>3, <1>4

LEMMA ReverseFacts ==
  ASSUME NEW S, NEW q \in Seq(S)
  PROVE  /\ Reverse(q) \in Seq(S) /\ Len(Reverse(q)) = Len(q)
         /\ \A i \in 1..Len(q) : Reverse(q)[i] = q[(Len(q) - i) + 1]
  <1>1. Len(q) \in Nat /\ \A i \in 1..Len(q) : q[i] \in S
    BY LenProperties, ElementOfSeq
  <1>2. \A i \in 1..Len(q) : (Len(q) - i) + 1 \in 1..Len(q)
    BY <1>1
  <1> QED BY <1>1, <1>2 DEF Reverse

LEMMA TailType ==
  ASSUME NEW S, NEW q \in Seq(S), q # <<>>
  PROVE  Head(q) \in S /\ Tail(q) \in Seq(S)
  BY HeadTailProperties

\* What each variable is, those that TypeOK does not name included.
TypeInv ==
  /\ TypeOK
  /\ cmd \in CommandLines /\ config \in [Dirs -> Configs]
  /\ args.opts \in Seq(Options) /\ args.filters \in Seq(Filter)
  /\ DOMAIN args = {"opts", "filters", "verbosity", "counting"}
  /\ files \in Seq(Names) /\ (pc \in InFile => name \in Names)
  /\ filters \in Seq(Filter) /\ filters_backup \in Seq(Filter)
  /\ over.lines \in Seq(Entries) /\ over.filters \in Seq(Seq(Filter))
  /\ over.at \in Nat \ {0} /\ DOMAIN over = {"at", "lines", "keep", "filters"}

LEMMA SettingFacts ==
  ASSUME NEW e \in Options \cup Entries
  PROVE  /\ e[1] = "linelength" /\ e[2] # BadNumber => e[2] \in Nat
         /\ e[1] = "filter" => e[2] \in Seq(Filter)
  BY SettingsAssumption DEF Setting

LEMMA Signs ==
  ASSUME NEW list \in Seq(Filter)
  PROVE  \A i \in DOMAIN list : list[i].sign \in {"+", "-", ""}
  <1>1. \A i \in DOMAIN list : list[i] \in Filter
    BY ElementOfSeq
  <1> QED BY <1>1 DEF Filter

LEMMA InitTypeInv == Init => TypeInv
  <1> SUFFICES ASSUME Init PROVE TypeInv
    OBVIOUS
  <1>1. DefaultFilters \in Seq(Filter) /\ DefaultLength \in Nat
    BY SettingsAssumption
  <1>2. /\ <<>> \in Seq(Options) /\ <<>> \in Seq(Filter) /\ <<>> \in Seq(Names)
        /\ <<>> \in Seq(Entries) /\ <<>> \in Seq(Seq(Filter))
    OBVIOUS
  <1>3. TypeOK
    BY <1>1, Signs DEF Init, TypeOK
  <1>4. /\ args.opts = <<>> /\ args.filters = <<>> /\ over.lines = <<>>
        /\ over.filters = <<>> /\ over.at = 1
        /\ DOMAIN args = {"opts", "filters", "verbosity", "counting"}
        /\ DOMAIN over = {"at", "lines", "keep", "filters"}
    BY DEF Init, NoArgs, NoOver
  <1>5. /\ cmd \in CommandLines /\ config \in [Dirs -> Configs]
        /\ files = <<>> /\ pc \notin InFile
        /\ filters = DefaultFilters /\ filters_backup = DefaultFilters
    BY DEF Init, InFile
  <1>6. over.at \in Nat \ {0}
    BY <1>4
  <1> QED BY <1>1, <1>2, <1>3, <1>4, <1>5, <1>6 DEF TypeInv

\* A step that reads neither the command line nor a configuration, and says
\* which lines are to be spared.
LEMMA TypeKept ==
  ASSUME TypeInv, UNCHANGED <<inputs, args, filters_backup, line_length, over>>,
         UNCHANGED files \/ files' \in Seq(Names),
         pc' \in InFile => name' \in Names,
         filters' \in {filters, filters_backup},
         pc' \in {"getopt", "options", "next", "exited"} \cup InFile,
         status' \in {0, 1}, fileNo' \in Nat, linenum' \in Nat,
         error_count' \in Nat,
         \A x \in error_suppressions' :
            x[1] \in ErrorCategories \cup {AllCategories} /\ x[2] \in Nat
  PROVE  TypeInv'
  <1>1. filters' \in Seq(Filter)
    BY DEF TypeInv
  <1>2. \A i \in DOMAIN filters' : filters'[i].sign \in {"+", "-", ""}
    BY <1>1, Signs
  <1>3. TypeOK'
    BY <1>2 DEF TypeInv, TypeOK, InFile
  <1> QED BY <1>1, <1>3 DEF TypeInv, inputs

LEMMA NolintFacts ==
  ASSUME TypeInv, pc \in InFile, NEW n, NEW x \in ParsedNolint(n)
  PROVE  x[1] \in ErrorCategories \cup {AllCategories} /\ x[2] \in Nat
  <1>1. Lines \in Seq(ToSet(Lines))
    BY FilesAssumption DEF TypeInv, Lines
  <1>2. Marked(n) /\ Nolint(n).cat \in ErrorCategories \cup {AllCategories}
        /\ x = <<Nolint(n).cat, IF Nolint(n).next THEN n + 1 ELSE n>>
    BY DEF ParsedNolint, Target
  <1>3. n \in Nat
    BY <1>1, <1>2, LenProperties DEF Marked
  <1> QED BY <1>2, <1>3

LEMMA ConfigureTypes ==
  ASSUME TypeInv, Configure
  PROVE  TypeInv'
  <1>1. filters' = DefaultFilters \o args.filters /\ pc = "options"
    BY DEF Configure
  <1>2. filters' \in Seq(Filter)
    BY <1>1, SettingsAssumption, ConcatProperties DEF TypeInv
  <1>3. cmd.files \in Seq(Names)
    BY SettingsAssumption DEF TypeInv
  <1>4. \A i \in DOMAIN filters' : filters'[i].sign \in {"+", "-", ""}
    BY <1>2, Signs
  <1>5. CASE Signed(args.filters)
    <2>0. /\ pc' = "next" /\ error_count' = 0
          /\ UNCHANGED <<status, fileNo, linenum, line_length,
                         error_suppressions>>
      BY <1>5 DEF Configure, globals
    <2>1. TypeOK'
      BY <1>4, <2>0 DEF TypeInv, TypeOK
    <2> QED BY <1>2, <1>3, <1>5, <2>1
        DEF Configure, TypeInv, inputs, InFile, globals, loop
  <1>6. CASE ~Signed(args.filters)
    <2>1. TypeOK'
      BY <1>4, <1>6 DEF Configure, Exit, TypeInv, TypeOK, globals, loop, lint
    <2> QED BY <1>2, <1>3, <1>6, <2>1
        DEF Configure, Exit, TypeInv, inputs, InFile, globals, loop
  <1> QED BY <1>5, <1>6

LEMMA OptionTypes ==
  ASSUME TypeInv, GetOpt \/ ParseOption
  PROVE  TypeInv'
  <1>1. CASE GetOpt
    <2>1. cmd.opts \in Seq(Options)
      BY SettingsAssumption DEF TypeInv
    <2>2. CASE \A i \in DOMAIN cmd.opts : cmd.opts[i][1] \in Known
      <3>1. args' = [args EXCEPT !.opts = cmd.opts]
        BY <1>1, <2>2 DEF GetOpt
      <3>2. args'.opts = cmd.opts /\ args'.filters = args.filters
            /\ DOMAIN args' = DOMAIN args
        BY <3>1 DEF TypeInv
      <3>3. TypeOK'
        BY <1>1, <2>2 DEF GetOpt, TypeInv, TypeOK, globals, loop, lint
      <3> QED BY <1>1, <2>1, <2>2, <3>2, <3>3
          DEF GetOpt, TypeInv, inputs, InFile, globals, loop
    <2>3. CASE ~\A i \in DOMAIN cmd.opts : cmd.opts[i][1] \in Known
      <3>1. TypeOK'
        BY <1>1, <2>3 DEF GetOpt, Exit, TypeInv, TypeOK, globals, loop, lint
      <3> QED BY <1>1, <2>3, <3>1
          DEF GetOpt, Exit, TypeInv, inputs, InFile, globals, loop
    <2> QED BY <2>2, <2>3
  <1>2. CASE ParseOption
    <2>1. Opt \in Options /\ Tail(args.opts) \in Seq(Options)
      BY <1>2, TailType DEF ParseOption, TypeInv, Opt
    <2>2. /\ args'.opts = Tail(args.opts)
          /\ args'.filters = IF Opt[1] = "filter" THEN Opt[2] ELSE args.filters
          /\ DOMAIN args' = DOMAIN args
      BY <1>2 DEF ParseOption, TypeInv
    <2>3. args'.filters \in Seq(Filter)
      BY <2>1, <2>2, SettingFacts DEF TypeInv
    <2>4. line_length' \in Nat
      BY <1>2, <2>1, SettingFacts DEF ParseOption, Refused, TypeInv, TypeOK
    <2>5. TypeOK'
      BY <1>2, <2>4 DEF ParseOption, TypeInv, TypeOK, loop, lint
    <2> QED BY <1>2, <2>1, <2>2, <2>3, <2>5
        DEF ParseOption, TypeInv, inputs, InFile, loop
  <1> QED BY <1>1, <1>2

\* The lists that ProcessConfigOverrides has gathered.
LEMMA ConfigTypes ==
  ASSUME TypeInv, LookInDir \/ ConfigLine \/ ExcludeFile \/ ConfigEnd
  PROVE  TypeInv'
  <1> USE DEF ReadingConfig, inputs, loop, lint, InFile
  <1>0. /\ pc \in {"dirs", "cfg"} /\ pc' \in {"dirs", "cfg", "next"}
        /\ name \in Names
    BY DEF LookInDir, ConfigLine, ExcludeFile, ConfigEnd, TypeInv
  <1>1. SUFFICES /\ over'.lines \in Seq(Entries)
                 /\ over'.filters \in Seq(Seq(Filter))
                 /\ over'.at \in Nat \ {0} /\ DOMAIN over' = DOMAIN over
                 /\ line_length' \in Nat /\ filters' \in {filters, filters_backup}
                 /\ ReadingConfig
    <2>1. filters' \in Seq(Filter)
      BY <1>1 DEF TypeInv
    <2>2. \A i \in DOMAIN filters' : filters'[i].sign \in {"+", "-", ""}
      BY <2>1, Signs
    <2>3. TypeOK'
      BY <1>0, <1>1, <2>2 DEF TypeInv, TypeOK
    <2> QED BY <1>0, <1>1, <2>1, <2>3 DEF TypeInv
  <1>2. CASE LookInDir
    <2> DEFINE c == config[Chain[name][over.at]]
    <2>1. Chain[name][over.at] \in Dirs
      <3>1. Chain[name] \in Seq(Dirs)
        BY <1>0, FilesAssumption
      <3>2. over.at \in 1..Len(Chain[name])
        BY <1>2, <3>1, LenProperties DEF LookInDir, TypeInv
      <3> QED BY <3>1, <3>2, ElementOfSeq
    <2>2. c \in Configs
      BY <2>1 DEF TypeInv
    <2>3. /\ over' = [over EXCEPT !.keep = c # Unreadable,
                        !.lines = IF c \in {NoFile, Unreadable} THEN <<>> ELSE c,
                        !.at = IF c \in {NoFile, Unreadable} THEN @ + 1 ELSE @]
          /\ UNCHANGED <<filters, line_length>> /\ ReadingConfig
      BY <1>2 DEF LookInDir
    <2> HIDE DEF c
    <2>4. /\ over'.lines = IF c \in {NoFile, Unreadable} THEN <<>> ELSE c
          /\ over'.at \in {over.at, over.at + 1}
          /\ over'.filters = over.filters /\ DOMAIN over' = DOMAIN over
      BY <2>3 DEF TypeInv
    <2>5. over'.lines \in Seq(Entries)
      <3>1. c \notin {NoFile, Unreadable} => c \in Seq(Entries)
        BY <2>2, SettingsAssumption
      <3>2. <<>> \in Seq(Entries)
        OBVIOUS
      <3> QED BY <2>4, <3>1, <3>2
    <2>6. over'.at \in Nat \ {0}
      <3>1. over.at \in Nat \ {0} /\ over.at + 1 \in Nat \ {0}
        BY DEF TypeInv
      <3> QED BY <2>4, <3>1
    <2>7. line_length' \in Nat
      BY <2>3 DEF TypeInv, TypeOK
    <2> QED BY <2>3, <2>4, <2>5, <2>6, <2>7 DEF TypeInv
  <1>3. CASE ConfigLine
    <2>1. Entry \in Entries /\ Tail(over.lines) \in Seq(Entries)
      BY <1>3, TailType DEF ConfigLine, TypeInv, Entry
    <2>2. /\ over'.lines = Tail(over.lines) /\ over'.at = over.at
          /\ over'.filters = IF Entry[1] = "filter"
                             THEN Append(over.filters, Entry[2])
                             ELSE over.filters
          /\ DOMAIN over' = DOMAIN over
      BY <1>3 DEF ConfigLine, TypeInv
    <2>3. over'.filters \in Seq(Seq(Filter))
      <3>1. CASE Entry[1] = "filter"
        <4>1. Entry[2] \in Seq(Filter)
          BY <2>1, <3>1, SettingFacts
        <4> QED BY <2>2, <3>1, <4>1, AppendProperties DEF TypeInv
      <3>2. CASE Entry[1] # "filter"
        BY <2>2, <3>2 DEF TypeInv
      <3> QED BY <3>1, <3>2
    <2>4. line_length' \in Nat
      BY <1>3, <2>1, SettingFacts DEF ConfigLine, TypeInv, TypeOK
    <2> QED BY <1>3, <2>1, <2>2, <2>3, <2>4 DEF ConfigLine, TypeInv
  <1>4. CASE ExcludeFile
    BY <1>4 DEF ExcludeFile, TypeInv, TypeOK
  <1>5. CASE ConfigEnd
    <2>1. /\ over'.at = over.at + 1 /\ over'.lines = over.lines
          /\ over'.filters = over.filters /\ DOMAIN over' = DOMAIN over
      BY <1>5 DEF ConfigEnd, TypeInv
    <2>2. over.at \in Nat \ {0} /\ over.at + 1 \in Nat \ {0}
      BY DEF TypeInv
    <2>3. line_length' \in Nat /\ filters' = filters /\ ReadingConfig
      BY <1>5 DEF ConfigEnd, TypeInv, TypeOK
    <2> QED BY <2>1, <2>2, <2>3 DEF TypeInv
  <1> QED BY <1>2, <1>3, <1>4, <1>5

LEMMA ApplyTypes ==
  ASSUME TypeInv, ApplyFilters
  PROVE  TypeInv'
  <1> USE DEF ReadingConfig, inputs, loop, lint, globals, InFile
  <1>1. pc = "dirs" /\ filters' = filters \o Flat(Reverse(over.filters))
    BY DEF ApplyFilters
  <1>2. PICK more \in Seq(Filter) : more = Flat(Reverse(over.filters))
    <2>1. Reverse(over.filters) \in Seq(Seq(Filter))
      BY ReverseFacts DEF TypeInv
    <2> QED BY <2>1, FlatFacts
  <1>3. filters' \in Seq(Filter)
    BY <1>1, <1>2, ConcatProperties DEF TypeInv
  <1>4. \A i \in DOMAIN filters' : filters'[i].sign \in {"+", "-", ""}
    BY <1>3, Signs
  <1>5. /\ pc' \in {"read", "exited"} /\ status' \in {status, 1}
        /\ UNCHANGED <<inputs, args, loop, filters_backup, lint, line_length,
                       error_suppressions, over, linenum>>
    BY DEF ApplyFilters, Exit
  <1>6. TypeOK'
    BY <1>4, <1>5 DEF TypeInv, TypeOK
  <1> QED BY <1>1, <1>3, <1>5, <1>6 DEF TypeInv

LEMMA StartFileTypes ==
  ASSUME TypeInv, StartFile
  PROVE  TypeInv'
  <1>1. name' \in Names /\ files' \in Seq(Names)
    BY TailType DEF StartFile, TypeInv
  <1>2. /\ over'.lines = <<>> /\ over'.filters = <<>> /\ over'.at = 1
        /\ DOMAIN over' = {"at", "lines", "keep", "filters"}
    BY DEF StartFile, NoOver
  <1>3. <<>> \in Seq(Entries) /\ <<>> \in Seq(Seq(Filter))
    OBVIOUS
  <1>6. fileNo \in Nat /\ fileNo + 1 \in Nat
    <2>1. fileNo \in Nat
      BY DEF TypeInv, TypeOK
    <2> QED BY <2>1
  <1>4. /\ pc' = "dirs" /\ fileNo' = fileNo + 1
        /\ UNCHANGED <<status, linenum, line_length, error_count, filters,
                       error_suppressions>>
    BY DEF StartFile, lint, globals
  <1>5. TypeOK'
    BY <1>4, <1>6 DEF TypeInv, TypeOK
  <1> QED BY <1>1, <1>2, <1>3, <1>5 DEF StartFile, TypeInv, inputs

LEMMA TypeStep == TypeInv /\ [Next]_vars => TypeInv'
  <1> USE DEF inputs, loop, lint, globals, InFile
  <1> SUFFICES ASSUME TypeInv, [Next]_vars PROVE TypeInv'
    OBVIOUS
  <1>0. /\ status \in {0, 1} /\ fileNo \in Nat /\ linenum \in Nat
        /\ error_count \in Nat
        /\ \A x \in error_suppressions :
             x[1] \in ErrorCategories \cup {AllCategories} /\ x[2] \in Nat
        /\ pc \in {"getopt", "options", "next", "exited"} \cup InFile
        /\ pc \in InFile => name \in Names
    BY DEF TypeInv, TypeOK
  <1>1. CASE GetOpt \/ ParseOption
    BY <1>1, OptionTypes
  <1>2. CASE PrintUsage
    BY <1>0, <1>2, TypeKept DEF PrintUsage, Exit
  <1>4. CASE NoFilesGiven
    BY <1>0, <1>4, TypeKept DEF NoFilesGiven, Exit
  <1>5. CASE Configure
    BY <1>5, ConfigureTypes
  <1>6. CASE StartFile
    BY <1>6, StartFileTypes
  <1>7. CASE LookInDir \/ ConfigLine \/ ExcludeFile \/ ConfigEnd
    BY <1>7, ConfigTypes
  <1>11. CASE ApplyFilters
    BY <1>11, ApplyTypes
  <1>12. CASE NotRead
    BY <1>0, <1>12, TypeKept DEF NotRead
  <1>13. CASE StartData
    BY <1>0, <1>13, TypeKept DEF StartData, Checking
  <1>14. CASE RemoveMultiLineComments
    BY <1>0, <1>14, TypeKept DEF RemoveMultiLineComments, Checking
  <1>15. CASE CheckForHeaderGuard
    BY <1>0, <1>15, NolintFacts, TypeKept DEF CheckForHeaderGuard, Checking
  <1>16. CASE CheckGuardEnd
    BY <1>0, <1>16, NolintFacts, TypeKept DEF CheckGuardEnd, Checking
  <1>17. CASE ProcessLine
    BY <1>0, <1>17, NolintFacts, TypeKept DEF ProcessLine, Checking
  <1>18. CASE AfterLines
    BY <1>0, <1>18, TypeKept DEF AfterLines, Checking
  <1>19. CASE CheckNewlines
    BY <1>0, <1>19, TypeKept DEF CheckNewlines, Checking
  <1>20. CASE Error
    BY <1>0, <1>20, TypeKept DEF Error
  <1>21. CASE FinishFile
    BY <1>0, <1>21, TypeKept DEF FinishFile
  <1>22. CASE Finish
    BY <1>0, <1>22, TypeKept DEF Finish, Exit
  <1>23. CASE UNCHANGED vars
    BY <1>0, <1>23, TypeKept DEF vars
  <1> QED
    BY <1>1, <1>2, <1>4, <1>5, <1>6, <1>7, <1>11, <1>12, <1>13, <1>14, <1>15,
       <1>16, <1>17, <1>18, <1>19, <1>20, <1>21, <1>22, <1>23 DEF Next

\* Every variable of the run keeps its type: filters gathered from the command
\* line and any number of configurations are filters, the line length stays a
\* number whatever a CPPLINT.cfg puts in its place, and only known categories
\* are ever suppressed.
THEOREM TypeCorrect == Spec => []TypeOK
  <1>1. TypeInv => TypeOK
    BY DEF TypeInv
  <1> QED
    BY InitTypeInv, TypeStep, <1>1, PTL DEF Spec

-----------------------------------------------------------------------------
(* Filters                                                                 *)

Signs_ == {"+", "-", ""}

\* The sign of the last filter up to k that matches.
Sign(f, list, cat) ==
  /\ f \in [0..Len(list) -> Signs_] /\ f[0] = "+"
  /\ \A k \in 1..Len(list) :
       f[k] = IF Begins(cat, list[k].prefix) THEN list[k].sign ELSE f[k - 1]

LEMMA FilteredRun ==
  ASSUME NEW list \in Seq(Filter), NEW cat
  PROVE  \E f : Sign(f, list, cat) /\ (Filtered(list, cat) <=> f[Len(list)] = "-")
  <1> DEFINE N == Len(list)
             Step == [k \in 1..N |-> [q \in Signs_ |->
                        IF Begins(cat, list[k].prefix) THEN list[k].sign ELSE q]]
             sign[i \in 0..N] == IF i = 0 THEN "+"
                                 ELSE IF Begins(cat, list[i].prefix)
                                 THEN list[i].sign ELSE sign[i - 1]
  <1>1. N \in Nat /\ \A k \in 1..N : list[k].sign \in Signs_
    <2>1. \A k \in 1..N : list[k] \in Filter
      BY ElementOfSeq, LenProperties
    <2>2. \A x \in Filter : x.sign \in Signs_
      BY DEF Filter, Signs_
    <2> QED BY <2>1, <2>2, LenProperties
  <1>0. "+" \in Signs_
    BY Zenon DEF Signs_
  <1> HIDE DEF N
  <1>2. Step \in [(0 + 1)..N -> [Signs_ -> Signs_]]
    BY <1>1
  <1>3. \A k \in 1..N : \A q \in Signs_ :
          Step[k][q] = IF Begins(cat, list[k].prefix) THEN list[k].sign ELSE q
    OBVIOUS
  <1> HIDE DEF Step
  <1>4. PICK f : /\ f \in [0..N -> Signs_] /\ f[0] = "+"
                 /\ \A k \in 1..N : f[k] = Step[k][f[k - 1]]
    <2>1. 0 \in Nat /\ 0 <= N
      BY <1>1
    <2>2. PICK f : Runs(f, Signs_, "+", Step, 0, N)
      BY <1>0, <1>1, <1>2, <2>1, RunExists, Zenon
    <2>3. \A k \in (0 + 1)..N : f[k] = Step[k][f[k - 1]]
      BY <2>2, Zenon DEF Runs, Follows
    <2>4. \A k \in 1..N : f[k] = Step[k][f[k - 1]]
      BY <2>3
    <2> QED BY <2>2, <2>4, Zenon DEF Runs
  <1>5. \A k \in 1..N :
          f[k] = IF Begins(cat, list[k].prefix) THEN list[k].sign ELSE f[k - 1]
    <2>1. \A k \in 1..N : f[k - 1] \in Signs_
      BY <1>1, <1>4
    <2> QED BY <1>3, <1>4, <2>1
  <1>6. f = [i \in 0..N |-> IF i = 0 THEN "+"
                            ELSE IF Begins(cat, list[i].prefix)
                            THEN list[i].sign ELSE f[i - 1]]
    <2>1. ASSUME NEW i \in 0..N
          PROVE  f[i] = IF i = 0 THEN "+"
                        ELSE IF Begins(cat, list[i].prefix)
                        THEN list[i].sign ELSE f[i - 1]
      <3>1. i = 0 \/ (i # 0 /\ i \in 1..N)
        BY <1>1
      <3> QED BY <1>4, <1>5, <3>1, Zenon
    <2> QED BY <1>4, <2>1
  <1>7. sign = [i \in 0..N |-> IF i = 0 THEN "+"
                               ELSE IF Begins(cat, list[i].prefix)
                               THEN list[i].sign ELSE sign[i - 1]]
    <2>1. sign = CHOOSE g : g = [i \in 0..N |->
                   IF i = 0 THEN "+" ELSE IF Begins(cat, list[i].prefix)
                   THEN list[i].sign ELSE g[i - 1]]
      OBVIOUS
    <2> HIDE DEF sign
    <2> QED BY <1>6, <2>1
  <1>8. Filtered(list, cat) <=> sign[N] = "-"
    BY DEF Filtered, N
  <1> HIDE DEF sign
  <1>9. sign \in [0..N -> Signs_] /\ sign[0] = "+"
        /\ \A k \in 1..N :
             sign[k] = IF Begins(cat, list[k].prefix) THEN list[k].sign
                       ELSE sign[k - 1]
    <2>1. \A k \in 0..N : sign[k] = IF k = 0 THEN "+"
                                    ELSE IF Begins(cat, list[k].prefix)
                                    THEN list[k].sign ELSE sign[k - 1]
      BY <1>7, Zenon
    <2>2. \A k \in 1..N : k \in 0..N /\ k # 0
      BY <1>1
    <2>3. \A k \in 1..N :
            sign[k] = IF Begins(cat, list[k].prefix) THEN list[k].sign
                      ELSE sign[k - 1]
      BY <2>1, <2>2, Zenon
    <2>4. sign[0] = "+"
      BY <1>1, <2>1
    <2> DEFINE Typed == {k \in Nat : k <= N => sign[k] \in Signs_}
    <2>5. 0 \in Typed
      BY <1>0, <2>4
    <2>6. ASSUME NEW k \in Nat, k \in Typed PROVE k + 1 \in Typed
      <3> SUFFICES ASSUME k + 1 <= N PROVE sign[k + 1] \in Signs_
        OBVIOUS
      <3>1. k + 1 \in 1..N /\ (k + 1) - 1 = k
        BY <1>1
      <3>2. sign[k] \in Signs_
        BY <1>1, <2>6
      <3>3. sign[k + 1] = IF Begins(cat, list[k + 1].prefix)
                          THEN list[k + 1].sign ELSE sign[k]
        BY <2>3, <3>1
      <3> QED BY <1>1, <3>1, <3>2, <3>3
    <2> HIDE DEF Typed
    <2>7. Nat \subseteq Typed
      BY <2>5, <2>6, Induct
    <2>8. \A k \in 0..N : sign[k] \in Signs_
      BY <1>1, <2>7 DEF Typed
    <2>9. sign \in [0..N -> Signs_]
      BY <1>7, <2>8
    <2> QED BY <2>3, <2>4, <2>9
  <1>10. Sign(sign, list, cat)
    BY <1>9 DEF Sign, N
  <1> QED BY <1>8, <1>10 DEF N

\* The loop of _ShouldPrintError finds the last match.
LEMMA FilteredLast ==
  ASSUME NEW list \in Seq(Filter), NEW cat
  PROVE  Filtered(list, cat) <=> TurnsOff(list, cat)
  <1>1. PICK f : /\ Sign(f, list, cat)
                 /\ Filtered(list, cat) <=> f[Len(list)] = "-"
    BY FilteredRun
  <1>2. PICK N \in Nat : N = Len(list) /\ DOMAIN list = 1..N
    BY LenProperties
  <1> DEFINE Off(k) ==
               \E i \in 1..k : /\ Begins(cat, list[i].prefix) /\ list[i].sign = "-"
                               /\ \A j \in 1..k : Begins(cat, list[j].prefix) => j <= i
             Right == {k \in Nat : k <= N => (f[k] = "-" <=> Off(k))}
  <1>3. 0 \in Right
    BY <1>1 DEF Sign
  <1>4. ASSUME NEW k \in Nat, k \in Right PROVE k + 1 \in Right
    <2> SUFFICES ASSUME k + 1 <= N PROVE f[k + 1] = "-" <=> Off(k + 1)
      OBVIOUS
    <2>1. f[k] = "-" <=> Off(k)
      BY <1>4
    <2>2. f[k + 1] = IF Begins(cat, list[k + 1].prefix) THEN list[k + 1].sign
                     ELSE f[k]
      <3>1. k + 1 \in 1..Len(list) /\ (k + 1) - 1 = k
        BY <1>2
      <3> QED BY <1>1, <3>1 DEF Sign
    <2>3. CASE Begins(cat, list[k + 1].prefix)
      <3>1. f[k + 1] = list[k + 1].sign
        BY <2>2, <2>3
      <3>2. Off(k + 1) <=> list[k + 1].sign = "-"
        <4>1. ASSUME Off(k + 1) PROVE list[k + 1].sign = "-"
          <5>1. PICK i \in 1..(k + 1) :
                  /\ list[i].sign = "-"
                  /\ \A j \in 1..(k + 1) : Begins(cat, list[j].prefix) => j <= i
            BY <4>1
          <5>2. k + 1 <= i
            BY <2>3, <5>1
          <5> QED BY <5>1, <5>2
        <4>2. ASSUME list[k + 1].sign = "-" PROVE Off(k + 1)
          <5>1. k + 1 \in 1..(k + 1) /\ \A j \in 1..(k + 1) : j <= k + 1
            OBVIOUS
          <5> QED BY <2>3, <4>2, <5>1
        <4> QED BY <4>1, <4>2
      <3> QED BY <3>1, <3>2
    <2>4. CASE ~Begins(cat, list[k + 1].prefix)
      <3>1. f[k + 1] = f[k]
        BY <2>2, <2>4
      <3>2. \A i \in 1..(k + 1) : Begins(cat, list[i].prefix) => i \in 1..k
        BY <2>4
      <3>3. \A i \in 1..k : i \in 1..(k + 1)
        OBVIOUS
      <3>4. Off(k + 1) <=> Off(k)
        BY <3>2, <3>3, Zenon
      <3> QED BY <2>1, <3>1, <3>4
    <2> QED BY <2>3, <2>4
  <1> HIDE DEF Right, Off
  <1>5. Nat \subseteq Right
    BY <1>3, <1>4, Induct
  <1>6. f[N] = "-" <=> Off(N)
    BY <1>2, <1>5 DEF Right
  <1>7. Hits(list, cat) = {i \in 1..N : Begins(cat, list[i].prefix)}
    BY <1>2 DEF Hits
  <1>8. Off(N) <=> TurnsOff(list, cat)
    BY <1>7 DEF Off, TurnsOff
  <1> QED BY <1>1, <1>2, <1>6, <1>8

\* Of two lists, one after the other, the second comes first.
LEMMA JoinedTurns ==
  ASSUME NEW A \in Seq(Filter), NEW B \in Seq(Filter), NEW cat
  PROVE  /\ Hits(A \o B, cat) = {} <=> Hits(A, cat) = {} /\ Hits(B, cat) = {}
         /\ TurnsOff(A \o B, cat) <=>
              IF Hits(B, cat) # {} THEN TurnsOff(B, cat) ELSE TurnsOff(A, cat)
  <1>1. PICK a \in Nat, b \in Nat, c \in Nat :
          /\ a = Len(A) /\ DOMAIN A = 1..a /\ b = Len(B) /\ DOMAIN B = 1..b
          /\ c = a + b /\ c = Len(A \o B) /\ DOMAIN (A \o B) = 1..c
    BY LenProperties, ConcatProperties
  <1>2. /\ \A i \in 1..a : (A \o B)[i] = A[i] /\ i \in 1..c
        /\ \A i \in 1..b : (A \o B)[a + i] = B[i] /\ a + i \in 1..c
    BY <1>1, ConcatProperties
  <1>3. \A k \in 1..c : k \in 1..a \/ (k - a \in 1..b /\ a + (k - a) = k)
    BY <1>1
  <1> DEFINE C == A \o B
             Match(q, i) == Begins(cat, q[i].prefix)
             Minus(q, i) == q[i].sign = "-"
  <1>4. /\ Hits(A, cat) = {i \in 1..a : Match(A, i)}
        /\ Hits(B, cat) = {i \in 1..b : Match(B, i)}
        /\ Hits(C, cat) = {i \in 1..c : Match(C, i)}
    BY <1>1 DEF Hits
  <1>5. /\ TurnsOff(A, cat) <=> \E i \in Hits(A, cat) :
             Minus(A, i) /\ \A j \in Hits(A, cat) : j <= i
        /\ TurnsOff(B, cat) <=> \E i \in Hits(B, cat) :
             Minus(B, i) /\ \A j \in Hits(B, cat) : j <= i
        /\ TurnsOff(C, cat) <=> \E i \in Hits(C, cat) :
             Minus(C, i) /\ \A j \in Hits(C, cat) : j <= i
    BY DEF TurnsOff
  <1>6. /\ \A i \in 1..a : (Match(C, i) <=> Match(A, i)) /\ (Minus(C, i) <=> Minus(A, i))
        /\ \A i \in 1..b : /\ Match(C, a + i) <=> Match(B, i)
                           /\ Minus(C, a + i) <=> Minus(B, i)
    BY <1>2
  <1> HIDE DEF C, Match, Minus
  <1>7. Hits(C, cat) = {} <=> Hits(A, cat) = {} /\ Hits(B, cat) = {}
    <2>1. /\ \A i \in Hits(A, cat) : i \in Hits(C, cat)
          /\ \A i \in Hits(B, cat) : a + i \in Hits(C, cat)
      BY <1>2, <1>4, <1>6
    <2>2. \A k \in Hits(C, cat) : k \in Hits(A, cat) \/ k - a \in Hits(B, cat)
      <3>1. \A i \in 1..b : \A k : a + i = k => (Match(C, k) <=> Match(B, i))
        BY <1>6
      <3> QED BY <1>3, <1>4, <1>6, <3>1
    <2> QED BY <2>1, <2>2
  <1>8. ASSUME Hits(B, cat) # {}
        PROVE  TurnsOff(C, cat) <=> TurnsOff(B, cat)
    <2>0. PICK h \in 1..b : h \in Hits(B, cat)
      BY <1>4, <1>8
    <2>1. ASSUME TurnsOff(C, cat) PROVE TurnsOff(B, cat)
      <3>1. PICK i \in Hits(C, cat) :
              Minus(C, i) /\ \A j \in Hits(C, cat) : j <= i
        BY <1>5, <2>1
      <3>2. a + h \in Hits(C, cat)
        BY <1>2, <1>4, <1>6, <2>0
      <3>3. i \in 1..c /\ a + h <= i /\ Match(C, i)
        BY <1>4, <3>1, <3>2
      <3>4. i - a \in 1..b /\ a + (i - a) = i
        BY <1>1, <1>3, <3>3
      <3>5. i - a \in Hits(B, cat) /\ Minus(B, i - a)
        BY <1>4, <1>6, <3>1, <3>3, <3>4
      <3>6. ASSUME NEW j \in Hits(B, cat) PROVE j <= i - a
        <4>1. j \in 1..b /\ a + j \in Hits(C, cat)
          BY <1>2, <1>4, <1>6
        <4>2. a + j <= i
          BY <3>1, <4>1
        <4> QED BY <1>1, <3>3, <4>1, <4>2
      <3> QED BY <1>5, <3>5, <3>6
    <2>2. ASSUME TurnsOff(B, cat) PROVE TurnsOff(C, cat)
      <3>1. PICK i \in Hits(B, cat) :
              Minus(B, i) /\ \A j \in Hits(B, cat) : j <= i
        BY <1>5, <2>2
      <3>2. i \in 1..b /\ a + i \in Hits(C, cat) /\ Minus(C, a + i)
        BY <1>2, <1>4, <1>6, <3>1
      <3>3. ASSUME NEW j \in Hits(C, cat) PROVE j <= a + i
        <4>1. j \in 1..c /\ Match(C, j)
          BY <1>4
        <4>2. CASE j \in 1..a
          BY <1>1, <3>2, <4>2
        <4>3. CASE j - a \in 1..b /\ a + (j - a) = j
          <5>1. j - a \in Hits(B, cat)
            BY <1>4, <1>6, <4>1, <4>3
          <5>2. j - a <= i
            BY <3>1, <5>1
          <5> QED BY <1>1, <3>2, <4>1, <5>2
        <4> QED BY <1>3, <4>1, <4>2, <4>3
      <3> QED BY <1>5, <3>2, <3>3
    <2> QED BY <2>1, <2>2
  <1>9. ASSUME Hits(B, cat) = {}
        PROVE  TurnsOff(C, cat) <=> TurnsOff(A, cat)
    <2>1. Hits(C, cat) = Hits(A, cat)
      <3>1. \A i \in Hits(A, cat) : i \in Hits(C, cat)
        BY <1>2, <1>4, <1>6
      <3>2. \A k \in Hits(C, cat) : k \in Hits(A, cat) \/ k - a \in Hits(B, cat)
        BY <1>3, <1>4, <1>6
      <3> QED BY <1>9, <3>1, <3>2
    <2>2. \A i \in Hits(A, cat) : Minus(C, i) <=> Minus(A, i)
      BY <1>4, <1>6
    <2> QED BY <1>5, <2>1, <2>2, Zenon
  <1> QED BY <1>7, <1>8, <1>9, Zenon DEF C

\* Of many lists, the last that has a match decides.
Deciding(lists, cat, n) ==
  /\ n \in 1..Len(lists) /\ Hits(lists[n], cat) # {}
  /\ \A m \in 1..Len(lists) : Hits(lists[m], cat) # {} => m <= n

LEMMA FlatTurns ==
  ASSUME NEW lists \in Seq(Seq(Filter)), NEW cat
  PROVE  /\ (\A n \in 1..Len(lists) : Hits(lists[n], cat) = {}) =>
              Hits(Flat(lists), cat) = {}
         /\ \A n : Deciding(lists, cat, n) =>
              /\ Hits(Flat(lists), cat) # {}
              /\ TurnsOff(Flat(lists), cat) <=> TurnsOff(lists[n], cat)
  <1>1. PICK f : /\ Flattens(f, Filter, lists)
                 /\ Flat(lists) = IF Len(lists) = 0 THEN lists ELSE f[Len(lists)]
    BY FlatRun
  <1>2. PICK N \in Nat : N = Len(lists)
    BY LenProperties
  <1>3. \A i \in 1..N : lists[i] \in Seq(Filter) /\ f[i] \in Seq(Filter)
    BY <1>1, <1>2, ElementOfSeq DEF Flattens
  <1> DEFINE No(k) == \A n \in 1..k : Hits(lists[n], cat) = {}
             Decider(k, n) == /\ n \in 1..k /\ Hits(lists[n], cat) # {}
                              /\ \A m \in 1..k : Hits(lists[m], cat) # {} => m <= n
             Right(k) ==
               /\ No(k) => Hits(f[k], cat) = {}
               /\ \A n : Decider(k, n) =>
                    /\ Hits(f[k], cat) # {}
                    /\ TurnsOff(f[k], cat) <=> TurnsOff(lists[n], cat)
             All == {k \in Nat : k + 1 <= N => Right(k + 1)}
  <1>4. 0 \in All
    <2> SUFFICES ASSUME 1 <= N PROVE Right(1)
      <3> HIDE DEF Right
      <3> QED OBVIOUS
    <2>0. 1 \in 1..Len(lists)
      BY <1>2
    <2>1. f[1] = lists[1]
      BY <1>1, <2>0 DEF Flattens
    <2> QED BY <2>1
  <1>5. ASSUME NEW k \in Nat, k \in All PROVE k + 1 \in All
    <2> SUFFICES ASSUME k + 2 <= N PROVE Right(k + 2)
      <3> HIDE DEF Right
      <3> QED OBVIOUS
    <2>1. PICK j \in Nat : j = k + 1 /\ j + 1 = k + 2 /\ j \in 1..N /\ j + 1 \in 1..N
                           /\ j + 1 # 1 /\ (j + 1) - 1 = j
      BY <1>2
    <2>2. Right(j)
      <3> HIDE DEF Right
      <3> QED BY <1>5, <2>1
    <2>3. f[j + 1] = f[j] \o lists[j + 1]
      BY <1>1, <1>2, <2>1 DEF Flattens
    <2>4. /\ Hits(f[j + 1], cat) = {} <=>
               Hits(f[j], cat) = {} /\ Hits(lists[j + 1], cat) = {}
          /\ TurnsOff(f[j + 1], cat) <=>
               IF Hits(lists[j + 1], cat) # {} THEN TurnsOff(lists[j + 1], cat)
               ELSE TurnsOff(f[j], cat)
      <3>1. f[j] \in Seq(Filter) /\ lists[j + 1] \in Seq(Filter)
        BY <1>3, <2>1
      <3>2. /\ Hits(f[j] \o lists[j + 1], cat) = {} <=>
                 Hits(f[j], cat) = {} /\ Hits(lists[j + 1], cat) = {}
            /\ TurnsOff(f[j] \o lists[j + 1], cat) <=>
                 IF Hits(lists[j + 1], cat) # {}
                 THEN TurnsOff(lists[j + 1], cat) ELSE TurnsOff(f[j], cat)
        BY <3>1, JoinedTurns, Zenon
      <3> QED BY <2>3, <3>2, Zenon
    <2>5. No(j + 1) <=> No(j) /\ Hits(lists[j + 1], cat) = {}
      <3>1. \A n \in 1..(j + 1) : n \in 1..j \/ n = j + 1
        BY <2>1
      <3>2. j + 1 \in 1..(j + 1) /\ \A n \in 1..j : n \in 1..(j + 1)
        BY <2>1
      <3> QED BY <3>1, <3>2
    <2>6. ASSUME NEW n, Decider(j + 1, n)
          PROVE  IF Hits(lists[j + 1], cat) # {} THEN n = j + 1 ELSE Decider(j, n)
      <3>1. n \in 1..(j + 1) /\ j + 1 \in 1..(j + 1)
        BY <2>1, <2>6
      <3>2. CASE Hits(lists[j + 1], cat) # {}
        <4>1. j + 1 <= n
          BY <2>6, <3>1, <3>2
        <4> QED BY <3>1, <3>2, <4>1
      <3>3. CASE Hits(lists[j + 1], cat) = {}
        <4>1. n # j + 1
          BY <2>6, <3>3
        <4>2. n \in 1..j /\ \A m \in 1..j : m \in 1..(j + 1)
          BY <3>1, <4>1
        <4> QED BY <2>6, <3>3, <4>2
      <3> QED BY <3>2, <3>3
    <2> HIDE DEF No, Decider
    <2>7. Right(j + 1)
      BY <2>2, <2>4, <2>5, <2>6, Zenon
    <2> HIDE DEF Right
    <2> QED BY <2>1, <2>7
  <1> HIDE DEF All
  <1>6. Nat \subseteq All
    BY <1>4, <1>5, Induct
  <1>7. CASE N = 0
    <2>1. Flat(lists) = lists /\ DOMAIN lists = 1..N
      BY <1>1, <1>2, <1>7, LenProperties
    <2>2. Hits(Flat(lists), cat) = {}
      BY <1>7, <2>1 DEF Hits
    <2> QED BY <1>2, <1>7, <2>2 DEF Deciding
  <1>8. CASE N # 0
    <2>1. PICK k \in Nat : k + 1 = N
      BY <1>8
    <2>2. Right(N)
      <3> HIDE DEF Right
      <3> QED BY <1>6, <2>1 DEF All
    <2>3. Flat(lists) = f[N]
      BY <1>1, <1>2, <1>8
    <2>4. \A n : Deciding(lists, cat, n) <=> Decider(N, n)
      BY <1>2 DEF Deciding
    <2> HIDE DEF Decider
    <2> QED BY <1>2, <2>2, <2>3, <2>4, Zenon
  <1> QED BY <1>7, <1>8

\* Reversed, the first list that has a match decides.
LEMMA NearestTurns ==
  ASSUME NEW lists \in Seq(Seq(Filter)), NEW cat
  PROVE  /\ (\A n \in 1..Len(lists) : Hits(lists[n], cat) = {}) =>
              Hits(Flat(Reverse(lists)), cat) = {}
         /\ \A n \in 1..Len(lists) :
              /\ Hits(lists[n], cat) # {}
              /\ \A m \in 1..Len(lists) : Hits(lists[m], cat) # {} => n <= m
              => /\ Hits(Flat(Reverse(lists)), cat) # {}
                 /\ TurnsOff(Flat(Reverse(lists)), cat) <=> TurnsOff(lists[n], cat)
  <1>1. PICK N \in Nat : N = Len(lists)
    BY LenProperties
  <1>2. /\ Reverse(lists) \in Seq(Seq(Filter)) /\ Len(Reverse(lists)) = N
        /\ \A i \in 1..N : Reverse(lists)[i] = lists[(N - i) + 1]
    BY <1>1, ReverseFacts
  <1>3. PICK r \in Seq(Seq(Filter)) : r = Reverse(lists)
    BY <1>2
  <1>4. \A i \in 1..N : /\ (N - i) + 1 \in 1..N /\ (N - ((N - i) + 1)) + 1 = i
                        /\ r[i] = lists[(N - i) + 1]
    BY <1>2, <1>3
  <1>5. \A i \in 1..N : r[(N - i) + 1] = lists[i]
    BY <1>4
  <1>6. ASSUME \A n \in 1..N : Hits(lists[n], cat) = {}
        PROVE  Hits(Flat(r), cat) = {}
    <2>1. \A n \in 1..Len(r) : Hits(r[n], cat) = {}
      BY <1>2, <1>3, <1>4, <1>6
    <2> QED BY <2>1, FlatTurns
  <1>7. ASSUME NEW n \in 1..N, Hits(lists[n], cat) # {},
               \A m \in 1..N : Hits(lists[m], cat) # {} => n <= m
        PROVE  /\ Hits(Flat(r), cat) # {}
               /\ TurnsOff(Flat(r), cat) <=> TurnsOff(lists[n], cat)
    <2>1. PICK k \in 1..N : k = (N - n) + 1 /\ r[k] = lists[n]
      BY <1>4, <1>5
    <2>2. ASSUME NEW m \in 1..N, Hits(r[m], cat) # {} PROVE m <= k
      <3>1. n <= (N - m) + 1
        BY <1>4, <1>7, <2>2
      <3> QED BY <2>1, <3>1
    <2>3. Deciding(r, cat, k)
      BY <1>2, <1>3, <1>7, <2>1, <2>2 DEF Deciding
    <2> QED BY <2>1, <2>3, FlatTurns
  <1> QED BY <1>1, <1>3, <1>6, <1>7, Zenon

-----------------------------------------------------------------------------
(* Configurations                                                          *)

\* Where the configurations have been read to.
Here == config[Seen[over.at]]
Consumed == Len(Here) - Len(over.lines)
WasRead(g) == \/ g[1] < over.at
              \/ pc = "cfg" /\ g[1] = over.at /\ g[2] <= Consumed

\* G are the places the lists came from, the nearest first.
Gathered(G, places, lists) ==
  /\ Len(G) = Len(lists) /\ {G[n] : n \in 1..Len(G)} = places
  /\ \A n \in 1..Len(G) : lists[n] = Value(G[n])
  /\ \A n, m \in 1..Len(G) : n < m => Nearer(G[n], G[m])

\* With all of them read, the filters let pass what the usage text says.
LEMMA FiltersDecide ==
  ASSUME DefaultFilters \in Seq(Filter), args.filters \in Seq(Filter),
         NEW lists \in Seq(Seq(Filter)), NEW G \in Seq(Nat \X Nat),
         Gathered(G, Given("filter"), lists), NEW cat
  PROVE  Filtered((DefaultFilters \o args.filters) \o Flat(Reverse(lists)), cat)
           <=> FilteredOut(cat)
  <1> DEFINE D == DefaultFilters
             more == Flat(Reverse(lists))
             match == {g \in Given("filter") : Hits(Value(g), cat) # {}}
  <1>1. PICK A \in Seq(Filter) : A = args.filters
    OBVIOUS
  <1>2. more \in Seq(Filter) /\ D \o A \in Seq(Filter)
    BY ReverseFacts, FlatFacts, ConcatProperties
  <1>3. PICK N \in Nat : N = Len(G) /\ N = Len(lists)
    BY LenProperties DEF Gathered
  <1>4. /\ \A n \in 1..N : G[n] \in Given("filter") /\ lists[n] = Value(G[n])
        /\ \A g \in Given("filter") : \E n \in 1..N : g = G[n]
        /\ \A n, m \in 1..N : n < m => Nearer(G[n], G[m])
        /\ \A n \in 1..N : G[n] \in Nat \X Nat
    <2>1. \A n \in 1..N : G[n] \in Nat \X Nat
      BY <1>3, ElementOfSeq
    <2> QED BY <1>3, <2>1 DEF Gathered
  <1> HIDE DEF more
  <1> SUFFICES Filtered((D \o A) \o more, cat) <=> FilteredOut(cat)
    BY <1>1, Zenon DEF more
  <1>5. Filtered((D \o A) \o more, cat) <=> TurnsOff((D \o A) \o more, cat)
    <2>1. (D \o A) \o more \in Seq(Filter)
      BY <1>2, ConcatProperties
    <2> QED BY <2>1, FilteredLast
  <1>6. /\ TurnsOff((D \o A) \o more, cat) <=>
             IF Hits(more, cat) # {} THEN TurnsOff(more, cat)
             ELSE TurnsOff(D \o A, cat)
        /\ TurnsOff(D \o A, cat) <=>
             IF Hits(A, cat) # {} THEN TurnsOff(A, cat) ELSE TurnsOff(D, cat)
    BY <1>2, JoinedTurns, Zenon
  <1>7. CASE match = {}
    <2>1. \A n \in 1..N : Hits(lists[n], cat) = {}
      BY <1>4, <1>7
    <2>2. Hits(more, cat) = {}
      BY <1>3, <2>1, NearestTurns, Zenon DEF more
    <2>3. FilteredOut(cat) <=>
            TurnsOff(IF Hits(A, cat) # {} THEN A ELSE D, cat)
      BY <1>1, <1>7, Zenon DEF FilteredOut
    <2>4. CASE Hits(A, cat) # {}
      BY <1>5, <1>6, <2>2, <2>3, <2>4, Zenon
    <2>5. CASE ~(Hits(A, cat) # {})
      BY <1>5, <1>6, <2>2, <2>3, <2>5, Zenon
    <2> QED BY <2>4, <2>5
  <1>8. CASE match # {}
    <2> DEFINE S == {n \in 1..N : Hits(lists[n], cat) # {}}
    <2>1. S \in SUBSET Nat /\ S # {}
      <3>1. PICK g \in Given("filter") : Hits(Value(g), cat) # {}
        BY <1>8
      <3>2. PICK n \in 1..N : g = G[n] /\ lists[n] = Value(g)
        BY <1>4
      <3>3. n \in S
        BY <3>1, <3>2
      <3>4. S \subseteq 1..N
        OBVIOUS
      <3> HIDE DEF S
      <3> QED BY <3>3, <3>4
    <2>2. PICK n \in S : \A m \in S : n <= m
      <3> HIDE DEF S
      <3> QED BY <2>1, Least
    <2>3. n \in 1..N /\ Hits(lists[n], cat) # {}
          /\ \A m \in 1..N : Hits(lists[m], cat) # {} => n <= m
      BY <2>2
    <2>4. Hits(more, cat) # {} /\ (TurnsOff(more, cat) <=> TurnsOff(lists[n], cat))
      BY <1>3, <2>3, NearestTurns, Zenon DEF more
    <2>5. G[n] \in match
      BY <1>4, <2>3
    <2>6. ASSUME NEW g \in match \ {G[n]} PROVE Nearer(G[n], g)
      <3>1. PICK m \in 1..N : g = G[m]
        BY <1>4, <2>6
      <3>2. Hits(lists[m], cat) # {} /\ m # n
        BY <1>4, <2>6, <3>1
      <3>3. n < m
        <4>1. n <= m
          BY <2>3, <3>2, Zenon
        <4> QED BY <2>3, <3>2, <4>1
      <3> QED BY <1>4, <2>3, <3>1, <3>3
    <2>7. ASSUME NEW g \in match, \A h \in match \ {g} : Nearer(g, h)
          PROVE  g = G[n]
      <3> SUFFICES ASSUME g # G[n] PROVE FALSE
        OBVIOUS
      <3>1. Nearer(g, G[n]) /\ Nearer(G[n], g)
        BY <2>5, <2>6, <2>7
      <3>2. PICK m \in 1..N : g = G[m]
        BY <1>4
      <3>3. g \in Nat \X Nat /\ G[n] \in Nat \X Nat
        BY <1>4, <2>3, <3>2
      <3> QED BY <3>1, <3>3 DEF Nearer
    <2>8. FilteredOut(cat) <=>
            \E g \in match : /\ TurnsOff(Value(g), cat)
                             /\ \A h \in match \ {g} : Nearer(g, h)
      BY <1>8, Zenon DEF FilteredOut
    <2>9. FilteredOut(cat) <=> TurnsOff(lists[n], cat)
      <3>1. Value(G[n]) = lists[n]
        BY <1>4, <2>3
      <3> HIDE DEF match
      <3>2. ASSUME FilteredOut(cat) PROVE TurnsOff(lists[n], cat)
        <4>1. PICK g \in match : /\ TurnsOff(Value(g), cat)
                                /\ \A h \in match \ {g} : Nearer(g, h)
          BY <2>8, <3>2, Zenon
        <4>2. g = G[n]
          BY <2>7, <4>1, Zenon
        <4> QED BY <3>1, <4>1, <4>2, Zenon
      <3>3. ASSUME TurnsOff(lists[n], cat) PROVE FilteredOut(cat)
        <4>1. TurnsOff(Value(G[n]), cat)
          BY <3>1, <3>3, Zenon
        <4>2. \A h \in match \ {G[n]} : Nearer(G[n], h)
          BY <2>6, Zenon
        <4> QED BY <2>5, <2>8, <4>1, <4>2, Zenon
      <3> QED BY <3>2, <3>3
    <2> QED BY <1>5, <1>6, <2>4, <2>9, Zenon
  <1> QED BY <1>7, <1>8

InDirs ==
  /\ over.at <= Len(Seen) + 1
  /\ \A k \in 1..(over.at - 2) : ~Stops(Seen[k])
  /\ over.keep <=> \A k \in 1..(over.at - 1) : ~Stops(Seen[k])
InCfg ==
  /\ Counts(over.at) /\ Len(over.lines) <= Len(Here)
  /\ over.lines = SubSeq(Here, Consumed + 1, Len(Here))
  /\ over.keep <=> \A j \in 1..Consumed : Here[j][1] # "set noparent"
Part(g) == IF g[1] = 1 THEN name ELSE Seen[g[1] - 1]
ConfigInv ==
  /\ filters = Kept /\ over.keep \in BOOLEAN
  /\ pc = "dirs" => InDirs
  /\ pc = "cfg" => InCfg
  /\ \E G \in Seq(Nat \X Nat) :
       Gathered(G, {g \in Given("filter") : WasRead(g)}, over.filters)
  /\ \A g \in Given("exclude_files") : WasRead(g) => Part(g) \notin Value(g)

\* What is asked of a file stays the same while it is checked.
LEMMA SameConfig ==
  ASSUME UNCHANGED <<config, name>>
  PROVE  /\ Seen' = Seen /\ \A d : Stops(d)' <=> Stops(d)
         /\ \A i : Counts(i)' <=> Counts(i)
         /\ \A k : Given(k)' = Given(k)
         /\ \A g : Value(g)' = Value(g)
         /\ \A g : Part(g)' = Part(g)
  <1>1. Seen' = Seen /\ \A d : Stops(d)' <=> Stops(d)
    BY DEF Seen, Stops
  <1>2. \A i : Counts(i)' <=> Counts(i)
    BY <1>1 DEF Counts
  <1>3. \A k : Given(k)' = Given(k)
    BY <1>1, <1>2 DEF Given
  <1>4. \A g : Value(g)' = Value(g)
    BY <1>1 DEF Value
  <1>5. \A g : Part(g)' = Part(g)
    BY <1>1 DEF Part
  <1> QED BY <1>1, <1>2, <1>3, <1>4, <1>5

\* The places of entries, and the configurations they are in.
LEMMA SeenFacts ==
  ASSUME TypeInv, pc \in InFile
  PROVE  /\ Seen \in Seq(Dirs) /\ Len(Seen) \in Nat /\ DOMAIN Seen = 1..Len(Seen)
         /\ \A i : Counts(i) => /\ i \in 1..Len(Seen)
                                /\ config[Seen[i]] \in Seq(Entries)
  <1>1. Seen \in Seq(Dirs)
    BY FilesAssumption DEF TypeInv, Seen
  <1>2. Len(Seen) \in Nat /\ DOMAIN Seen = 1..Len(Seen)
    BY <1>1, LenProperties
  <1>3. ASSUME NEW i, Counts(i)
        PROVE  i \in 1..Len(Seen) /\ config[Seen[i]] \in Seq(Entries)
    <2>1. i \in 1..Len(Seen)
      BY <1>2, <1>3 DEF Counts
    <2>2. Seen[i] \in Dirs
      BY <1>1, <2>1, ElementOfSeq
    <2>3. config[Seen[i]] \in Configs \ {NoFile, Unreadable}
      BY <1>3, <2>2 DEF Counts, TypeInv
    <2> QED BY <2>1, <2>3, SettingsAssumption
  <1> QED BY <1>1, <1>2, <1>3

LEMMA GivenFacts ==
  ASSUME TypeInv, pc \in InFile, NEW key
  PROVE  /\ \A g \in Given(key) :
              /\ g \in Nat \X Nat /\ Counts(g[1])
              /\ g[2] \in 1..Len(config[Seen[g[1]]])
              /\ config[Seen[g[1]]][g[2]][1] = key
         /\ \A i, j : /\ Counts(i) /\ j \in 1..Len(config[Seen[i]])
                      /\ config[Seen[i]][j][1] = key
                      => <<i, j>> \in Given(key)
  <1>1. \A i : Counts(i) =>
          /\ i \in 1..Len(Seen) /\ config[Seen[i]] \in Seq(Entries)
          /\ i \in DOMAIN Seen /\ DOMAIN config[Seen[i]] = 1..Len(config[Seen[i]])
          /\ Len(config[Seen[i]]) \in Nat
    BY SeenFacts, LenProperties
  <1>2. Len(Seen) \in Nat
    BY SeenFacts
  <1>3. ASSUME NEW g \in Given(key)
        PROVE  /\ g \in Nat \X Nat /\ Counts(g[1])
               /\ g[2] \in 1..Len(config[Seen[g[1]]])
               /\ config[Seen[g[1]]][g[2]][1] = key
    <2>1. PICK i, j : /\ g = <<i, j>> /\ Counts(i) /\ j \in DOMAIN config[Seen[i]]
                      /\ config[Seen[i]][j][1] = key
      BY DEF Given
    <2>2. i \in Nat /\ j \in Nat /\ j \in 1..Len(config[Seen[i]])
      BY <1>1, <1>2, <2>1
    <2> QED BY <2>1, <2>2
  <1>4. ASSUME NEW i, NEW j, Counts(i), j \in 1..Len(config[Seen[i]]),
               config[Seen[i]][j][1] = key
        PROVE  <<i, j>> \in Given(key)
    <2>1. j \in DOMAIN config[Seen[i]] /\ i \in DOMAIN Seen
      BY <1>1, <1>4
    <2>2. <<i, j>> \in {<<i, k>> : k \in {l \in DOMAIN config[Seen[i]] :
                                          config[Seen[i]][l][1] = key}}
      BY <1>4, <2>1
    <2>3. i \in {k \in DOMAIN Seen : Counts(k)}
      BY <1>4, <2>1
    <2> QED BY <2>2, <2>3, Zenon DEF Given
  <1> QED BY <1>3, <1>4

LEMMA LookInDirInv ==
  ASSUME TypeInv, pc = "dirs", ConfigInv, LookInDir
  PROVE  ConfigInv'
  <1> DEFINE at == over.at
             c == config[Seen[at]]
  <1>0. pc \in InFile /\ UNCHANGED <<config, name, filters, args>>
    BY DEF LookInDir, ReadingConfig, inputs, loop, InFile
  <1>1. /\ over.keep /\ at <= Len(Seen) /\ at \in Nat \ {0}
        /\ over' = [over EXCEPT !.keep = c # Unreadable,
                      !.lines = IF c \in {NoFile, Unreadable} THEN <<>> ELSE c,
                      !.at = IF c \in {NoFile, Unreadable} THEN @ + 1 ELSE @]
        /\ pc' = IF c \in {NoFile, Unreadable} THEN "dirs" ELSE "cfg"
        /\ DOMAIN over = {"at", "lines", "keep", "filters"}
    BY DEF LookInDir, TypeInv, Seen
  <1>2. /\ Seen' = Seen /\ \A d : Stops(d)' <=> Stops(d)
        /\ \A i : Counts(i)' <=> Counts(i)
        /\ \A k : Given(k)' = Given(k)
        /\ \A g : Value(g)' = Value(g)
        /\ \A g : Part(g)' = Part(g)
    BY <1>0, SameConfig
  <1>3. Len(Seen) \in Nat /\ \A k \in 1..(at - 1) : ~Stops(Seen[k])
    BY <1>0, <1>1, SeenFacts DEF ConfigInv, InDirs
  <1>4. \A key : \A g \in Given(key) : g \in Nat \X Nat /\ Counts(g[1]) /\ g[2] >= 1
    BY <1>0, GivenFacts
  <1>5. /\ over'.keep = (c # Unreadable) /\ over'.filters = over.filters
        /\ over'.lines = IF c \in {NoFile, Unreadable} THEN <<>> ELSE c
        /\ over'.at = IF c \in {NoFile, Unreadable} THEN at + 1 ELSE at
    BY <1>1
  <1>6. \A key : \A g \in Given(key) : WasRead(g)' <=> WasRead(g)
    <2> SUFFICES ASSUME NEW key, NEW g \in Given(key) PROVE WasRead(g)' <=> WasRead(g)
      OBVIOUS
    <2>1. g[1] \in Nat /\ g[2] \in Nat /\ Counts(g[1]) /\ g[2] >= 1
      BY <1>4
    <2>2. WasRead(g) <=> g[1] < at
      BY DEF WasRead
    <2>3. CASE c \in {NoFile, Unreadable}
      <3>1. g[1] # at
        BY <2>1, <2>3 DEF Counts
      <3>2. WasRead(g)' <=> g[1] < at + 1
        BY <1>1, <1>5, <2>3 DEF WasRead
      <3> QED BY <1>1, <2>1, <2>2, <3>1, <3>2
    <2>4. CASE c \notin {NoFile, Unreadable}
      <3>1. Consumed' = 0
        <4>1. Here' = c
          BY <1>0, <1>2, <1>5, <2>4 DEF Here
        <4>2. Counts(at)
          BY <1>0, <1>1, <1>3, <2>4, SeenFacts DEF Counts
        <4>3. Len(c) \in Nat
          BY <1>0, <4>2, SeenFacts, LenProperties
        <4>4. over'.lines = c
          BY <1>5, <2>4
        <4> QED BY <4>1, <4>3, <4>4 DEF Consumed
      <3>2. over'.at = at /\ pc' = "cfg"
        BY <1>1, <1>5, <2>4
      <3>3. WasRead(g)' <=> \/ g[1] < over'.at
                            \/ pc' = "cfg" /\ g[1] = over'.at /\ g[2] <= Consumed'
        BY DEF WasRead
      <3>4. ~(g[2] <= 0)
        BY <2>1
      <3> QED BY <2>2, <3>1, <3>2, <3>3, <3>4
    <2> QED BY <2>3, <2>4
  <1>7. /\ \A G, P, l : Gathered(G, P, l)' <=> Gathered(G, P, l)
        /\ {g \in Given("filter") : WasRead(g)}' = {g \in Given("filter") : WasRead(g)}
    BY <1>2, <1>6 DEF Gathered
  <1>8. /\ \E G \in Seq(Nat \X Nat) :
             Gathered(G, {g \in Given("filter") : WasRead(g)}, over.filters)'
        /\ (\A g \in Given("exclude_files") : WasRead(g) => Part(g) \notin Value(g))'
    <2>1. PICK G \in Seq(Nat \X Nat) :
            Gathered(G, {g \in Given("filter") : WasRead(g)}, over.filters)
      BY DEF ConfigInv
    <2>2. Gathered(G, {g \in Given("filter") : WasRead(g)}, over.filters)'
      BY <1>2, <1>5, <1>7, <2>1 DEF Gathered
    <2>3. (\A g \in Given("exclude_files") : WasRead(g) => Part(g) \notin Value(g))'
      BY <1>2, <1>6 DEF ConfigInv
    <2> QED BY <2>2, <2>3
  <1>9. filters' = Kept' /\ over'.keep \in BOOLEAN
    BY <1>0, <1>5 DEF ConfigInv, Kept
  <1>10. pc' = "dirs" => InDirs'
    <2> SUFFICES ASSUME pc' = "dirs" PROVE InDirs'
      OBVIOUS
    <2>1. c \in {NoFile, Unreadable} /\ over'.at = at + 1
      BY <1>1, <1>5
    <2>2. Stops(Seen[at]) <=> c = Unreadable
      BY <2>1 DEF Stops
    <2>3. over'.keep <=> ~Stops(Seen[at])
      BY <1>5, <2>2
    <2>4. (\A k \in 1..at : ~Stops(Seen[k])) <=> ~Stops(Seen[at])
      <3>1. at \in 1..at /\ \A k \in 1..at : k = at \/ k \in 1..(at - 1)
        BY <1>1
      <3> QED BY <1>3, <3>1
    <2>5. (at + 1) - 1 = at /\ (at + 1) - 2 = at - 1 /\ at + 1 <= Len(Seen) + 1
      BY <1>1, <1>3
    <2> QED BY <1>2, <1>3, <2>1, <2>3, <2>4, <2>5 DEF InDirs
  <1>11. pc' = "cfg" => InCfg'
    <2> SUFFICES ASSUME pc' = "cfg" PROVE InCfg'
      OBVIOUS
    <2>1. c \notin {NoFile, Unreadable} /\ over'.at = at /\ over'.lines = c
          /\ over'.keep
      BY <1>1, <1>5
    <2>2. Counts(at)
      BY <1>0, <1>1, <1>3, <2>1, SeenFacts DEF Counts
    <2>3. c \in Seq(Entries) /\ Len(c) \in Nat
      BY <1>0, <2>2, SeenFacts, LenProperties
    <2>4. Here' = c
      BY <1>0, <1>2, <2>1 DEF Here
    <2>5. Consumed' = 0
      BY <2>1, <2>3, <2>4 DEF Consumed
    <2>6. c = SubSeq(c, 0 + 1, Len(c))
      BY <2>3
    <2> QED BY <1>2, <2>1, <2>2, <2>3, <2>4, <2>5, <2>6 DEF InCfg
  <1> QED BY <1>8, <1>9, <1>10, <1>11 DEF ConfigInv

\* The entry at hand is the one behind those that were read.
LEMMA EntryFacts ==
  ASSUME TypeInv, pc = "cfg", InCfg
  PROVE  /\ Here \in Seq(Entries) /\ Len(Here) \in Nat /\ Consumed \in 0..Len(Here)
         /\ Len(over.lines) = Len(Here) - Consumed
         /\ over.lines # <<>> =>
              /\ Consumed + 1 \in 1..Len(Here) /\ Entry = Here[Consumed + 1]
              /\ Tail(over.lines) = SubSeq(Here, (Consumed + 1) + 1, Len(Here))
              /\ Len(Tail(over.lines)) = Len(over.lines) - 1
         /\ over.lines = <<>> => Consumed = Len(Here)
  <1>1. Here \in Seq(Entries) /\ Len(Here) \in Nat
    BY SeenFacts, LenProperties DEF InCfg, Here, InFile
  <1>2. over.lines \in Seq(Entries) /\ Len(over.lines) \in Nat
    BY LenProperties DEF TypeInv
  <1>3. Consumed \in 0..Len(Here) /\ Len(over.lines) = Len(Here) - Consumed
    <2>1. Len(over.lines) <= Len(Here)
      BY DEF InCfg
    <2>2. PICK a \in Nat, b \in Nat : a = Len(Here) /\ b = Len(over.lines)
      BY <1>1, <1>2
    <2>3. Consumed = a - b /\ b <= a
      BY <2>1, <2>2 DEF Consumed
    <2>4. a - b \in 0..a /\ b = a - (a - b)
      BY <2>2, <2>3
    <2> QED BY <2>2, <2>3, <2>4
  <1>4. PICK h \in Seq(Entries), k \in Nat, q \in Seq(Entries) :
          h = Here /\ k = Consumed /\ q = over.lines
    BY <1>1, <1>2, <1>3
  <1>5. q = SubSeq(h, k + 1, Len(h)) /\ k <= Len(h) /\ Len(h) \in Nat
    <2>1. over.lines = SubSeq(Here, Consumed + 1, Len(Here))
      BY DEF InCfg
    <2>2. q = SubSeq(h, k + 1, Len(h))
      BY <1>4, <2>1
    <2> QED BY <1>1, <1>3, <1>4, <2>2
  <1>6. ASSUME q # <<>>
        PROVE  /\ k + 1 \in 1..Len(h) /\ Head(q) = h[k + 1]
               /\ Tail(q) = SubSeq(h, (k + 1) + 1, Len(h))
               /\ Len(Tail(q)) = Len(q) - 1
    <2>1. Len(q) = Len(h) - k /\ Len(q) # 0
      BY <1>3, <1>4, <1>6
    <2>2. k + 1 \in 1..Len(h)
      BY <1>5, <2>1
    <2>3. q[1] = h[k + 1]
      BY <1>5, <2>1, <2>2
    <2>4. Tail(q) = SubSeq(h, (k + 1) + 1, Len(h))
      BY <1>5, <2>1, <2>2
    <2> QED BY <1>6, <2>2, <2>3, <2>4, HeadTailProperties
  <1>7. q = <<>> => k = Len(h)
    BY <1>3, <1>4
  <1> QED BY <1>1, <1>3, <1>4, <1>6, <1>7 DEF Entry

LEMMA ConfigLineInv ==
  ASSUME TypeInv, pc = "cfg", ConfigInv, ConfigLine
  PROVE  ConfigInv'
  <1> DEFINE at == over.at
             new == <<at, Consumed + 1>>
  <1>0. pc \in InFile /\ UNCHANGED <<config, name, filters, args, pc>>
    BY DEF ConfigLine, ReadingConfig, inputs, loop, InFile
  <1>1. /\ over.lines # <<>> /\ ~Excluded /\ at \in Nat \ {0}
        /\ over' = [over EXCEPT !.lines = Tail(@),
                      !.keep = @ /\ Entry[1] # "set noparent",
                      !.filters = IF Entry[1] = "filter" THEN Append(@, Entry[2])
                                  ELSE @]
        /\ DOMAIN over = {"at", "lines", "keep", "filters"}
    BY DEF ConfigLine, TypeInv
  <1>2. /\ Seen' = Seen /\ \A d : Stops(d)' <=> Stops(d)
        /\ \A i : Counts(i)' <=> Counts(i)
        /\ \A k : Given(k)' = Given(k)
        /\ \A g : Value(g)' = Value(g)
        /\ \A g : Part(g)' = Part(g)
    BY <1>0, SameConfig
  <1>3. /\ over'.keep = (over.keep /\ Entry[1] # "set noparent")
        /\ over'.filters = IF Entry[1] = "filter" THEN Append(over.filters, Entry[2])
                           ELSE over.filters
        /\ over'.lines = Tail(over.lines) /\ over'.at = at
    BY <1>1
  <1>4. InCfg
    BY DEF ConfigInv
  <1>5. /\ Here \in Seq(Entries) /\ Len(Here) \in Nat /\ Consumed \in 0..Len(Here)
        /\ Consumed + 1 \in 1..Len(Here) /\ Entry = Here[Consumed + 1]
        /\ Tail(over.lines) = SubSeq(Here, (Consumed + 1) + 1, Len(Here))
        /\ Len(Tail(over.lines)) = Len(over.lines) - 1
        /\ Len(over.lines) = Len(Here) - Consumed
    BY <1>1, <1>4, EntryFacts
  <1>6. Here' = Here /\ Consumed' = Consumed + 1
    <2>1. Here' = Here
      BY <1>0, <1>2, <1>3 DEF Here
    <2>2. Consumed' = Len(Here) - Len(Tail(over.lines))
      BY <1>3, <2>1 DEF Consumed
    <2>3. PICK a \in Nat, b \in Nat : a = Len(Here) /\ b = Consumed
      BY <1>5
    <2>4. Len(Tail(over.lines)) = (a - b) - 1
      BY <1>5, <2>3
    <2>5. a - ((a - b) - 1) = b + 1
      BY <2>3
    <2>6. Consumed' = a - ((a - b) - 1)
      BY <2>2, <2>3, <2>4, Zenon
    <2> QED BY <2>1, <2>3, <2>5, <2>6, Zenon
  <1>7. \A key : \A g \in Given(key) : WasRead(g)' <=> WasRead(g) \/ g = new
    <2> SUFFICES ASSUME NEW key, NEW g \in Given(key)
                 PROVE  WasRead(g)' <=> WasRead(g) \/ g = new
      OBVIOUS
    <2>1. g \in Nat \X Nat
      BY <1>0, GivenFacts
    <2>2. WasRead(g) <=> (g[1] < at \/ (g[1] = at /\ g[2] <= Consumed))
      BY DEF WasRead
    <2>3. WasRead(g)' <=> (g[1] < at \/ (g[1] = at /\ g[2] <= Consumed + 1))
      <3>1. WasRead(g)' <=> \/ g[1] < over'.at
                            \/ pc' = "cfg" /\ g[1] = over'.at /\ g[2] <= Consumed'
        BY DEF WasRead
      <3>2. pc' = "cfg" /\ over'.at = at /\ Consumed' = Consumed + 1
        BY <1>0, <1>3, <1>6
      <3> QED BY <3>1, <3>2
    <2>4. g = new <=> (g[1] = at /\ g[2] = Consumed + 1)
      BY <2>1
    <2>5. g[2] <= Consumed + 1 <=> (g[2] <= Consumed \/ g[2] = Consumed + 1)
      <3>1. PICK a \in Nat, b \in Nat : a = g[2] /\ b = Consumed
        BY <1>5, <2>1
      <3> QED BY <3>1
    <2> HIDE DEF new
    <2> QED BY <2>2, <2>3, <2>4, <2>5, Zenon
  <1>8. \A key : new \in Given(key) <=> Entry[1] = key
    <2> SUFFICES ASSUME NEW key PROVE new \in Given(key) <=> Entry[1] = key
      OBVIOUS
    <2>1. Counts(at) /\ Consumed + 1 \in 1..Len(config[Seen[at]])
          /\ Entry = config[Seen[at]][Consumed + 1]
      BY <1>4, <1>5 DEF InCfg, Here
    <2>2. Entry[1] = key => new \in Given(key)
      BY <1>0, <2>1, GivenFacts
    <2>3. new[1] = at /\ new[2] = Consumed + 1
      OBVIOUS
    <2>4. new \in Given(key) => Entry[1] = key
      <3> HIDE DEF new
      <3> QED BY <1>0, <2>1, <2>3, GivenFacts
    <2> QED BY <2>2, <2>4
  <1>9. Value(new) = Entry[2]
    BY <1>5 DEF Value, Here
  <1>10. (\A g \in Given("exclude_files") : WasRead(g) => Part(g) \notin Value(g))'
    <2> SUFFICES ASSUME NEW g \in Given("exclude_files"), WasRead(g)'
                 PROVE  Part(g) \notin Value(g)
      BY <1>2
    <2>1. CASE WasRead(g)
      BY <2>1 DEF ConfigInv
    <2>2. CASE g = new
      <3>1. Entry[1] = "exclude_files"
        BY <1>8, <2>2
      <3>2. Component \notin Entry[2]
        BY <1>1, <3>1 DEF Excluded
      <3>3. Part(new) = Component
        BY DEF Part, Component, Seen
      <3> QED BY <1>9, <2>2, <3>2, <3>3
    <2> QED BY <1>7, <2>1, <2>2
  <1>11. \E G \in Seq(Nat \X Nat) :
           Gathered(G, {g \in Given("filter") : WasRead(g)}, over.filters)'
    <2> DEFINE old == {g \in Given("filter") : WasRead(g)}
    <2>1. PICK G \in Seq(Nat \X Nat) : Gathered(G, old, over.filters)
      BY DEF ConfigInv
    <2>2. CASE Entry[1] # "filter"
      <3>1. {g \in Given("filter") : WasRead(g)}' = old
        BY <1>2, <1>7, <1>8, <2>2
      <3>2. over'.filters = over.filters
        BY <1>3, <2>2
      <3>3. Gathered(G, {g \in Given("filter") : WasRead(g)}, over.filters)'
        BY <1>2, <2>1, <3>1, <3>2 DEF Gathered
      <3> QED BY <3>3
    <2>3. CASE Entry[1] = "filter"
      <3>1. {g \in Given("filter") : WasRead(g)}' = old \cup {new}
        BY <1>2, <1>7, <1>8, <2>3
      <3>2. over'.filters = Append(over.filters, Entry[2])
        BY <1>3, <2>3
      <3>3. new \in Nat \X Nat /\ over.filters \in Seq(Seq(Filter))
            /\ Entry[2] \in Seq(Filter)
        <4>1. Entry \in Entries
          BY <1>5, ElementOfSeq
        <4>2. Entry[2] \in Seq(Filter)
          BY <2>3, <4>1, SettingFacts
        <4>3. over.filters \in Seq(Seq(Filter))
          BY DEF TypeInv
        <4>4. at \in Nat /\ Consumed + 1 \in Nat
          BY <1>1, <1>5
        <4> QED BY <4>2, <4>3, <4>4
      <3>4. PICK N \in Nat : N = Len(G) /\ N = Len(over.filters)
        BY <2>1, LenProperties DEF Gathered
      <3>5. PICK F \in Seq(Nat \X Nat) : F = Append(G, new)
        BY <3>3, AppendFacts
      <3>6. /\ Len(F) = N + 1 /\ F[N + 1] = new
            /\ \A n \in 1..N : F[n] = G[n]
        <4>1. PICK x \in Nat \X Nat : x = new
          BY <3>3
        <4>2. F = Append(G, x)
          BY <3>5, <4>1
        <4>3. /\ Len(Append(G, x)) = Len(G) + 1 /\ Append(G, x)[Len(G) + 1] = x
              /\ \A n \in 1..Len(G) : Append(G, x)[n] = G[n]
          <5>1. PICK S : S = Nat \X Nat
            OBVIOUS
          <5>2. G \in Seq(S) /\ x \in S
            BY <5>1
          <5> QED BY <5>2, AppendFacts
        <4> QED BY <3>4, <4>1, <4>2, <4>3, Zenon
      <3>7. /\ Len(over'.filters) = N + 1 /\ over'.filters[N + 1] = Entry[2]
            /\ \A n \in 1..N : over'.filters[n] = over.filters[n]
        BY <3>2, <3>3, <3>4, AppendFacts
      <3>8. \A n \in 1..(N + 1) : n \in 1..N \/ n = N + 1
        OBVIOUS
      <3>9. {F[n] : n \in 1..(N + 1)} = old \cup {new}
        <4>1. {G[n] : n \in 1..N} = old
          BY <2>1, <3>4 DEF Gathered
        <4>2. \A n \in 1..N : n \in 1..(N + 1)
          OBVIOUS
        <4>3. ASSUME NEW n \in 1..(N + 1) PROVE F[n] \in old \cup {new}
          <5>1. n \in 1..N => G[n] \in old
            BY <4>1
          <5> QED BY <3>6, <3>8, <5>1, Zenon
        <4>4. ASSUME NEW x \in old \cup {new} PROVE \E n \in 1..(N + 1) : x = F[n]
          <5>1. CASE x \in old
            <6>1. PICK n \in 1..N : x = G[n]
              BY <4>1, <5>1
            <6> QED BY <3>6, <4>2, <6>1
          <5>2. CASE x = new
            <6>1. N + 1 \in 1..(N + 1)
              BY <3>4
            <6> QED BY <3>6, <5>2, <6>1, Zenon
          <5> QED BY <5>1, <5>2
        <4> HIDE DEF old, new
        <4> QED BY <4>3, <4>4
      <3>10. \A n \in 1..(N + 1) : over'.filters[n] = Value(F[n])
        <4>1. \A n \in 1..N : over.filters[n] = Value(G[n])
          BY <2>1, <3>4 DEF Gathered
        <4> QED BY <1>9, <3>6, <3>7, <3>8, <4>1
      <3>11. ASSUME NEW n \in 1..(N + 1), NEW m \in 1..(N + 1), n < m
             PROVE  Nearer(F[n], F[m])
        <4>1. n \in 1..N
          BY <3>11
        <4>2. CASE m \in 1..N
          BY <2>1, <3>4, <3>6, <3>11, <4>1, <4>2 DEF Gathered
        <4>3. CASE m = N + 1
          <5>1. G[n] \in old
            BY <2>1, <3>4, <4>1 DEF Gathered
          <5>2. G[n] \in Nat \X Nat 
                /\ (G[n][1] < at \/ (G[n][1] = at /\ G[n][2] <= Consumed))
            <6>1. G[n] \in Given("filter") /\ WasRead(G[n])
              BY <5>1
            <6>2. G[n] \in Nat \X Nat
              BY <1>0, <6>1, GivenFacts
            <6>3. G[n][1] < at \/ (G[n][1] = at /\ G[n][2] <= Consumed)
              BY <6>1, Zenon DEF WasRead
            <6> QED BY <6>2, <6>3, Zenon
          <5>3. Nearer(G[n], new)
            BY <1>5, <5>2 DEF Nearer
          <5> QED BY <3>6, <4>1, <4>3, <5>3
        <4> QED BY <3>8, <4>2, <4>3
      <3>12. Gathered(F, {g \in Given("filter") : WasRead(g)}, over.filters)'
        <4>1. {F[n] : n \in 1..Len(F)} = old \cup {new}
          BY <3>6, <3>9
        <4>2. \A n, m \in 1..Len(F) : n < m => Nearer(F[n], F[m])
          BY <3>6, <3>11
        <4>3. \A n \in 1..Len(F) : over'.filters[n] = Value(F[n])'
          BY <1>2, <3>6, <3>10
        <4>4. Len(F) = Len(over'.filters)
          BY <3>6, <3>7
        <4> QED BY <3>1, <4>1, <4>2, <4>3, <4>4, Zenon DEF Gathered, Nearer
      <3> QED BY <3>12
    <2> QED BY <2>2, <2>3
  <1>12. filters' = Kept' /\ over'.keep \in BOOLEAN
    BY <1>0, <1>3 DEF ConfigInv, Kept
  <1>13. InCfg'
    <2>1. Counts(over.at)' /\ Len(over'.lines) <= Len(Here)
      <3>1. PICK a \in Nat, b \in Nat : a = Len(Here) /\ b = Consumed
        BY <1>5
      <3>2. Len(over'.lines) = (a - b) - 1
        BY <1>3, <1>5, <3>1
      <3>3. Counts(at) /\ over'.at = at
        BY <1>3, <1>4 DEF InCfg
      <3> QED BY <1>2, <3>1, <3>2, <3>3
    <2>2. over'.lines = SubSeq(Here, (Consumed + 1) + 1, Len(Here))
      BY <1>3, <1>5
    <2>3. over'.keep <=> \A j \in 1..(Consumed + 1) : Here[j][1] # "set noparent"
      <3>1. over.keep <=> \A j \in 1..Consumed : Here[j][1] # "set noparent"
        BY <1>4 DEF InCfg
      <3>2. /\ \A j \in 1..(Consumed + 1) : j \in 1..Consumed \/ j = Consumed + 1
            /\ \A j \in 1..Consumed : j \in 1..(Consumed + 1)
            /\ Consumed + 1 \in 1..(Consumed + 1)
        BY <1>5
      <3>3. over'.keep <=> over.keep /\ Here[Consumed + 1][1] # "set noparent"
        BY <1>3, <1>5
      <3> QED BY <3>1, <3>2, <3>3
    <2> QED BY <1>6, <2>1, <2>2, <2>3 DEF InCfg
  <1>14. pc' = "cfg"
    BY <1>0
  <1> QED BY <1>10, <1>11, <1>12, <1>13, <1>14 DEF ConfigInv

LEMMA ConfigEndInv ==
  ASSUME TypeInv, pc = "cfg", ConfigInv, ConfigEnd
  PROVE  ConfigInv'
  <1> DEFINE at == over.at
  <1>0. /\ pc \in InFile /\ pc' = "dirs" /\ over.lines = <<>>
        /\ UNCHANGED <<config, name, filters, args>>
    BY DEF ConfigEnd, ReadingConfig, inputs, loop, InFile
  <1>1. /\ at \in Nat \ {0} /\ over'.at = at + 1 /\ over'.keep = over.keep
        /\ over'.filters = over.filters
    BY DEF ConfigEnd, TypeInv
  <1>2. /\ Seen' = Seen /\ \A d : Stops(d)' <=> Stops(d)
        /\ \A i : Counts(i)' <=> Counts(i)
        /\ \A k : Given(k)' = Given(k)
        /\ \A g : Value(g)' = Value(g)
        /\ \A g : Part(g)' = Part(g)
    BY <1>0, SameConfig
  <1>3. InCfg
    BY DEF ConfigInv
  <1>4. Counts(at)
    BY <1>3 DEF InCfg
  <1>5. Here \in Seq(Entries) /\ Len(Here) \in Nat /\ Consumed = Len(Here)
    BY <1>0, <1>3, EntryFacts
  <1>6. \A key : \A g \in Given(key) : WasRead(g)' <=> WasRead(g)
    <2> SUFFICES ASSUME NEW key, NEW g \in Given(key) PROVE WasRead(g)' <=> WasRead(g)
      OBVIOUS
    <2>1. g[1] \in Nat /\ g[2] \in Nat /\ g[2] \in 1..Len(config[Seen[g[1]]])
      BY <1>0, GivenFacts
    <2>2. WasRead(g) <=> (g[1] < at \/ (g[1] = at /\ g[2] <= Consumed))
      BY DEF WasRead
    <2>3. WasRead(g)' <=> g[1] < at + 1
      <3>1. WasRead(g)' <=> \/ g[1] < over'.at
                            \/ pc' = "cfg" /\ g[1] = over'.at /\ g[2] <= Consumed'
        BY DEF WasRead
      <3> QED BY <1>0, <1>1, <3>1
    <2>4. g[1] < at + 1 <=> (g[1] < at \/ g[1] = at)
      BY <1>1, <2>1
    <2>5. g[1] = at => g[2] <= Consumed
      BY <1>5, <2>1 DEF Here
    <2> QED BY <2>2, <2>3, <2>4, <2>5
  <1>7. \E G \in Seq(Nat \X Nat) :
          Gathered(G, {g \in Given("filter") : WasRead(g)}, over.filters)'
    <2>1. PICK G \in Seq(Nat \X Nat) :
            Gathered(G, {g \in Given("filter") : WasRead(g)}, over.filters)
      BY DEF ConfigInv
    <2>2. {g \in Given("filter") : WasRead(g)}' = {g \in Given("filter") : WasRead(g)}
      BY <1>2, <1>6
    <2>3. Gathered(G, {g \in Given("filter") : WasRead(g)}, over.filters)'
      BY <1>1, <1>2, <2>1, <2>2 DEF Gathered
    <2> QED BY <2>3
  <1>8. (\A g \in Given("exclude_files") : WasRead(g) => Part(g) \notin Value(g))'
    BY <1>2, <1>6 DEF ConfigInv
  <1>9. filters' = Kept' /\ over'.keep \in BOOLEAN
    BY <1>0, <1>1 DEF ConfigInv, Kept
  <1>10. InDirs'
    <2>1. /\ \A k \in 1..(at - 1) : ~Stops(Seen[k])
          /\ config[Seen[at]] \notin {NoFile, Unreadable}
      BY <1>4 DEF Counts
    <2>2. at <= Len(Seen) /\ Len(Seen) \in Nat
      BY <1>0, <1>4, SeenFacts
    <2>3. over.keep <=> \A j \in 1..Len(Here) : Here[j][1] # "set noparent"
      BY <1>3, <1>5 DEF InCfg
    <2>4. DOMAIN Here = 1..Len(Here)
      BY <1>5, LenProperties
    <2>5. Stops(Seen[at]) <=> \E j \in DOMAIN Here : Here[j][1] = "set noparent"
      BY <2>1, Zenon DEF Stops, Here
    <2>6. over.keep <=> ~Stops(Seen[at])
      BY <2>3, <2>4, <2>5
    <2>7. (\A k \in 1..at : ~Stops(Seen[k])) <=> ~Stops(Seen[at])
      <3>1. at \in 1..at /\ \A k \in 1..at : k = at \/ k \in 1..(at - 1)
        BY <1>1
      <3> QED BY <2>1, <3>1
    <2>8. (at + 1) - 1 = at /\ (at + 1) - 2 = at - 1 /\ at + 1 <= Len(Seen) + 1
      BY <1>1, <2>2
    <2> QED BY <1>1, <1>2, <2>1, <2>6, <2>7, <2>8 DEF InDirs
  <1> QED BY <1>0, <1>7, <1>8, <1>9, <1>10 DEF ConfigInv

\* When the filters are applied, every configuration that counts was read.
LEMMA AllRead ==
  ASSUME TypeInv, pc = "dirs", InDirs, ~over.keep \/ over.at > Len(Seen),
         NEW key, NEW g \in Given(key)
  PROVE  WasRead(g)
  <1>1. /\ g[1] \in 1..Len(Seen) /\ \A k \in 1..(g[1] - 1) : ~Stops(Seen[k])
        /\ Len(Seen) \in Nat /\ over.at \in Nat
    <2>1. pc \in InFile
      BY DEF InFile
    <2>2. Counts(g[1])
      BY <2>1, GivenFacts
    <2> QED BY <2>1, <2>2, SeenFacts DEF Counts, TypeInv
  <1>2. CASE over.at > Len(Seen)
    BY <1>1, <1>2 DEF WasRead
  <1>3. CASE ~over.keep
    <2>1. PICK k \in 1..(over.at - 1) : Stops(Seen[k])
      BY <1>3 DEF InDirs
    <2>2. k \notin 1..(g[1] - 1)
      BY <1>1, <2>1
    <2>3. g[1] < over.at
      BY <1>1, <2>2
    <2> QED BY <2>3 DEF WasRead
  <1> QED BY <1>2, <1>3

\* What is promised of the file at hand stays the same while it is checked.
LEMMA SameFile ==
  ASSUME UNCHANGED <<config, name, args>>
  PROVE  /\ Skipped' <=> Skipped
         /\ \A cat : FilteredOut(cat)' <=> FilteredOut(cat)
         /\ \A e : Prints(e)' <=> Prints(e)
  <1>1. /\ Seen' = Seen /\ \A k : Given(k)' = Given(k)
        /\ \A g : Value(g)' = Value(g)
    BY SameConfig
  <1>2. Skipped' <=> Skipped
    BY <1>1 DEF Skipped
  <1>3. \A cat : FilteredOut(cat)' <=> FilteredOut(cat)
    BY <1>1 DEF FilteredOut
  <1>4. \A e : Silenced(e)' <=> Silenced(e)
    BY DEF Silenced, Heard, Marked, Target, Nolint, Lines, Guard, FirstOf, Places
  <1> QED BY <1>2, <1>3, <1>4 DEF Prints

\* A file that a configuration excludes is promised nothing.
LEMMA ExcludeSkips ==
  ASSUME TypeInv, pc = "cfg", ConfigInv, ExcludeFile
  PROVE  Skipped
  <1>1. /\ Entry[1] = "exclude_files" /\ Component \in Entry[2] /\ over.lines # <<>>
        /\ pc \in InFile /\ InCfg
    BY DEF ExcludeFile, Excluded, ConfigInv, InFile
  <1> DEFINE new == <<over.at, Consumed + 1>>
  <1>2. /\ Counts(over.at) /\ Consumed + 1 \in 1..Len(config[Seen[over.at]])
        /\ Entry = config[Seen[over.at]][Consumed + 1]
    BY <1>1, EntryFacts DEF InCfg, Here
  <1>3. new \in Given("exclude_files")
    BY <1>1, <1>2, GivenFacts
  <1>4. new[1] = over.at /\ Value(new) = Entry[2]
    BY <1>2 DEF Value
  <1>5. (IF new[1] = 1 THEN name ELSE Seen[new[1] - 1]) = Component
    BY DEF Component, Seen
  <1> HIDE DEF new
  <1> QED BY <1>1, <1>3, <1>4, <1>5 DEF Skipped

LEMMA StartFileInv ==
  ASSUME TypeInv, FiltersInv, StartFile
  PROVE  ConfigInv'
  <1>1. /\ pc = "next" /\ pc' = "dirs" /\ UNCHANGED <<filters, args>>
        /\ name' \in Names
    BY TailType DEF StartFile, TypeInv
  <1>2. /\ over'.at = 1 /\ over'.keep = TRUE /\ over'.lines = <<>>
        /\ over'.filters = <<>>
    BY DEF StartFile, NoOver
  <1>3. Seen' \in Seq(Dirs) /\ Len(Seen') \in Nat /\ DOMAIN Seen' = 1..Len(Seen')
    <2>1. Seen' \in Seq(Dirs)
      BY <1>1, FilesAssumption DEF Seen
    <2> QED BY <2>1, LenProperties
  <1>4. ASSUME NEW key, NEW g \in Given(key)' PROVE ~WasRead(g)'
    <2>1. PICK i \in 1..Len(Seen') : \E j : g = <<i, j>>
      BY <1>3 DEF Given
    <2>2. g[1] = i /\ ~(i < 1)
      BY <1>3, <2>1
    <2>3. WasRead(g)' <=> \/ g[1] < over'.at
                          \/ pc' = "cfg" /\ g[1] = over'.at /\ g[2] <= Consumed'
      BY DEF WasRead
    <2> QED BY <1>1, <1>2, <2>2, <2>3
  <1>5. \E G \in Seq(Nat \X Nat) :
          Gathered(G, {g \in Given("filter") : WasRead(g)}, over.filters)'
    <2>1. <<>> \in Seq(Nat \X Nat) /\ Len(<<>>) = 0
      OBVIOUS
    <2>2. {g \in Given("filter") : WasRead(g)}' = {}
      BY <1>4
    <2>3. Gathered(<<>>, {g \in Given("filter") : WasRead(g)}, over.filters)'
      BY <1>2, <2>1, <2>2 DEF Gathered
    <2> QED BY <2>1, <2>3
  <1>6. (\A g \in Given("exclude_files") : WasRead(g) => Part(g) \notin Value(g))'
    BY <1>4
  <1>7. InDirs'
    <2>1. 1..(1 - 2) = {} /\ 1..(1 - 1) = {} /\ 1 <= Len(Seen') + 1
      BY <1>3
    <2> QED BY <1>2, <2>1 DEF InDirs
  <1>8. filters' = Kept' /\ over'.keep \in BOOLEAN
    BY <1>1, <1>2 DEF FiltersInv, Kept
  <1> QED BY <1>1, <1>5, <1>6, <1>7, <1>8 DEF ConfigInv

\* What is applied lets pass what the usage text says, and a file that comes
\* this far is not excluded.
LEMMA FiltersApplied ==
  ASSUME TypeInv, pc = "dirs", ConfigInv, ApplyFilters
  PROVE  /\ ~Skipped
         /\ \A cat : Filtered(filters', cat) <=> FilteredOut(cat)
  <1>1. /\ InDirs /\ (~over.keep \/ over.at > Len(Seen))
        /\ filters' = Kept \o Flat(Reverse(over.filters))
    BY DEF ApplyFilters, ConfigInv, Seen
  <1>2. \A key : \A g \in Given(key) : WasRead(g)
    BY <1>1, AllRead
  <1>3. ~Skipped
    BY <1>2 DEF Skipped, ConfigInv, Part
  <1>4. PICK G \in Seq(Nat \X Nat) :
          Gathered(G, {g \in Given("filter") : WasRead(g)}, over.filters)
    BY DEF ConfigInv
  <1>5. {g \in Given("filter") : WasRead(g)} = Given("filter")
    BY <1>2
  <1>6. Gathered(G, Given("filter"), over.filters)
    BY <1>4, <1>5
  <1>7. /\ DefaultFilters \in Seq(Filter) /\ args.filters \in Seq(Filter)
        /\ over.filters \in Seq(Seq(Filter))
    BY SettingsAssumption DEF TypeInv
  <1>8. ASSUME NEW cat PROVE Filtered(filters', cat) <=> FilteredOut(cat)
    <2>1. Filtered((DefaultFilters \o args.filters)
                     \o Flat(Reverse(over.filters)), cat) <=> FilteredOut(cat)
      BY <1>6, <1>7, FiltersDecide
    <2> QED BY <1>1, <2>1 DEF Kept
  <1> QED BY <1>3, <1>8

-----------------------------------------------------------------------------
(* What is found, in a list in which nothing comes twice                   *)

Lists(q, E) == q \in Seq(E) /\ ToSet(q) = E /\ IsInjective(q)

LEMMA NoneLists == Lists(<<>>, {})
  BY DEF Lists, ToSet, IsInjective

LEMMA OneLists ==
  ASSUME NEW e
  PROVE  Lists(<<e>>, {e})
  <1>1. <<e>> \in Seq({e}) /\ DOMAIN <<e>> = {1} /\ <<e>>[1] = e
    OBVIOUS
  <1> QED BY <1>1 DEF Lists, ToSet, IsInjective

LEMMA JoinLists ==
  ASSUME NEW E, NEW F, NEW q, NEW r, Lists(q, E), Lists(r, F), E \cap F = {}
  PROVE  Lists(q \o r, E \cup F)
  <1>1. PICK S : S = E \cup F
    OBVIOUS
  <1>2. q \in Seq(E) /\ r \in Seq(F) /\ q \in Seq(S) /\ r \in Seq(S)
    BY <1>1 DEF Lists
  <1>3. PICK a \in Nat, b \in Nat :
          /\ a = Len(q) /\ DOMAIN q = 1..a /\ b = Len(r) /\ DOMAIN r = 1..b
    BY <1>2, LenProperties
  <1>4. /\ q \o r \in Seq(S) /\ Len(q \o r) = a + b
        /\ \A j \in 1..(a + b) :
             (q \o r)[j] = IF j <= a THEN q[j] ELSE r[j - a]
    BY <1>2, <1>3, ConcatProperties
  <1>5. PICK c \in Seq(S) : c = q \o r
    BY <1>4
  <1>6. DOMAIN c = 1..(a + b)
    BY <1>3, <1>4, <1>5, LenProperties
  <1>7. /\ \A i \in 1..a : c[i] = q[i] /\ c[i] \in E
        /\ \A i \in 1..b : c[a + i] = r[i] /\ c[a + i] \in F
    <2>1. \A i \in 1..b : a + i \in 1..(a + b) /\ ~(a + i <= a) /\ (a + i) - a = i
      BY <1>3
    <2>2. \A i \in 1..a : i \in 1..(a + b) /\ i <= a
      BY <1>3
    <2>3. /\ \A i \in 1..a : q[i] \in E
          /\ \A i \in 1..b : r[i] \in F
      BY <1>2, <1>3, ElementOfSeq
    <2> QED BY <1>4, <1>5, <2>1, <2>2, <2>3
  <1>8. \A j \in 1..(a + b) : j \in 1..a \/ \E i \in 1..b : j = a + i
    <2>1. \A j \in 1..(a + b) : j \in 1..a \/ (j - a \in 1..b /\ j = a + (j - a))
      BY <1>3
    <2> QED BY <2>1
  <1>9. ToSet(c) = S
    <2>1. ASSUME NEW x \in E PROVE x \in ToSet(c)
      <3>1. PICK i \in 1..a : x = q[i]
        BY <1>3, <2>1 DEF Lists, ToSet
      <3>2. i \in 1..(a + b)
        BY <1>3
      <3> QED BY <1>6, <1>7, <3>1, <3>2 DEF ToSet
    <2>2. ASSUME NEW x \in F PROVE x \in ToSet(c)
      <3>1. PICK i \in 1..b : x = r[i]
        BY <1>3, <2>2 DEF Lists, ToSet
      <3>2. a + i \in 1..(a + b)
        BY <1>3
      <3> QED BY <1>6, <1>7, <3>1, <3>2 DEF ToSet
    <2>3. ASSUME NEW x \in ToSet(c) PROVE x \in S
      <3>1. PICK j \in 1..(a + b) : x = c[j]
        BY <1>6, <2>3 DEF ToSet
      <3> QED BY <1>1, <1>7, <1>8, <3>1
    <2> QED BY <1>1, <2>1, <2>2, <2>3
  <1>10. IsInjective(c)
    <2> SUFFICES ASSUME NEW j \in 1..(a + b), NEW k \in 1..(a + b), c[j] = c[k]
                 PROVE  j = k
      BY <1>6 DEF IsInjective
    <2>1. /\ \A i, l \in 1..a : q[i] = q[l] => i = l
          /\ \A i, l \in 1..b : r[i] = r[l] => i = l
      BY <1>3 DEF Lists, IsInjective
    <2>2. CASE j \in 1..a /\ k \in 1..a
      BY <1>7, <2>1, <2>2
    <2>3. CASE ~(j \in 1..a) /\ ~(k \in 1..a)
      <3>1. PICK i \in 1..b, l \in 1..b : j = a + i /\ k = a + l
        BY <1>8, <2>3
      <3>2. c[a + i] = r[i] /\ c[a + l] = r[l]
        BY <1>7
      <3>3. r[i] = r[l]
        BY <3>1, <3>2
      <3> QED BY <2>1, <3>1, <3>3
    <2>4. CASE j \in 1..a /\ ~(k \in 1..a)
      <3>1. c[j] \in E /\ c[k] \in F
        BY <1>7, <1>8, <2>4
      <3> QED BY <3>1
    <2>5. CASE ~(j \in 1..a) /\ k \in 1..a
      <3>1. c[k] \in E /\ c[j] \in F
        BY <1>7, <1>8, <2>5
      <3> QED BY <3>1
    <2> QED BY <2>2, <2>3, <2>4, <2>5
  <1> QED BY <1>1, <1>5, <1>9, <1>10 DEF Lists

\* A list that says its elements by their place.
Placed(q, k) == /\ q = [i \in 1..k |-> q[i]]
                /\ \A i, j \in 1..k : q[i] = q[j] => i = j

LEMMA PlacedLists ==
  ASSUME NEW k \in Nat, NEW q, Placed(q, k), NEW E, E = {q[i] : i \in 1..k}
  PROVE  Lists(q, E) /\ ToSet(q) = E
  <1>1. DOMAIN q = 1..k /\ q = [i \in 1..k |-> q[i]]
    BY DEF Placed
  <1>3. \A i \in 1..k : q[i] \in E
    OBVIOUS
  <1>4. q \in Seq(E)
    BY <1>1, <1>3
  <1>5. ToSet(q) = E
    BY <1>1 DEF ToSet
  <1>6. IsInjective(q)
    BY <1>1 DEF IsInjective, Placed
  <1> QED BY <1>4, <1>5, <1>6 DEF Lists

\* The recursion of InOrder has a solution: the places up to each line.
LEMMA InOrderLists ==
  ASSUME NEW N \in Nat, N = Len(Lines), NEW places \in SUBSET (1..N)
  PROVE  Lists(InOrder(places), places)
  <1> DEFINE S == Seq(Nat)
             Step == [k \in 1..N |-> [q \in S |->
                        IF k \in places THEN Append(q, k) ELSE q]]
             upTo[n \in 0..Len(Lines)] ==
               IF n = 0 THEN <<>>
               ELSE IF n \in places THEN Append(upTo[n - 1], n) ELSE upTo[n - 1]
  <1>0. \A p \in places : p \in Nat /\ p >= 1 /\ p <= N
    OBVIOUS
  <1>1. <<>> \in S /\ \A q \in S : \A k \in 1..N : Append(q, k) \in S
    OBVIOUS
  <1>2. Step \in [(0 + 1)..N -> [S -> S]]
    BY <1>1
  <1>3. \A k \in 1..N : \A q \in S :
          Step[k][q] = IF k \in places THEN Append(q, k) ELSE q
    OBVIOUS
  <1> HIDE DEF Step
  <1>4. PICK f : /\ f \in [0..N -> S] /\ f[0] = <<>>
                 /\ \A k \in 1..N : f[k] = Step[k][f[k - 1]]
    <2>1. 0 \in Nat /\ 0 <= N
      OBVIOUS
    <2> HIDE DEF S
    <2>2. PICK f : Runs(f, S, <<>>, Step, 0, N)
      BY <1>1, <1>2, <2>1, RunExists, Zenon
    <2>3. \A k \in (0 + 1)..N : f[k] = Step[k][f[k - 1]]
      BY <2>2, Zenon DEF Runs, Follows
    <2>4. \A k \in 1..N : f[k] = Step[k][f[k - 1]]
      BY <2>3
    <2> QED BY <2>2, <2>4, Zenon DEF Runs
  <1>5. \A k \in 1..N : f[k] = IF k \in places THEN Append(f[k - 1], k) ELSE f[k - 1]
    <2>1. \A k \in 1..N : f[k - 1] \in S
      BY <1>4
    <2> QED BY <1>3, <1>4, <2>1
  <1>6. f = [n \in 0..N |->
               IF n = 0 THEN <<>>
               ELSE IF n \in places THEN Append(f[n - 1], n) ELSE f[n - 1]]
    <2>1. ASSUME NEW n \in 0..N
          PROVE  f[n] = IF n = 0 THEN <<>>
                        ELSE IF n \in places THEN Append(f[n - 1], n) ELSE f[n - 1]
      <3>1. n = 0 \/ (n # 0 /\ n \in 1..N)
        OBVIOUS
      <3> QED BY <1>4, <1>5, <3>1, Zenon
    <2> QED BY <1>4, <2>1
  <1>7. upTo = [n \in 0..N |->
                  IF n = 0 THEN <<>>
                  ELSE IF n \in places THEN Append(upTo[n - 1], n) ELSE upTo[n - 1]]
    <2>1. upTo = CHOOSE g : g = [n \in 0..Len(Lines) |->
                   IF n = 0 THEN <<>>
                   ELSE IF n \in places THEN Append(g[n - 1], n) ELSE g[n - 1]]
      OBVIOUS
    <2> HIDE DEF upTo
    <2> QED BY <1>6, <2>1
  <1>8. InOrder(places) = upTo[N]
    BY DEF InOrder
  <1> HIDE DEF upTo
  <1>9. \A n \in 0..N :
          upTo[n] = IF n = 0 THEN <<>>
                    ELSE IF n \in places THEN Append(upTo[n - 1], n)
                    ELSE upTo[n - 1]
    BY <1>7, Zenon
  <1> DEFINE Good(n) == /\ upTo[n] \in Seq(Nat) /\ IsInjective(upTo[n])
                        /\ ToSet(upTo[n]) = {p \in places : p <= n}
             All == {n \in Nat : n <= N => Good(n)}
  <1>10. 0 \in All
    <2>1. upTo[0] = <<>>
      BY <1>9
    <2>2. \A p \in places : ~(p <= 0)
      BY <1>0
    <2>3. <<>> \in Seq(Nat) /\ DOMAIN <<>> = {}
      OBVIOUS
    <2>4. ToSet(<<>>) = {} /\ IsInjective(<<>>)
      BY <2>3, Zenon DEF ToSet, IsInjective
    <2>5. Good(0)
      BY <2>1, <2>2, <2>3, <2>4
    <2> QED BY <2>5
  <1>11. ASSUME NEW n \in Nat, n \in All PROVE n + 1 \in All
    <2> SUFFICES ASSUME n + 1 <= N PROVE Good(n + 1)
      OBVIOUS
    <2>1. Good(n) /\ n + 1 \in 0..N /\ n + 1 # 0 /\ (n + 1) - 1 = n
      BY <1>11
    <2>2. PICK q \in Seq(Nat) : q = upTo[n]
      BY <2>1
    <2>3. ToSet(q) = {p \in places : p <= n} /\ IsInjective(q)
      BY <2>1, <2>2
    <2>4. CASE n + 1 \in places
      <3>1. upTo[n + 1] = Append(q, n + 1)
        BY <1>9, <2>1, <2>2, <2>4
      <3>2. {p \in places : p <= n + 1} = {p \in places : p <= n} \cup {n + 1}
        <4>1. \A p \in places : p <= n + 1 <=> (p <= n \/ p = n + 1)
          BY <1>0
        <4> QED BY <2>4, <4>1
      <3>3. n + 1 \notin ToSet(q)
        BY <2>3
      <3>4. /\ Append(q, n + 1) \in Seq(Nat)
            /\ ToSet(Append(q, n + 1)) = ToSet(q) \cup {n + 1}
            /\ IsInjective(Append(q, n + 1))
        BY <2>3, <3>3, AppendFacts
      <3> QED BY <2>3, <3>1, <3>2, <3>4
    <2>5. CASE n + 1 \notin places
      <3>1. upTo[n + 1] = q
        BY <1>9, <2>1, <2>2, <2>5
      <3>2. {p \in places : p <= n + 1} = {p \in places : p <= n}
        <4>1. \A p \in places : p <= n + 1 <=> p <= n
          <5>1. \A p \in places : p # n + 1
            BY <2>5
          <5> QED BY <1>0, <5>1
        <4> QED BY <4>1
      <3> QED BY <2>2, <2>3, <3>1, <3>2
    <2> QED BY <2>4, <2>5
  <1>12. Good(N)
    <2> HIDE DEF All
    <2>1. N \in All
      BY <1>10, <1>11, Induct
    <2> QED BY <2>1 DEF All
  <1>13. {p \in places : p <= N} = places
    <2>1. \A p \in places : p <= N
      BY <1>0
    <2> QED BY <2>1
  <1>14. PICK q \in Seq(Nat) : q = upTo[N]
    BY <1>12
  <1>15. ToSet(q) = places /\ IsInjective(q)
    BY <1>12, <1>13, <1>14
  <1>16. q \in Seq(places)
    <2>1. PICK l \in Nat : DOMAIN q = 1..l /\ l = Len(q)
      BY LenProperties
    <2>2. \A i \in 1..l : q[i] \in places
      BY <1>15, <2>1 DEF ToSet
    <2> QED BY <2>1, <2>2
  <1> QED BY <1>8, <1>14, <1>15, <1>16 DEF Lists

\* One thing said of each of the places.
LEMMA EachLists ==
  ASSUME NEW N \in Nat, N = Len(Lines), NEW places \in SUBSET (1..N),
         NEW q, NEW T, T = {q[i] : i \in DOMAIN q},
         q = [i \in DOMAIN InOrder(places) |-> q[i]],
         \A i, j \in DOMAIN q : q[i] = q[j] => InOrder(places)[i] = InOrder(places)[j]
  PROVE  Lists(q, T)
  <1>1. InOrder(places) \in Seq(places) /\ IsInjective(InOrder(places))
    BY InOrderLists DEF Lists
  <1>2. PICK k \in Nat : DOMAIN InOrder(places) = 1..k
    BY <1>1, LenProperties
  <1>3. q = [i \in 1..k |-> q[i]] /\ DOMAIN q = 1..k
    BY <1>2
  <1>4. \A i, j \in 1..k : q[i] = q[j] => i = j
    BY <1>1, <1>2, <1>3 DEF IsInjective
  <1>5. Placed(q, k)
    BY <1>3, <1>4 DEF Placed
  <1>6. PICK E : E = {q[i] : i \in 1..k}
    OBVIOUS
  <1>7. E = T
    BY <1>3, <1>6
  <1>8. Lists(q, E)
    BY <1>5, <1>6, PlacedLists, SMT
  <1> QED BY <1>7, <1>8

-----------------------------------------------------------------------------
(* What the checks find of a file, stage by stage                          *)

OfCopyright == ToSet(CheckForCopyright)
OfComments ==
  IF FirstOf("unclosed") = 0 THEN {}
  ELSE {Err(FirstOf("unclosed") + 1, <<"readability", "multiline_comment">>, 5,
            "comments")}
OfIfndef ==
  IF Guard.style = "path" THEN {}
  ELSE {Err(FirstOf("ifndef"), <<"build", "header_guard">>,
            IF Guard.style = "path_" THEN 0 ELSE 5, "ifndef")}
       \cup ToSet(UnknownNolint(FirstOf("ifndef"), "ifndef"))
OfEndif ==
  ToSet(UnknownNolint(LastOf("endif"), "endif"))
  \cup (IF Guard.comment = "path" THEN {}
        ELSE {Err(LastOf("endif"), <<"build", "header_guard">>,
                  IF Guard.comment = "path_" THEN 0 ELSE 5, "endif")})
OfLate == ToSet(Late) \cup {BadByte(n) : n \in BadBytes}
            \cup ToSet(CheckForNewlineAtEOF)
OfCrlf == IF Crlf = Ended THEN {} ELSE {UnexpectedCr(n) : n \in Crlf}

\* The lines that ProcessLine has seen.
LinesRead == {n \in DOMAIN Lines : n < linenum}
Found(lines) == OfCopyright \cup OfComments \cup OfGuard
                  \cup UNION {Checked(n) : n \in lines}
SoFar ==
  CASE pc = "read"     -> {}
    [] pc = "comments" -> OfCopyright
    [] pc = "ifndef"   -> OfCopyright \cup OfComments
    [] pc = "endif"    -> OfCopyright \cup OfComments \cup OfIfndef
    [] pc = "line"     -> Found(LinesRead)
    [] pc = "crlf"     -> Found(DOMAIN Lines) \cup OfLate
    [] pc = "restore"  -> Found(DOMAIN Lines) \cup OfLate \cup OfCrlf

\* A file's lines.
LEMMA LinesFacts ==
  ASSUME TypeInv, pc \in InFile
  PROVE  /\ Len(Lines) \in Nat /\ DOMAIN Lines = 1..Len(Lines)
         /\ Text[name].late \in Seq(ToSet(Text[name].late))
         /\ \A n \in DOMAIN Lines : Lines[n].finds \in Seq(ToSet(Lines[n].finds))
  <1>1. name \in Names
    BY DEF TypeInv
  <1>2. /\ Lines \in Seq(ToSet(Lines))
        /\ Text[name].late \in Seq(ToSet(Text[name].late))
        /\ \A l \in ToSet(Lines) : l.finds \in Seq(ToSet(l.finds))
    BY <1>1, FilesAssumption DEF Lines
  <1>3. Len(Lines) \in Nat /\ DOMAIN Lines = 1..Len(Lines)
    BY <1>2, LenProperties
  <1>4. \A n \in DOMAIN Lines : Lines[n] \in ToSet(Lines)
    BY DEF ToSet
  <1> QED BY <1>2, <1>3, <1>4

LEMMA SingleSet ==
  ASSUME NEW e
  PROVE  ToSet(<<e>>) = {e}
  BY OneLists DEF Lists

LEMMA UnknownLists ==
  ASSUME NEW n, NEW by
  PROVE  /\ Lists(UnknownNolint(n, by), ToSet(UnknownNolint(n, by)))
         /\ \A e \in ToSet(UnknownNolint(n, by)) :
              e.line = n /\ e.by = by /\ e.cat = <<"readability", "nolint">>
  <1> DEFINE e == Err(n, <<"readability", "nolint">>, 5, by)
  <1>1. e.line = n /\ e.by = by /\ e.cat = <<"readability", "nolint">>
    BY DEF Err, Nth
  <1>2. UnknownNolint(n, by) \in {<<e>>, <<>>}
    BY DEF UnknownNolint
  <1> HIDE DEF e
  <1>3. ToSet(<<>>) = {} /\ ToSet(<<e>>) = {e}
    BY NoneLists, SingleSet DEF Lists
  <1>4. Lists(<<>>, {}) /\ Lists(<<e>>, {e})
    BY NoneLists, OneLists
  <1> QED BY <1>1, <1>2, <1>3, <1>4

LEMMA CopyrightLists ==
  /\ Lists(CheckForCopyright, OfCopyright)
  /\ \A e \in OfCopyright : e.by = "copyright"
  <1> DEFINE e == Err(0, <<"legal", "copyright">>, 5, "copyright")
  <1>1. e.by = "copyright"
    BY DEF Err, Nth
  <1>2. CheckForCopyright \in {<<e>>, <<>>}
    BY DEF CheckForCopyright
  <1> HIDE DEF e
  <1>3. ToSet(<<>>) = {} /\ ToSet(<<e>>) = {e}
    BY NoneLists, SingleSet DEF Lists
  <1>4. Lists(<<>>, {}) /\ Lists(<<e>>, {e})
    BY NoneLists, OneLists
  <1> QED BY <1>1, <1>2, <1>3, <1>4 DEF OfCopyright

LEMMA CommentsLists ==
  /\ Lists(IF FirstOf("unclosed") = 0 THEN <<>>
           ELSE <<Err(FirstOf("unclosed") + 1,
                      <<"readability", "multiline_comment">>, 5, "comments")>>,
           OfComments)
  /\ \A e \in OfComments : e.by = "comments"
  <1> DEFINE e == Err(FirstOf("unclosed") + 1,
                      <<"readability", "multiline_comment">>, 5, "comments")
  <1>1. e.by = "comments"
    BY DEF Err, Nth
  <1>2. OfComments = IF FirstOf("unclosed") = 0 THEN {} ELSE {e}
    BY DEF OfComments
  <1> HIDE DEF e
  <1>3. Lists(<<>>, {}) /\ Lists(<<e>>, {e})
    BY NoneLists, OneLists
  <1> SUFFICES /\ Lists(IF FirstOf("unclosed") = 0 THEN <<>> ELSE <<e>>, OfComments)
               /\ \A x \in OfComments : x.by = "comments"
    BY Zenon DEF e
  <1> QED BY <1>1, <1>2, <1>3

LEMMA IfndefLists ==
  /\ Guard.style # "path" =>
       Lists(UnknownNolint(FirstOf("ifndef"), "ifndef")
               \o GuardError(FirstOf("ifndef"),
                    IF Guard.style = "path_" THEN 0 ELSE 5, "ifndef"), OfIfndef)
  /\ \A e \in OfIfndef : e.by = "ifndef" /\ e.line = FirstOf("ifndef")
  <1> DEFINE n == FirstOf("ifndef")
             e == Err(n, <<"build", "header_guard">>,
                      IF Guard.style = "path_" THEN 0 ELSE 5, "ifndef")
             U == ToSet(UnknownNolint(n, "ifndef"))
  <1>1. e.by = "ifndef" /\ e.line = n /\ e.cat = <<"build", "header_guard">>
    BY DEF Err, Nth
  <1>2. /\ Lists(UnknownNolint(n, "ifndef"), U)
        /\ \A x \in U : x.line = n /\ x.by = "ifndef"
                        /\ x.cat = <<"readability", "nolint">>
    BY UnknownLists
  <1>3. OfIfndef = IF Guard.style = "path" THEN {} ELSE {e} \cup U
    BY DEF OfIfndef
  <1>4. GuardError(n, IF Guard.style = "path_" THEN 0 ELSE 5, "ifndef") = <<e>>
    BY DEF GuardError
  <1> HIDE DEF e, U, n
  <1>5. e \notin U
    <2>1. <<"build", "header_guard">> # <<"readability", "nolint">>
      OBVIOUS
    <2> QED BY <1>1, <1>2, <2>1
  <1>6. Lists(UnknownNolint(n, "ifndef") \o <<e>>, U \cup {e})
    <2>1. U \cap {e} = {}
      BY <1>5
    <2> QED BY <1>2, <2>1, OneLists, JoinLists
  <1>7. U \cup {e} = {e} \cup U
    OBVIOUS
  <1>8. Guard.style # "path" =>
          Lists(UnknownNolint(n, "ifndef")
                  \o GuardError(n, IF Guard.style = "path_" THEN 0 ELSE 5, "ifndef"),
                OfIfndef)
    BY <1>3, <1>4, <1>6, <1>7, Zenon
  <1>9. \A x \in OfIfndef : x.by = "ifndef" /\ x.line = n
    BY <1>1, <1>2, <1>3
  <1> QED BY <1>8, <1>9, Zenon DEF n

LEMMA EndifLists ==
  /\ Lists(UnknownNolint(LastOf("endif"), "endif") \o
             (IF Guard.comment = "path" THEN <<>>
              ELSE GuardError(LastOf("endif"),
                     IF Guard.comment = "path_" THEN 0 ELSE 5, "endif")), OfEndif)
  /\ \A e \in OfEndif : e.by = "endif" /\ e.line = LastOf("endif")
  <1> DEFINE n == LastOf("endif")
             e == Err(n, <<"build", "header_guard">>,
                      IF Guard.comment = "path_" THEN 0 ELSE 5, "endif")
             U == ToSet(UnknownNolint(n, "endif"))
             E == IF Guard.comment = "path" THEN {} ELSE {e}
             q == IF Guard.comment = "path" THEN <<>>
                  ELSE GuardError(n, IF Guard.comment = "path_" THEN 0 ELSE 5, "endif")
  <1>1. e.by = "endif" /\ e.line = n /\ e.cat = <<"build", "header_guard">>
    BY DEF Err, Nth
  <1>2. /\ Lists(UnknownNolint(n, "endif"), U)
        /\ \A x \in U : x.line = n /\ x.by = "endif"
                        /\ x.cat = <<"readability", "nolint">>
    BY UnknownLists
  <1>3. OfEndif = U \cup E
    BY DEF OfEndif
  <1>4. q = IF Guard.comment = "path" THEN <<>> ELSE <<e>>
    BY DEF GuardError
  <1> HIDE DEF e, U, n, q
  <1>5. e \notin U
    <2>1. <<"build", "header_guard">> # <<"readability", "nolint">>
      OBVIOUS
    <2> QED BY <1>1, <1>2, <2>1
  <1>6. Lists(q, E)
    BY <1>4, NoneLists, OneLists
  <1>7. U \cap E = {}
    BY <1>5
  <1>9. \A x \in OfEndif : x.by = "endif" /\ x.line = n
    BY <1>1, <1>2, <1>3
  <1> HIDE DEF E
  <1>8. Lists(UnknownNolint(n, "endif") \o q, OfEndif)
    BY <1>2, <1>3, <1>6, <1>7, JoinLists, Zenon
  <1> QED BY <1>8, <1>9, Zenon DEF n, q

LEMMA NoGuardLists ==
  /\ Lists(GuardError(0, 5, "no guard"), ToSet(GuardError(0, 5, "no guard")))
  /\ \A e \in ToSet(GuardError(0, 5, "no guard")) : e.by = "no guard"
  <1> DEFINE e == Err(0, <<"build", "header_guard">>, 5, "no guard")
  <1>1. e.by = "no guard" /\ GuardError(0, 5, "no guard") = <<e>>
    BY DEF Err, Nth, GuardError
  <1> HIDE DEF e
  <1>2. ToSet(<<e>>) = {e} /\ Lists(<<e>>, {e})
    BY OneLists, SingleSet
  <1> QED BY <1>1, <1>2

LEMMA FindsLists ==
  ASSUME TypeInv, pc \in InFile, NEW n \in DOMAIN Lines
  PROVE  /\ Lists(Finds(n), ToSet(Finds(n)))
         /\ \A e \in ToSet(Finds(n)) : e.line = n /\ e.by = "find"
  <1>1. PICK k \in Nat : DOMAIN Lines[n].finds = 1..k
    BY LinesFacts, LenProperties
  <1>2. /\ Finds(n) = [i \in 1..k |-> Finds(n)[i]]
        /\ \A i \in 1..k : /\ Finds(n)[i].nth = i /\ Finds(n)[i].line = n
                           /\ Finds(n)[i].by = "find"
    BY <1>1 DEF Finds, Nth
  <1>3. PICK q : q = Finds(n)
    OBVIOUS
  <1>4. /\ q = [i \in 1..k |-> q[i]]
        /\ \A i \in 1..k : q[i].nth = i /\ q[i].line = n /\ q[i].by = "find"
    BY <1>2, <1>3
  <1>5. \A i, j \in 1..k : q[i] = q[j] => i = j
    BY <1>4
  <1>6. PICK E : E = {q[i] : i \in 1..k}
    OBVIOUS
  <1>7. Lists(q, E) /\ ToSet(q) = E
    <2>1. Placed(q, k)
      BY <1>4, <1>5 DEF Placed
    <2> QED BY <1>6, <2>1, PlacedLists, Zenon
  <1>8. \A e \in E : e.line = n /\ e.by = "find"
    BY <1>4, <1>6
  <1> QED BY <1>3, <1>7, <1>8

LEMMA LengthLists ==
  ASSUME NEW n
  PROVE  /\ Lists(LineLength(n), ToSet(LineLength(n)))
         /\ \A e \in ToSet(LineLength(n)) : e.line = n /\ e.by = "width"
  <1> DEFINE e == Err(n, <<"whitespace", "line_length">>,
                      IF Lines[n].width > (line_length * 5) \div 4 THEN 4 ELSE 2,
                      "width")
  <1>1. e.line = n /\ e.by = "width"
    BY DEF Err, Nth
  <1>2. LineLength(n) \in {<<e>>, <<>>}
    BY DEF LineLength
  <1> HIDE DEF e
  <1>3. ToSet(<<>>) = {} /\ ToSet(<<e>>) = {e}
    BY NoneLists, SingleSet DEF Lists
  <1>4. Lists(<<>>, {}) /\ Lists(<<e>>, {e})
    BY NoneLists, OneLists
  <1> QED BY <1>1, <1>2, <1>3, <1>4

\* What ProcessLine finds.
LEMMA CheckedLists ==
  ASSUME TypeInv, pc \in InFile, NEW n \in DOMAIN Lines
  PROVE  /\ Lists(UnknownNolint(n, "line") \o Finds(n) \o LineLength(n), Checked(n))
         /\ \A e \in Checked(n) : e.line = n /\ e.by \in {"line", "find", "width"}
  <1> DEFINE U == ToSet(UnknownNolint(n, "line"))
             F == ToSet(Finds(n))
             W == ToSet(LineLength(n))
  <1>1. /\ Lists(UnknownNolint(n, "line"), U) /\ Lists(Finds(n), F)
        /\ Lists(LineLength(n), W)
        /\ \A e \in U : e.line = n /\ e.by = "line"
        /\ \A e \in F : e.line = n /\ e.by = "find"
        /\ \A e \in W : e.line = n /\ e.by = "width"
    BY UnknownLists, FindsLists, LengthLists
  <1>2. U = IF Bad(n) THEN {UnknownMark(n, "line")} ELSE {}
    <2>1. UnknownNolint(n, "line") = IF Bad(n) THEN <<UnknownMark(n, "line")>> ELSE <<>>
      BY DEF UnknownNolint, Bad, Marked, UnknownMark
    <2>2. ToSet(<<>>) = {}
      BY NoneLists DEF Lists
    <2> QED BY <2>1, <2>2, SingleSet
  <1>3. Checked(n) = F \cup W \cup U
    BY <1>2 DEF Checked
  <1> HIDE DEF U, F, W
  <1>4. Checked(n) = (U \cup F) \cup W /\ U \cap F = {} /\ (U \cup F) \cap W = {}
    BY <1>1, <1>3
  <1>5. Lists(UnknownNolint(n, "line") \o Finds(n), U \cup F)
    BY <1>1, <1>4, JoinLists, Zenon
  <1>6. Lists((UnknownNolint(n, "line") \o Finds(n)) \o LineLength(n), (U \cup F) \cup W)
    BY <1>1, <1>4, <1>5, JoinLists, Zenon
  <1>7. \A e \in Checked(n) : e.line = n /\ e.by \in {"line", "find", "width"}
    BY <1>1, <1>3
  <1> QED BY <1>4, <1>6, <1>7

LEMMA LateLists ==
  ASSUME TypeInv, pc \in InFile
  PROVE  /\ Lists(Late \o CheckForBadCharacters \o CheckForNewlineAtEOF, OfLate)
         /\ \A e \in OfLate : e.by \in {"late", "nul", "eof"}
  <1> DEFINE A == ToSet(Late)
             B == {BadByte(n) : n \in BadBytes}
             C == ToSet(CheckForNewlineAtEOF)
  <1>1. Lists(Late, A) /\ \A e \in A : e.by = "late"
    <2>1. PICK k \in Nat : DOMAIN Text[name].late = 1..k
      BY LinesFacts, LenProperties
    <2>2. /\ Late = [i \in 1..k |-> Late[i]]
          /\ \A i \in 1..k : Late[i].nth = i /\ Late[i].by = "late"
      BY <2>1 DEF Late, Nth
    <2>3. PICK q : q = Late
      OBVIOUS
    <2>4. /\ q = [i \in 1..k |-> q[i]]
          /\ \A i \in 1..k : q[i].nth = i /\ q[i].by = "late"
      BY <2>2, <2>3
    <2>5. \A i, j \in 1..k : q[i] = q[j] => i = j
      BY <2>4
    <2>6. PICK E : E = {q[i] : i \in 1..k}
      OBVIOUS
    <2>7. Lists(q, E) /\ ToSet(q) = E
      <3>1. Placed(q, k)
        BY <2>4, <2>5 DEF Placed
      <3> QED BY <2>6, <3>1, PlacedLists, Zenon
    <2>8. \A e \in E : e.by = "late"
      BY <2>4, <2>6
    <2> QED BY <2>3, <2>7, <2>8
  <1>2. Lists(CheckForBadCharacters, B) /\ \A e \in B : e.by = "nul"
    <2> DEFINE q == CheckForBadCharacters
               o == InOrder(BadBytes)
    <2>1. PICK N \in Nat : N = Len(Lines) /\ DOMAIN Lines = 1..N
      BY LinesFacts
    <2>2. BadBytes \in SUBSET (1..N)
      BY <2>1 DEF BadBytes
    <2>3. Lists(o, BadBytes)
      BY <2>1, <2>2, InOrderLists
    <2>4. q = [i \in DOMAIN o |-> q[i]] /\ \A i \in DOMAIN o : q[i] = BadByte(o[i])
      BY DEF CheckForBadCharacters
    <2>5. \A n : BadByte(n).line = n /\ BadByte(n).by = "nul"
      BY DEF BadByte, Err, Nth
    <2>6. \A i, j \in DOMAIN q : q[i] = q[j] => o[i] = o[j]
      <3> HIDE DEF q, o
      <3> QED BY <2>4, <2>5
    <2>7. B = {q[i] : i \in DOMAIN q}
      <3>1. BadBytes = {o[i] : i \in DOMAIN o}
        BY <2>3 DEF Lists, ToSet
      <3> HIDE DEF q, o
      <3> QED BY <2>4, <3>1
    <2> HIDE DEF B
    <2>8. Lists(q, B)
      BY <2>1, <2>2, <2>4, <2>6, <2>7, EachLists
    <2> QED BY <2>5, <2>8 DEF B
  <1>3. Lists(CheckForNewlineAtEOF, C) /\ \A e \in C : e.by = "eof"
    <2> DEFINE e == Err(Len(Lines), <<"whitespace", "ending_newline">>, 5, "eof")
    <2>1. e.by = "eof" /\ CheckForNewlineAtEOF \in {<<e>>, <<>>}
      BY DEF Err, Nth, CheckForNewlineAtEOF
    <2> HIDE DEF e
    <2>2. /\ ToSet(<<>>) = {} /\ ToSet(<<e>>) = {e}
          /\ Lists(<<>>, {}) /\ Lists(<<e>>, {e})
      BY NoneLists, OneLists, SingleSet DEF Lists
    <2> QED BY <2>1, <2>2
  <1>4. OfLate = (A \cup B) \cup C
    BY DEF OfLate
  <1> HIDE DEF A, B, C
  <1>5. A \cap B = {} /\ (A \cup B) \cap C = {}
    BY <1>1, <1>2, <1>3
  <1>6. Lists(Late \o CheckForBadCharacters, A \cup B)
    BY <1>1, <1>2, <1>5, JoinLists, Zenon
  <1>7. Lists((Late \o CheckForBadCharacters) \o CheckForNewlineAtEOF, (A \cup B) \cup C)
    BY <1>3, <1>5, <1>6, JoinLists, Zenon
  <1>8. \A e \in OfLate : e.by \in {"late", "nul", "eof"}
    BY <1>1, <1>2, <1>3, <1>4
  <1> QED BY <1>4, <1>7, <1>8

LEMMA CrlfLists ==
  ASSUME TypeInv, pc \in InFile
  PROVE  /\ Lists(IF Crlf = Ended THEN <<>>
                  ELSE [i \in DOMAIN InOrder(Crlf) |-> UnexpectedCr(InOrder(Crlf)[i])],
                  OfCrlf)
         /\ \A e \in OfCrlf : e.by = "crlf"
  <1> DEFINE o == InOrder(Crlf)
             q == [i \in DOMAIN o |-> UnexpectedCr(o[i])]
             B == {UnexpectedCr(n) : n \in Crlf}
  <1>1. PICK N \in Nat : N = Len(Lines)
    BY LinesFacts
  <1>2. Crlf \in SUBSET (1..N)
    BY <1>1 DEF Crlf, Ended
  <1>3. Lists(o, Crlf)
    BY <1>1, <1>2, InOrderLists
  <1>4. q = [i \in DOMAIN o |-> q[i]] /\ \A i \in DOMAIN o : q[i] = UnexpectedCr(o[i])
    OBVIOUS
  <1>5. \A n : UnexpectedCr(n).line = n /\ UnexpectedCr(n).by = "crlf"
    BY DEF UnexpectedCr, Err, Nth
  <1> HIDE DEF q
  <1>6. \A i, j \in DOMAIN q : q[i] = q[j] => o[i] = o[j]
    <2> HIDE DEF o
    <2> QED BY <1>4, <1>5
  <1>7. B = {q[i] : i \in DOMAIN q}
    <2>1. Crlf = {o[i] : i \in DOMAIN o}
      BY <1>3 DEF Lists, ToSet
    <2> HIDE DEF o
    <2> QED BY <1>4, <2>1
  <1>8. \A e \in B : e.by = "crlf"
    BY <1>5
  <1> HIDE DEF B
  <1>9. Lists(q, B)
    BY <1>1, <1>2, <1>4, <1>6, <1>7, EachLists
  <1>10. OfCrlf = IF Crlf = Ended THEN {} ELSE B
    BY DEF OfCrlf, B
  <1>11. Lists(IF Crlf = Ended THEN <<>> ELSE q, OfCrlf)
    BY <1>9, <1>10, NoneLists
  <1>12. \A e \in OfCrlf : e.by = "crlf"
    BY <1>8, <1>10
  <1> QED BY <1>11, <1>12, Zenon DEF q, o

-----------------------------------------------------------------------------
(* Which NOLINT marks have been read, and what was done with what is found *)

OfStyle == IF Guard.style = "path" THEN {} ELSE {FirstOf("ifndef")}
GuardLines == IF ~IsHeader \/ Guard.nolint \/ ~Guard.defined THEN {}
              ELSE {LastOf("endif")} \cup OfStyle
MarksRead ==
  CASE pc \in {"comments", "ifndef"} -> {}
    [] pc = "endif" -> OfStyle
    [] pc = "line" -> GuardLines \cup LinesRead
    [] pc \in {"crlf", "restore"} -> GuardLines \cup DOMAIN Lines

InData == {"comments", "ifndef", "endif", "line", "crlf", "restore"}
Stages == {"read"} \cup InData
MarksInv ==
  pc \in InData =>
    /\ Text[name].readable /\ Text[name].ext \in valid_extensions
    /\ error_suppressions = UNION {ParsedNolint(n) : n \in MarksRead}
    /\ pc \in {"ifndef", "endif"} => linenum = 0 /\ IsHeader
    /\ pc = "endif" => ~Guard.nolint /\ Guard.defined

Done == {reported[i][2] : i \in Reports}
DoneInv ==
  pc \in Stages =>
    /\ ~Skipped
    /\ \A cat : Filtered(filters, cat) <=> FilteredOut(cat)
    /\ Done \cup {e \in ToSet(found) : Prints(e)} = {e \in SoFar : Prints(e)}
    /\ \A e \in ToSet(found) : ShouldPrintError(e) <=> Prints(e)
OnceInv ==
  /\ Lists(found, ToSet(found)) /\ Done \cap ToSet(found) = {}
  /\ \A i, j \in Reports : reported[i][2] = reported[j][2] => i = j

\* When the lines whose marks were read are those that are heard, what is
\* suppressed is what is silenced.
LEMMA Suppressed ==
  ASSUME NEW M, NEW E, E = UNION {ParsedNolint(n) : n \in M}, NEW e,
         \A n : Marked(n) /\ Target(n) = e.line => (n \in M <=> n \in Heard(e))
  PROVE  (<<e.cat, e.line>> \in E \/ <<AllCategories, e.line>> \in E) <=> Silenced(e)
  <1>1. \A c, n : <<c, e.line>> \in ParsedNolint(n) <=>
          /\ Marked(n) /\ Nolint(n).cat = c /\ Target(n) = e.line
          /\ c \in ErrorCategories \cup {AllCategories}
    BY DEF ParsedNolint
  <1>2. \A c : <<c, e.line>> \in E <=> \E n \in M : <<c, e.line>> \in ParsedNolint(n)
    OBVIOUS
  <1>3. \A c : <<c, e.line>> \in E <=>
          \E n \in Heard(e) : /\ Marked(n) /\ Nolint(n).cat = c /\ Target(n) = e.line
                              /\ c \in ErrorCategories \cup {AllCategories}
    BY <1>1, <1>2
  <1>4. <<AllCategories, e.line>> \in E <=>
          \E n \in Heard(e) : Marked(n) /\ Nolint(n).cat = AllCategories
                              /\ Target(n) = e.line
    BY <1>3
  <1>5. <<e.cat, e.line>> \in E <=>
          \E n \in Heard(e) : /\ Marked(n) /\ Nolint(n).cat = e.cat
                              /\ Target(n) = e.line
                              /\ e.cat \in ErrorCategories \cup {AllCategories}
    BY <1>3
  <1> QED BY <1>4, <1>5 DEF Silenced

\* A step of ProcessFileData hands over what it finds.
LEMMA StageStep ==
  ASSUME pc \in Stages, pc' \in Stages, DoneInv, OnceInv, found = <<>>,
         verbose_level = args.verbosity,
         UNCHANGED <<config, name, args, filters, verbose_level, fileNo, reported>>,
         NEW F, Lists(found', F), SoFar' = SoFar \cup F, SoFar \cap F = {},
         \A e \in F : IsErrorSuppressedByNolint(e.cat, e.line)' <=> Silenced(e)
  PROVE  DoneInv' /\ OnceInv'
  <1>1. /\ Skipped' <=> Skipped
        /\ \A cat : FilteredOut(cat)' <=> FilteredOut(cat)
        /\ \A e : Prints(e)' <=> Prints(e)
    BY SameFile
  <1>2. ToSet(found) = {} /\ ToSet(found') = F
    BY NoneLists DEF Lists
  <1>3. Reports' = Reports /\ Done' = Done
    BY DEF Reports, Done
  <1>4. /\ ~Skipped /\ \A cat : Filtered(filters, cat) <=> FilteredOut(cat)
        /\ Done = {e \in SoFar : Prints(e)}
    BY <1>2 DEF DoneInv
  <1>5. \A e \in F : ShouldPrintError(e)' <=> Prints(e)
    <2>1. \A e : ShouldPrintError(e)' <=>
                   /\ ~IsErrorSuppressedByNolint(e.cat, e.line)'
                   /\ e.conf >= verbose_level
                   /\ ~Filtered(filters, e.cat)
      BY DEF ShouldPrintError
    <2> QED BY <1>4, <2>1 DEF Prints
  <1>6. DoneInv'
    <2>1. ~Skipped' /\ \A cat : Filtered(filters', cat) <=> FilteredOut(cat)'
      BY <1>1, <1>4
    <2>2. Done' \cup {e \in ToSet(found') : Prints(e)'} = {e \in SoFar' : Prints(e)'}
      BY <1>1, <1>2, <1>3, <1>4
    <2>3. \A e \in ToSet(found') : ShouldPrintError(e)' <=> Prints(e)'
      BY <1>1, <1>2, <1>5
    <2> QED BY <2>1, <2>2, <2>3 DEF DoneInv
  <1>7. OnceInv'
    <2>1. Done' \cap ToSet(found') = {}
      BY <1>2, <1>3, <1>4
    <2>2. Lists(found', ToSet(found'))
      BY <1>2
    <2>3. \A i, j \in Reports' : reported'[i][2] = reported'[j][2] => i = j
      BY <1>3 DEF OnceInv
    <2> QED BY <2>1, <2>2, <2>3, Zenon DEF OnceInv
  <1> QED BY <1>6, <1>7

\* What the checks find is the same while the file and the line length are.
LEMMA SameStages ==
  ASSUME UNCHANGED <<name, line_length>>
  PROVE  /\ Lines' = Lines /\ Guard' = Guard /\ (IsHeader' <=> IsHeader)
         /\ OfCopyright' = OfCopyright /\ OfComments' = OfComments
         /\ OfIfndef' = OfIfndef /\ OfEndif' = OfEndif /\ OfGuard' = OfGuard
         /\ OfLate' = OfLate /\ OfCrlf' = OfCrlf /\ OfFile' = OfFile
         /\ OfStyle' = OfStyle /\ GuardLines' = GuardLines
         /\ \A n : Checked(n)' = Checked(n) /\ ParsedNolint(n)' = ParsedNolint(n)
         /\ \A lines : Found(lines)' = Found(lines)
  <1>1. Lines' = Lines /\ Guard' = Guard /\ (IsHeader' <=> IsHeader)
    BY DEF Lines, Guard, IsHeader
  <1>2. /\ \A r : Places(r)' = Places(r) /\ FirstOf(r)' = FirstOf(r)
                  /\ LastOf(r)' = LastOf(r)
        /\ \A n : Nolint(n)' = Nolint(n) /\ (Marked(n)' <=> Marked(n))
    BY <1>1 DEF Places, FirstOf, LastOf, Nolint, Marked
  <1>3. /\ \A n, by : UnknownNolint(n, by)' = UnknownNolint(n, by)
        /\ \A n : ParsedNolint(n)' = ParsedNolint(n)
        /\ \A n : Bad(n)' <=> Bad(n)
    BY <1>1, <1>2 DEF UnknownNolint, ParsedNolint, Target, Bad
  <1>4. \A n : LineLength(n)' = LineLength(n) /\ Finds(n)' = Finds(n)
    BY <1>1 DEF LineLength, Finds
  <1>5. \A n : Checked(n)' = Checked(n)
    BY <1>3, <1>4 DEF Checked
  <1>6. OfCopyright' = OfCopyright /\ OfComments' = OfComments
    BY <1>1, <1>2 DEF OfCopyright, CheckForCopyright, OfComments
  <1>7. OfIfndef' = OfIfndef /\ OfEndif' = OfEndif
    BY <1>1, <1>2, <1>3 DEF OfIfndef, OfEndif
  <1>8. OfGuard' = OfGuard
    BY <1>1, <1>2, <1>3 DEF OfGuard
  <1>9. Late' = Late /\ Ended' = Ended /\ Crlf' = Crlf /\ BadBytes' = BadBytes
        /\ CheckForNewlineAtEOF' = CheckForNewlineAtEOF
    BY <1>1 DEF Late, Ended, Crlf, BadBytes, CheckForNewlineAtEOF
  <1>10. OfLate' = OfLate /\ OfCrlf' = OfCrlf
    BY <1>9 DEF OfLate, OfCrlf
  <1>11. OfFile' = OfFile
    BY <1>1, <1>2, <1>9 DEF OfFile
  <1>12. OfStyle' = OfStyle /\ GuardLines' = GuardLines
    BY <1>1, <1>2 DEF OfStyle, GuardLines
  <1>13. \A lines : Found(lines)' = Found(lines)
    BY <1>5, <1>6, <1>8 DEF Found
  <1> QED BY <1>1, <1>3, <1>5, <1>6, <1>7, <1>8, <1>10, <1>11, <1>12, <1>13

LEMMA StageMarks ==
  ASSUME NEW M, error_suppressions' = UNION {ParsedNolint(n) : n \in M}, NEW e,
         \A n : Marked(n) /\ Target(n) = e.line => (n \in M <=> n \in Heard(e))
  PROVE  IsErrorSuppressedByNolint(e.cat, e.line)' <=> Silenced(e)
  <1>1. PICK E : E = error_suppressions'
    OBVIOUS
  <1>2. (<<e.cat, e.line>> \in E \/ <<AllCategories, e.line>> \in E) <=> Silenced(e)
    BY <1>1, Suppressed
  <1> QED BY <1>1, <1>2 DEF IsErrorSuppressedByNolint

LEMMA CheckingFacts ==
  ASSUME NEW from, NEW to, Checking(from, to)
  PROVE  /\ pc = from /\ pc' = to /\ found = <<>>
         /\ UNCHANGED <<config, name, args, filters, verbose_level, fileNo,
                        reported, line_length, valid_extensions>>
  BY DEF Checking, inputs, loop, lint, globals

LEMMA GuardTags ==
  /\ \A e \in OfGuard : e.by \in {"no guard", "ifndef", "endif"}
  /\ IsHeader /\ ~Guard.nolint /\ Guard.defined => OfGuard = OfIfndef \cup OfEndif
  <1>1. IsHeader /\ ~Guard.nolint /\ Guard.defined => OfGuard = OfIfndef \cup OfEndif
    BY DEF OfGuard, OfIfndef, OfEndif
  <1>2. \A e \in OfIfndef \cup OfEndif : e.by \in {"ifndef", "endif"}
    BY IfndefLists, EndifLists
  <1>3. CASE ~IsHeader \/ Guard.nolint
    BY <1>1, <1>3 DEF OfGuard
  <1>4. CASE IsHeader /\ ~Guard.nolint /\ ~Guard.defined
    BY <1>1, <1>4, NoGuardLists DEF OfGuard
  <1>5. CASE IsHeader /\ ~Guard.nolint /\ Guard.defined
    BY <1>1, <1>2, <1>5
  <1> QED BY <1>1, <1>3, <1>4, <1>5

RunInv ==
  /\ \A i \in DOMAIN reported : reported[i][1] \in Nat /\ reported[i][1] <= fileNo
  /\ pc \in Before => fileNo = 0
  /\ pc \in InFile \cup {"next"} => verbose_level = args.verbosity
  /\ pc \in {"dirs", "cfg"} => ConfigInv /\ Reports = {}
  /\ MarksInv /\ DoneInv /\ (pc \in Stages => OnceInv)
  /\ OwnErrors

StageInv == MarksInv /\ DoneInv /\ OnceInv

LEMMA StartDataInv ==
  ASSUME TypeInv, RunInv, StartData
  PROVE  StageInv'
  <1>1. /\ pc = "read" /\ pc' = "comments" /\ found = <<>>
        /\ UNCHANGED <<config, name, args, filters, verbose_level, fileNo,
                       reported, line_length, valid_extensions>>
        /\ found' = CheckForCopyright /\ error_suppressions' = {}
        /\ Text[name].readable /\ Text[name].ext \in valid_extensions
    BY CheckingFacts DEF StartData
  <1>2. /\ OfCopyright' = OfCopyright
        /\ Lists(found', OfCopyright) /\ \A e \in OfCopyright : e.by = "copyright"
    BY <1>1, SameStages, CopyrightLists
  <1>3. SoFar = {} /\ SoFar' = OfCopyright
    BY <1>1, <1>2 DEF SoFar
  <1>4. error_suppressions' = UNION {ParsedNolint(n) : n \in {}}
    BY <1>1
  <1>5. \A e \in OfCopyright : IsErrorSuppressedByNolint(e.cat, e.line)' <=> Silenced(e)
    <2> SUFFICES ASSUME NEW e \in OfCopyright
                 PROVE  IsErrorSuppressedByNolint(e.cat, e.line)' <=> Silenced(e)
      OBVIOUS
    <2>1. Heard(e) = {}
      BY <1>2 DEF Heard
    <2> QED BY <1>4, <2>1, StageMarks
  <1>6. DoneInv' /\ OnceInv'
    <2>1. pc \in Stages /\ pc' \in Stages
      BY <1>1 DEF Stages, InData
    <2>2. verbose_level = args.verbosity /\ DoneInv /\ OnceInv
      BY <1>1, <2>1 DEF RunInv, InFile
    <2>3. SoFar' = SoFar \cup OfCopyright /\ SoFar \cap OfCopyright = {}
      BY <1>3
    <2> QED BY <1>1, <1>2, <1>5, <2>1, <2>2, <2>3, StageStep
  <1>7. MarksInv'
    <2>1. MarksRead' = {}
      BY <1>1 DEF MarksRead
    <2>2. error_suppressions' = UNION {ParsedNolint(n)' : n \in MarksRead'}
      BY <1>1, <2>1
    <2> QED BY <1>1, <2>2 DEF MarksInv
  <1> QED BY <1>6, <1>7 DEF StageInv

LEMMA NoLinesRead ==
  ASSUME TypeInv, pc \in InFile, Lines' = Lines, linenum' = 0
  PROVE  LinesRead' = {}
  <1>1. \A n \in DOMAIN Lines : ~(n < 0)
    BY LinesFacts
  <1> QED BY <1>1 DEF LinesRead

LEMMA CommentsInv ==
  ASSUME TypeInv, RunInv, RemoveMultiLineComments
  PROVE  StageInv'
  <1> DEFINE to == IF Text[name].ext = "h" THEN "ifndef" ELSE "line"
             seq == IF FirstOf("unclosed") = 0 THEN <<>>
                    ELSE <<Err(FirstOf("unclosed") + 1,
                               <<"readability", "multiline_comment">>, 5,
                               "comments")>>
  <1>1. /\ pc = "comments" /\ pc' = to /\ found = <<>>
        /\ UNCHANGED <<config, name, args, filters, verbose_level, fileNo,
                       reported, line_length, valid_extensions>>
        /\ found' = seq /\ linenum' = 0
        /\ UNCHANGED error_suppressions
    BY CheckingFacts DEF RemoveMultiLineComments
  <1>0. pc \in InFile /\ pc \in Stages /\ pc' \in Stages
    BY <1>1 DEF InFile, Stages, InData
  <1>2. /\ Lists(seq, OfComments) /\ \A e \in OfComments : e.by = "comments"
        /\ \A e \in OfCopyright : e.by = "copyright"
    BY CommentsLists, CopyrightLists
  <1> HIDE DEF seq
  <1>3. /\ Lines' = Lines /\ (IsHeader' <=> IsHeader) /\ GuardLines' = GuardLines
        /\ OfCopyright' = OfCopyright /\ OfComments' = OfComments
        /\ OfGuard' = OfGuard /\ \A n : ParsedNolint(n)' = ParsedNolint(n)
        /\ \A lines : Found(lines)' = Found(lines)
    BY <1>1, SameStages
  <1>4. LinesRead' = {}
    BY <1>0, <1>1, <1>3, NoLinesRead
  <1>5. SoFar = OfCopyright /\ SoFar' = SoFar \cup OfComments
    <2>1. SoFar = OfCopyright
      BY <1>1 DEF SoFar
    <2>2. CASE to = "ifndef"
      BY <1>1, <1>3, <2>1, <2>2 DEF SoFar
    <2>3. CASE to = "line" /\ ~IsHeader
      <3>1. SoFar' = Found(LinesRead)'
        BY <1>1, <2>3 DEF SoFar
      <3>2. SoFar' = Found({})
        BY <1>3, <1>4, <3>1 DEF Found
      <3>3. OfGuard = {}
        BY <2>3 DEF OfGuard
      <3> QED BY <2>1, <3>2, <3>3 DEF Found
    <2> QED BY <2>2, <2>3 DEF IsHeader
  <1>6. MarksInv /\ MarksRead = {} /\ MarksRead' = {}
    <2>1. MarksInv /\ MarksRead = {}
      BY <1>1 DEF RunInv, MarksRead
    <2>2. CASE to = "ifndef"
      BY <1>1, <2>1, <2>2 DEF MarksRead
    <2>3. CASE to = "line" /\ ~IsHeader
      <3>1. GuardLines = {}
        BY <2>3 DEF GuardLines
      <3>2. MarksRead' = GuardLines' \cup LinesRead'
        BY <1>1, <2>3 DEF MarksRead
      <3> QED BY <1>3, <1>4, <2>1, <3>1, <3>2
    <2> QED BY <2>1, <2>2, <2>3 DEF IsHeader
  <1>7. error_suppressions' = UNION {ParsedNolint(n) : n \in {}}
    BY <1>1, <1>6 DEF MarksInv, InData
  <1>8. \A e \in OfComments : IsErrorSuppressedByNolint(e.cat, e.line)' <=> Silenced(e)
    <2> SUFFICES ASSUME NEW e \in OfComments
                 PROVE  IsErrorSuppressedByNolint(e.cat, e.line)' <=> Silenced(e)
      OBVIOUS
    <2>1. Heard(e) = {}
      BY <1>2 DEF Heard
    <2> QED BY <1>7, <2>1, StageMarks
  <1>9. DoneInv' /\ OnceInv'
    <2>2. verbose_level = args.verbosity /\ DoneInv /\ OnceInv
      BY <1>0 DEF RunInv
    <2>3. SoFar \cap OfComments = {}
      BY <1>2, <1>5
    <2> QED BY <1>0, <1>1, <1>2, <1>5, <1>8, <2>2, <2>3, StageStep
  <1>10. MarksInv'
    <2>1. Text[name].readable /\ Text[name].ext \in valid_extensions
      BY <1>1, <1>6 DEF MarksInv, InData
    <2>2. error_suppressions' = UNION {ParsedNolint(n)' : n \in MarksRead'}
      BY <1>6, <1>7
    <2>3. pc' \in {"ifndef", "endif"} => linenum' = 0 /\ IsHeader'
      BY <1>1, <1>3 DEF IsHeader
    <2> QED BY <1>1, <2>1, <2>2, <2>3 DEF MarksInv
  <1> QED BY <1>9, <1>10 DEF StageInv

LEMMA HeaderGuardInv ==
  ASSUME TypeInv, RunInv, CheckForHeaderGuard
  PROVE  StageInv'
  <1> DEFINE n == FirstOf("ifndef")
             none == Guard.nolint \/ ~Guard.defined
             guard == GuardError(n, IF Guard.style = "path_" THEN 0 ELSE 5, "ifndef")
             seq == CASE Guard.nolint -> <<>>
                      [] ~Guard.nolint /\ ~Guard.defined -> GuardError(0, 5, "no guard")
                      [] ~Guard.nolint /\ Guard.defined /\ Guard.style = "path" -> <<>>
                      [] OTHER -> UnknownNolint(n, "ifndef") \o guard
  <1>1. /\ pc = "ifndef" /\ pc' = (IF none THEN "line" ELSE "endif")
        /\ found = <<>>
        /\ UNCHANGED <<config, name, args, filters, verbose_level, fileNo,
                       reported, line_length, valid_extensions>>
        /\ found' = seq /\ linenum' = linenum
        /\ error_suppressions' = IF none \/ Guard.style = "path"
                                 THEN error_suppressions
                                 ELSE error_suppressions \cup ParsedNolint(n)
    <2>1. Checking("ifndef", IF none THEN "line" ELSE "endif")
      BY Zenon DEF CheckForHeaderGuard
    <2>2. found' = seq
      BY Zenon DEF CheckForHeaderGuard
    <2>3. /\ linenum' = linenum
          /\ error_suppressions' = IF none \/ Guard.style = "path"
                                   THEN error_suppressions
                                   ELSE error_suppressions \cup ParsedNolint(n)
      BY DEF CheckForHeaderGuard
    <2> HIDE DEF seq, n, none
    <2> QED BY <2>1, <2>2, <2>3, CheckingFacts
  <1>0. pc \in InFile /\ pc \in Stages /\ pc' \in Stages
    BY <1>1 DEF InFile, Stages, InData
  <1>2. /\ Text[name].readable /\ Text[name].ext \in valid_extensions
        /\ linenum = 0 /\ IsHeader /\ MarksRead = {}
        /\ error_suppressions = UNION {ParsedNolint(k) : k \in {}}
    <2>1. MarksInv /\ MarksRead = {}
      BY <1>1 DEF RunInv, MarksRead
    <2> QED BY <1>1, <2>1 DEF MarksInv, InData
  <1>3. /\ Lines' = Lines /\ Guard' = Guard /\ (IsHeader' <=> IsHeader)
        /\ GuardLines' = GuardLines /\ OfStyle' = OfStyle
        /\ OfCopyright' = OfCopyright /\ OfComments' = OfComments
        /\ OfIfndef' = OfIfndef /\ \A k : ParsedNolint(k)' = ParsedNolint(k)
        /\ \A lines : Found(lines)' = Found(lines)
    BY <1>1, SameStages
  <1>4. SoFar = OfCopyright \cup OfComments
    BY <1>1 DEF SoFar
  <1>5. /\ \A e \in OfCopyright : e.by = "copyright"
        /\ \A e \in OfComments : e.by = "comments"
    BY CopyrightLists, CommentsLists
  <1>6. verbose_level = args.verbosity /\ DoneInv /\ OnceInv
    BY <1>0 DEF RunInv
  <1> HIDE DEF n, guard
  <1>7. CASE none
    <2> DEFINE F == OfGuard
    <2>1. LinesRead' = {}
      BY <1>0, <1>1, <1>2, <1>3, NoLinesRead
    <2>2. SoFar' = SoFar \cup F
      <3>1. SoFar' = Found(LinesRead)'
        BY <1>1, <1>7 DEF SoFar
      <3>2. SoFar' = Found({})
        BY <1>1, <2>1, <3>1, SameStages DEF Found
      <3> QED BY <1>4, <3>2 DEF Found
    <2>3. Lists(found', F) /\ \A e \in F : e.by = "no guard"
      <3>1. CASE Guard.nolint
        <4>1. F = {} /\ seq = <<>>
          BY <3>1 DEF OfGuard
        <4> QED BY <1>1, <4>1, NoneLists
      <3>2. CASE ~Guard.nolint /\ ~Guard.defined
        <4>1. F = ToSet(GuardError(0, 5, "no guard"))
              /\ seq = GuardError(0, 5, "no guard")
          BY <1>2, <3>2 DEF OfGuard
        <4> HIDE DEF F, seq
        <4> QED BY <1>1, <4>1, NoGuardLists
      <3> QED BY <1>7, <3>1, <3>2
    <2> HIDE DEF F, seq
    <2>4. SoFar \cap F = {}
      BY <1>4, <1>5, <2>3
    <2>5. MarksRead' = {}
      <3>1. GuardLines = {}
        BY <1>7 DEF GuardLines
      <3>2. MarksRead' = GuardLines' \cup LinesRead'
        BY <1>1, <1>7 DEF MarksRead
      <3> QED BY <1>3, <2>1, <3>1, <3>2
    <2>6. error_suppressions' = UNION {ParsedNolint(k) : k \in {}}
      BY <1>1, <1>2, <1>7
    <2>7. \A e \in F : IsErrorSuppressedByNolint(e.cat, e.line)' <=> Silenced(e)
      <3> SUFFICES ASSUME NEW e \in F
                   PROVE  IsErrorSuppressedByNolint(e.cat, e.line)' <=> Silenced(e)
        OBVIOUS
      <3>1. Heard(e) = {}
        BY <2>3 DEF Heard
      <3> QED BY <2>6, <3>1, StageMarks
    <2>8. DoneInv' /\ OnceInv'
      BY <1>0, <1>1, <1>6, <2>2, <2>3, <2>4, <2>7, StageStep
    <2>9. MarksInv'
      <3>1. error_suppressions' = UNION {ParsedNolint(k)' : k \in MarksRead'}
        BY <2>5, <2>6
      <3> QED BY <1>1, <1>2, <1>7, <3>1 DEF MarksInv
    <2> QED BY <2>8, <2>9 DEF StageInv
  <1>8. CASE ~none
    <2> DEFINE F == OfIfndef
    <2>1. SoFar' = SoFar \cup F
      BY <1>1, <1>3, <1>4, <1>8 DEF SoFar
    <2>2. Lists(found', F) /\ \A e \in F : e.by = "ifndef" /\ e.line = n
      <3>1. \A e \in F : e.by = "ifndef" /\ e.line = n
        BY IfndefLists DEF n
      <3>2. CASE Guard.style = "path"
        <4>1. F = {} /\ seq = <<>>
          BY <1>8, <3>2 DEF OfIfndef
        <4> QED BY <1>1, <4>1, NoneLists
      <3>3. CASE Guard.style # "path"
        <4>1. seq = UnknownNolint(n, "ifndef") \o guard
          BY <1>8, <3>3
        <4>2. Lists(UnknownNolint(n, "ifndef") \o guard, F)
          BY <3>3, IfndefLists, Zenon DEF n, guard
        <4> QED BY <1>1, <3>1, <4>1, <4>2
      <3> QED BY <3>1, <3>2, <3>3
    <2> HIDE DEF F, seq
    <2>3. SoFar \cap F = {}
      BY <1>4, <1>5, <2>2
    <2>4. MarksRead' = OfStyle
      BY <1>1, <1>3, <1>8 DEF MarksRead
    <2>5. error_suppressions' = UNION {ParsedNolint(k) : k \in OfStyle}
      <3>1. OfStyle = IF Guard.style = "path" THEN {} ELSE {n}
        BY DEF OfStyle, n
      <3>2. CASE Guard.style = "path"
        BY <1>1, <1>2, <3>1, <3>2
      <3>3. CASE Guard.style # "path"
        <4>1. error_suppressions' = ParsedNolint(n)
          BY <1>1, <1>2, <1>8, <3>3
        <4> QED BY <3>1, <3>3, <4>1
      <3> QED BY <3>2, <3>3
    <2>6. \A e \in F : IsErrorSuppressedByNolint(e.cat, e.line)' <=> Silenced(e)
      <3> SUFFICES ASSUME NEW e \in F
                   PROVE  IsErrorSuppressedByNolint(e.cat, e.line)' <=> Silenced(e)
        OBVIOUS
      <3>1. Heard(e) = {n}
        BY <2>2 DEF Heard
      <3>2. OfStyle = {n}
        BY DEF OfStyle, n, F, OfIfndef
      <3> QED BY <2>5, <3>1, <3>2, StageMarks
    <2>7. DoneInv' /\ OnceInv'
      BY <1>0, <1>1, <1>6, <2>1, <2>2, <2>3, <2>6, StageStep
    <2>8. MarksInv'
      <3>1. error_suppressions' = UNION {ParsedNolint(k)' : k \in MarksRead'}
        BY <1>3, <2>4, <2>5
      <3> QED BY <1>1, <1>2, <1>3, <1>8, <3>1 DEF MarksInv
    <2> QED BY <2>7, <2>8 DEF StageInv
  <1> QED BY <1>7, <1>8

LEMMA GuardEndInv ==
  ASSUME TypeInv, RunInv, CheckGuardEnd
  PROVE  StageInv'
  <1> DEFINE n == LastOf("endif")
             seq == UnknownNolint(n, "endif") \o
                      (IF Guard.comment = "path" THEN <<>>
                       ELSE GuardError(n,
                              IF Guard.comment = "path_" THEN 0 ELSE 5, "endif"))
  <1>1. /\ pc = "endif" /\ pc' = "line" /\ found = <<>>
        /\ UNCHANGED <<config, name, args, filters, verbose_level, fileNo,
                       reported, line_length, valid_extensions>>
        /\ found' = seq /\ linenum' = linenum
        /\ error_suppressions' = error_suppressions \cup ParsedNolint(n)
    BY CheckingFacts DEF CheckGuardEnd
  <1>0. pc \in InFile /\ pc \in Stages /\ pc' \in Stages
    BY <1>1 DEF InFile, Stages, InData
  <1>2. /\ Text[name].readable /\ Text[name].ext \in valid_extensions
        /\ linenum = 0 /\ IsHeader /\ ~Guard.nolint /\ Guard.defined
        /\ error_suppressions = UNION {ParsedNolint(k) : k \in OfStyle}
    <2>1. MarksInv /\ MarksRead = OfStyle
      BY <1>1 DEF RunInv, MarksRead
    <2> QED BY <1>1, <2>1 DEF MarksInv, InData
  <1>3. /\ Lines' = Lines /\ GuardLines' = GuardLines /\ OfGuard' = OfGuard
        /\ OfCopyright' = OfCopyright /\ OfComments' = OfComments
        /\ \A k : ParsedNolint(k)' = ParsedNolint(k)
        /\ \A lines : Found(lines)' = Found(lines)
    BY <1>1, SameStages
  <1>4. /\ \A e \in OfCopyright : e.by = "copyright"
        /\ \A e \in OfComments : e.by = "comments"
        /\ \A e \in OfIfndef : e.by = "ifndef"
        /\ Lists(seq, OfEndif) /\ \A e \in OfEndif : e.by = "endif" /\ e.line = n
    BY CopyrightLists, CommentsLists, IfndefLists, EndifLists
  <1>5. verbose_level = args.verbosity /\ DoneInv /\ OnceInv
    BY <1>0 DEF RunInv
  <1> HIDE DEF n, seq
  <1>6. LinesRead' = {}
    BY <1>0, <1>1, <1>2, <1>3, NoLinesRead
  <1>7. SoFar = OfCopyright \cup OfComments \cup OfIfndef
    BY <1>1 DEF SoFar
  <1>8. SoFar' = SoFar \cup OfEndif
    <2>1. SoFar' = Found(LinesRead)'
      BY <1>1 DEF SoFar
    <2>2. SoFar' = Found({})
      BY <1>1, <1>6, <2>1, SameStages DEF Found
    <2>3. OfGuard = OfIfndef \cup OfEndif
      BY <1>2, GuardTags
    <2> QED BY <1>7, <2>2, <2>3 DEF Found
  <1>9. SoFar \cap OfEndif = {}
    BY <1>4, <1>7
  <1>10. MarksRead' = {n} \cup OfStyle
    <2>1. GuardLines = {n} \cup OfStyle
      BY <1>2 DEF GuardLines, n
    <2>2. MarksRead' = GuardLines' \cup LinesRead'
      BY <1>1 DEF MarksRead
    <2> QED BY <1>3, <1>6, <2>1, <2>2
  <1>11. error_suppressions' = UNION {ParsedNolint(k) : k \in {n} \cup OfStyle}
    BY <1>1, <1>2
  <1>12. \A e \in OfEndif : IsErrorSuppressedByNolint(e.cat, e.line)' <=> Silenced(e)
    <2> SUFFICES ASSUME NEW e \in OfEndif
                 PROVE  IsErrorSuppressedByNolint(e.cat, e.line)' <=> Silenced(e)
      OBVIOUS
    <2>1. Heard(e) = {n} \cup OfStyle
      BY <1>4 DEF Heard, OfStyle
    <2> QED BY <1>11, <2>1, StageMarks
  <1>13. DoneInv' /\ OnceInv'
    BY <1>0, <1>1, <1>4, <1>5, <1>8, <1>9, <1>12, StageStep
  <1>14. MarksInv'
    <2>1. error_suppressions' = UNION {ParsedNolint(k)' : k \in MarksRead'}
      BY <1>3, <1>10, <1>11
    <2> QED BY <1>1, <1>2, <2>1 DEF MarksInv
  <1> QED BY <1>13, <1>14 DEF StageInv

\* What is found while and after the lines are read hears every mark.
LEMMA LineMarks ==
  ASSUME NEW M, error_suppressions' = UNION {ParsedNolint(n) : n \in M}, NEW e,
         e.by \in {"line", "find", "width", "late", "nul", "eof", "crlf"},
         \A n \in DOMAIN Lines : Target(n) = e.line => n \in M
  PROVE  IsErrorSuppressedByNolint(e.cat, e.line)' <=> Silenced(e)
  <1>1. Heard(e) = DOMAIN Lines
    BY DEF Heard
  <1>2. \A n : Marked(n) /\ Target(n) = e.line => (n \in M <=> n \in Heard(e))
    BY <1>1 DEF Marked
  <1> QED BY <1>2, StageMarks

LEMMA FoundTags ==
  ASSUME TypeInv, pc \in InFile, NEW lines \in SUBSET (DOMAIN Lines),
         NEW e \in Found(lines)
  PROVE  \/ e.by \in {"copyright", "comments", "no guard", "ifndef", "endif"}
         \/ e.by \in {"line", "find", "width"} /\ e.line \in lines
  <1>1. CASE e \in OfCopyright \cup OfComments \cup OfGuard
    BY <1>1, CopyrightLists, CommentsLists, GuardTags
  <1>2. CASE e \in UNION {Checked(n) : n \in lines}
    <2>1. PICK n \in lines : e \in Checked(n)
      BY <1>2
    <2> QED BY <2>1, CheckedLists
  <1> QED BY <1>1, <1>2 DEF Found

LEMMA ProcessLineInv ==
  ASSUME TypeInv, RunInv, ProcessLine
  PROVE  StageInv'
  <1> DEFINE n == linenum
             F == IF n \in DOMAIN Lines THEN Checked(n) ELSE {}
  <1>1. /\ pc = "line" /\ pc' = "line" /\ found = <<>>
        /\ UNCHANGED <<config, name, args, filters, verbose_level, fileNo,
                       reported, line_length, valid_extensions>>
        /\ found' = (IF n \in DOMAIN Lines
                     THEN UnknownNolint(n, "line") \o Finds(n) \o LineLength(n)
                     ELSE <<>>)
        /\ linenum' = n + 1
        /\ error_suppressions' = error_suppressions \cup ParsedNolint(n)
    <2>1. Checking("line", "line")
      BY DEF ProcessLine
    <2> QED BY <2>1, CheckingFacts DEF ProcessLine
  <1>0. pc \in InFile /\ pc \in Stages /\ pc' \in Stages
    BY <1>1 DEF InFile, Stages, InData
  <1>2. /\ Text[name].readable /\ Text[name].ext \in valid_extensions
        /\ error_suppressions = UNION {ParsedNolint(k) : k \in GuardLines \cup LinesRead}
    <2>1. MarksInv /\ MarksRead = GuardLines \cup LinesRead
      BY <1>1 DEF RunInv, MarksRead
    <2> QED BY <1>1, <2>1 DEF MarksInv, InData
  <1>3. /\ Lines' = Lines /\ GuardLines' = GuardLines
        /\ \A k : ParsedNolint(k)' = ParsedNolint(k)
        /\ \A lines : Found(lines)' = Found(lines)
    BY <1>1, SameStages
  <1>4. DOMAIN Lines = 1..Len(Lines) /\ Len(Lines) \in Nat /\ n \in Nat
    BY <1>0, LinesFacts DEF TypeInv, TypeOK
  <1>5. LinesRead' = LinesRead \cup {k \in DOMAIN Lines : k = n}
    <2>1. LinesRead' = {k \in DOMAIN Lines : k < n + 1}
      BY <1>1, <1>3 DEF LinesRead
    <2>2. \A k \in DOMAIN Lines : k < n + 1 <=> (k < n \/ k = n)
      BY <1>4
    <2> QED BY <2>1, <2>2 DEF LinesRead
  <1>6. LinesRead \in SUBSET (DOMAIN Lines) /\ n \notin LinesRead
    BY <1>4 DEF LinesRead
  <1>7. Lists(found', F)
    BY <1>0, <1>1, CheckedLists, NoneLists
  <1>8. \A e \in F : e.line = n /\ e.by \in {"line", "find", "width"} /\ n \in DOMAIN Lines
    BY <1>0, CheckedLists
  <1>15. /\ n \in DOMAIN Lines => F = Checked(n)
         /\ n \notin DOMAIN Lines => F = {}
    OBVIOUS
  <1> HIDE DEF F
  <1>9. SoFar = Found(LinesRead) /\ SoFar' = SoFar \cup F
    <2>1. SoFar = Found(LinesRead) /\ SoFar' = Found(LinesRead)'
      BY <1>1 DEF SoFar
    <2>2. PICK S : S = LinesRead'
      OBVIOUS
    <2>3. SoFar' = Found(S)
      <3>1. \A k : Checked(k)' = Checked(k)
        BY <1>1, SameStages
      <3>2. OfCopyright' = OfCopyright /\ OfComments' = OfComments /\ OfGuard' = OfGuard
        BY <1>1, SameStages
      <3> QED BY <2>1, <2>2, <3>1, <3>2 DEF Found
    <2>4. PICK A, U, V : /\ A = OfCopyright \cup OfComments \cup OfGuard
                         /\ U = UNION {Checked(k) : k \in LinesRead}
                         /\ V = UNION {Checked(k) : k \in S}
      OBVIOUS
    <2>5. Found(S) = A \cup V /\ Found(LinesRead) = A \cup U
      BY <2>4, Zenon DEF Found
    <2>6. /\ \A x : x \in V <=> \E k \in S : x \in Checked(k)
          /\ \A x : x \in U <=> \E k \in LinesRead : x \in Checked(k)
      BY <2>4
    <2> HIDE DEF LinesRead
    <2>7. S = LinesRead \cup {k \in DOMAIN Lines : k = n}
      BY <1>5, <2>2
    <2>8. \A x : x \in V <=> x \in U \/ x \in F
      <3>1. CASE n \in DOMAIN Lines
        <4>1. S = LinesRead \cup {n}
          BY <2>7, <3>1
        <4>2. \A x : x \in V <=> x \in U \/ x \in Checked(n)
          BY <2>6, <4>1, Zenon
        <4> QED BY <1>15, <3>1, <4>2, Zenon
      <3>2. CASE n \notin DOMAIN Lines
        <4>1. S = LinesRead
          BY <2>7, <3>2
        <4> QED BY <1>15, <2>6, <3>2, <4>1
      <3> QED BY <3>1, <3>2
    <2>9. A \cup V = (A \cup U) \cup F
      BY <2>8
    <2> QED BY <2>1, <2>3, <2>5, <2>9
  <1>10. SoFar \cap F = {}
    <2> SUFFICES ASSUME NEW e \in SoFar, e \in F PROVE FALSE
      OBVIOUS
    <2>1. e.line = n /\ e.by \in {"line", "find", "width"}
      BY <1>8
    <2>2. \/ e.by \in {"copyright", "comments", "no guard", "ifndef", "endif"}
          \/ e.by \in {"line", "find", "width"} /\ e.line \in LinesRead
      BY <1>0, <1>6, <1>9, FoundTags
    <2> QED BY <1>6, <2>1, <2>2
  <1>11. error_suppressions' = UNION {ParsedNolint(k) : k \in GuardLines \cup LinesRead'}
    <2> HIDE DEF LinesRead
    <2>1. CASE n \in DOMAIN Lines
      <3>1. LinesRead' = LinesRead \cup {n}
        BY <1>5, <2>1
      <3> QED BY <1>1, <1>2, <3>1
    <2>2. CASE n \notin DOMAIN Lines
      <3>1. LinesRead' = LinesRead
        BY <1>5, <2>2
      <3>2. ParsedNolint(n) = {}
        BY <2>2 DEF ParsedNolint, Marked
      <3> QED BY <1>1, <1>2, <3>1, <3>2
    <2> QED BY <2>1, <2>2
  <1>12. \A e \in F : IsErrorSuppressedByNolint(e.cat, e.line)' <=> Silenced(e)
    <2> SUFFICES ASSUME NEW e \in F
                 PROVE  IsErrorSuppressedByNolint(e.cat, e.line)' <=> Silenced(e)
      OBVIOUS
    <2>1. PICK M : M = GuardLines \cup LinesRead'
      OBVIOUS
    <2>2. ASSUME NEW k \in DOMAIN Lines, Target(k) = e.line PROVE k \in M
      <3>1. Target(k) = k \/ Target(k) = k + 1
        BY DEF Target
      <3>2. e.line = n
        BY <1>8
      <3>3. k \in Nat /\ (k = n \/ k < n)
        BY <1>4, <2>2, <3>1, <3>2
      <3>4. k \in LinesRead \cup {i \in DOMAIN Lines : i = n}
        BY <2>2, <3>3 DEF LinesRead
      <3> QED BY <1>5, <2>1, <3>4
    <2>3. error_suppressions' = UNION {ParsedNolint(k) : k \in M}
      BY <1>11, <2>1
    <2> QED BY <1>8, <2>2, <2>3, LineMarks
  <1>13. DoneInv' /\ OnceInv'
    <2>1. verbose_level = args.verbosity /\ DoneInv /\ OnceInv
      BY <1>0 DEF RunInv
    <2> QED BY <1>0, <1>1, <1>7, <1>9, <1>10, <1>12, <2>1, StageStep
  <1>14. MarksInv'
    <2>1. MarksRead' = GuardLines' \cup LinesRead'
      BY <1>1 DEF MarksRead
    <2>2. error_suppressions' = UNION {ParsedNolint(k)' : k \in MarksRead'}
      BY <1>3, <1>11, <2>1
    <2> QED BY <1>1, <1>2, <2>2 DEF MarksInv
  <1> QED BY <1>13, <1>14 DEF StageInv

LEMMA AfterLinesInv ==
  ASSUME TypeInv, RunInv, AfterLines
  PROVE  StageInv'
  <1> DEFINE seq == Late \o CheckForBadCharacters \o CheckForNewlineAtEOF
             M == GuardLines \cup DOMAIN Lines
  <1>1. /\ pc = "line" /\ pc' = "crlf" /\ found = <<>>
        /\ UNCHANGED <<config, name, args, filters, verbose_level, fileNo,
                       reported, line_length, valid_extensions>>
        /\ found' = seq /\ linenum > Len(Lines) + 1
        /\ error_suppressions' = error_suppressions
    <2>1. Checking("line", "crlf")
      BY DEF AfterLines
    <2> QED BY <2>1, CheckingFacts DEF AfterLines
  <1>0. pc \in InFile /\ pc \in Stages /\ pc' \in Stages
    BY <1>1 DEF InFile, Stages, InData
  <1>2. LinesRead = DOMAIN Lines
    <2>1. DOMAIN Lines = 1..Len(Lines) /\ Len(Lines) \in Nat /\ linenum \in Nat
      BY <1>0, LinesFacts DEF TypeInv, TypeOK
    <2>2. \A k \in DOMAIN Lines : k < linenum
      BY <1>1, <2>1
    <2> QED BY <2>2 DEF LinesRead
  <1>3. /\ Text[name].readable /\ Text[name].ext \in valid_extensions
        /\ error_suppressions = UNION {ParsedNolint(k) : k \in M}
    <2>1. MarksInv /\ MarksRead = M
      BY <1>1, <1>2 DEF RunInv, MarksRead
    <2> QED BY <1>1, <2>1 DEF MarksInv, InData
  <1>4. /\ Lines' = Lines /\ GuardLines' = GuardLines /\ OfLate' = OfLate
        /\ \A k : ParsedNolint(k)' = ParsedNolint(k)
        /\ \A k : Checked(k)' = Checked(k)
        /\ OfCopyright' = OfCopyright /\ OfComments' = OfComments /\ OfGuard' = OfGuard
    BY <1>1, SameStages
  <1>5. Lists(seq, OfLate) /\ \A e \in OfLate : e.by \in {"late", "nul", "eof"}
    BY <1>0, LateLists
  <1>6. M = GuardLines \cup DOMAIN Lines
    OBVIOUS
  <1> HIDE DEF seq, M
  <1>7. SoFar = Found(DOMAIN Lines) /\ SoFar' = SoFar \cup OfLate
    <2>1. SoFar = Found(DOMAIN Lines) /\ SoFar' = Found(DOMAIN Lines)' \cup OfLate'
      BY <1>1, <1>2 DEF SoFar
    <2>2. Found(DOMAIN Lines)' = Found(DOMAIN Lines)
      BY <1>4 DEF Found
    <2> QED BY <1>4, <2>1, <2>2
  <1>8. SoFar \cap OfLate = {}
    <2> SUFFICES ASSUME NEW e \in SoFar, e \in OfLate PROVE FALSE
      OBVIOUS
    <2>1. e.by \in {"copyright", "comments", "no guard", "ifndef", "endif",
                    "line", "find", "width"}
      BY <1>0, <1>7, FoundTags
    <2> QED BY <1>5, <2>1
  <1>9. error_suppressions' = UNION {ParsedNolint(k) : k \in M}
    BY <1>1, <1>3
  <1>10. \A e \in OfLate : IsErrorSuppressedByNolint(e.cat, e.line)' <=> Silenced(e)
    <2> SUFFICES ASSUME NEW e \in OfLate
                 PROVE  IsErrorSuppressedByNolint(e.cat, e.line)' <=> Silenced(e)
      OBVIOUS
    <2>1. e.by \in {"line", "find", "width", "late", "nul", "eof", "crlf"}
      BY <1>5
    <2>2. \A k \in DOMAIN Lines : Target(k) = e.line => k \in M
      BY <1>6
    <2> QED BY <1>9, <2>1, <2>2, LineMarks
  <1>11. DoneInv' /\ OnceInv'
    <2>1. verbose_level = args.verbosity /\ DoneInv /\ OnceInv
      BY <1>0 DEF RunInv
    <2> QED BY <1>0, <1>1, <1>5, <1>7, <1>8, <1>10, <2>1, StageStep
  <1>12. MarksInv'
    <2>1. MarksRead' = M
      BY <1>1, <1>4, <1>6 DEF MarksRead
    <2>2. error_suppressions' = UNION {ParsedNolint(k)' : k \in MarksRead'}
      BY <1>4, <1>9, <2>1
    <2> QED BY <1>1, <1>3, <2>2 DEF MarksInv
  <1> QED BY <1>11, <1>12 DEF StageInv

LEMMA CheckNewlinesInv ==
  ASSUME TypeInv, RunInv, CheckNewlines
  PROVE  StageInv'
  <1> DEFINE seq == IF Crlf = Ended THEN <<>>
                    ELSE [i \in DOMAIN InOrder(Crlf) |->
                            UnexpectedCr(InOrder(Crlf)[i])]
             M == GuardLines \cup DOMAIN Lines
  <1>1. /\ pc = "crlf" /\ pc' = "restore" /\ found = <<>>
        /\ UNCHANGED <<config, name, args, filters, verbose_level, fileNo,
                       reported, line_length, valid_extensions>>
        /\ found' = seq
        /\ error_suppressions' = error_suppressions
    <2>1. Checking("crlf", "restore")
      BY DEF CheckNewlines
    <2> QED BY <2>1, CheckingFacts DEF CheckNewlines
  <1>0. pc \in InFile /\ pc \in Stages /\ pc' \in Stages
    BY <1>1 DEF InFile, Stages, InData
  <1>3. /\ Text[name].readable /\ Text[name].ext \in valid_extensions
        /\ error_suppressions = UNION {ParsedNolint(k) : k \in M}
    <2>1. MarksInv /\ MarksRead = M
      BY <1>1 DEF RunInv, MarksRead
    <2> QED BY <1>1, <2>1 DEF MarksInv, InData
  <1>4. /\ Lines' = Lines /\ GuardLines' = GuardLines /\ OfLate' = OfLate
        /\ OfCrlf' = OfCrlf
        /\ \A k : ParsedNolint(k)' = ParsedNolint(k)
        /\ \A k : Checked(k)' = Checked(k)
        /\ OfCopyright' = OfCopyright /\ OfComments' = OfComments /\ OfGuard' = OfGuard
    BY <1>1, SameStages
  <1>5. Lists(seq, OfCrlf) /\ \A e \in OfCrlf : e.by = "crlf"
    BY <1>0, CrlfLists
  <1>6. M = GuardLines \cup DOMAIN Lines
    OBVIOUS
  <1> HIDE DEF seq, M
  <1>7. SoFar = Found(DOMAIN Lines) \cup OfLate /\ SoFar' = SoFar \cup OfCrlf
    <2>1. /\ SoFar = Found(DOMAIN Lines) \cup OfLate
          /\ SoFar' = Found(DOMAIN Lines)' \cup OfLate' \cup OfCrlf'
      BY <1>1 DEF SoFar
    <2>2. Found(DOMAIN Lines)' = Found(DOMAIN Lines)
      BY <1>4 DEF Found
    <2> QED BY <1>4, <2>1, <2>2
  <1>8. SoFar \cap OfCrlf = {}
    <2> SUFFICES ASSUME NEW e \in SoFar, e \in OfCrlf PROVE FALSE
      OBVIOUS
    <2>1. CASE e \in Found(DOMAIN Lines)
      BY <1>0, <1>5, <2>1, FoundTags
    <2>2. CASE e \in OfLate
      BY <1>0, <1>5, <2>2, LateLists
    <2> QED BY <1>7, <2>1, <2>2
  <1>9. error_suppressions' = UNION {ParsedNolint(k) : k \in M}
    BY <1>1, <1>3
  <1>10. \A e \in OfCrlf : IsErrorSuppressedByNolint(e.cat, e.line)' <=> Silenced(e)
    <2> SUFFICES ASSUME NEW e \in OfCrlf
                 PROVE  IsErrorSuppressedByNolint(e.cat, e.line)' <=> Silenced(e)
      OBVIOUS
    <2>1. e.by \in {"line", "find", "width", "late", "nul", "eof", "crlf"}
      BY <1>5
    <2>2. \A k \in DOMAIN Lines : Target(k) = e.line => k \in M
      BY <1>6
    <2> QED BY <1>9, <2>1, <2>2, LineMarks
  <1>11. DoneInv' /\ OnceInv'
    <2>1. verbose_level = args.verbosity /\ DoneInv /\ OnceInv
      BY <1>0 DEF RunInv
    <2> QED BY <1>0, <1>1, <1>5, <1>7, <1>8, <1>10, <2>1, StageStep
  <1>12. MarksInv'
    <2>1. MarksRead' = M
      BY <1>1, <1>4, <1>6 DEF MarksRead
    <2>2. error_suppressions' = UNION {ParsedNolint(k)' : k \in MarksRead'}
      BY <1>4, <1>9, <2>1
    <2> QED BY <1>1, <1>3, <2>2 DEF MarksInv
  <1> QED BY <1>11, <1>12 DEF StageInv

\* The first of a list in which nothing comes twice is not in the rest.
LEMMA RestLists ==
  ASSUME NEW q, Lists(q, ToSet(q)), q # <<>>
  PROVE  /\ Head(q) \in ToSet(q)
         /\ ToSet(Tail(q)) = ToSet(q) \ {Head(q)}
         /\ Lists(Tail(q), ToSet(Tail(q)))
  <1>1. PICK S : S = ToSet(q)
    OBVIOUS
  <1>2. q \in Seq(S) /\ IsInjective(q)
    BY <1>1 DEF Lists
  <1>3. PICK r : r = Tail(q)
    OBVIOUS
  <1>4. /\ Head(q) \in ToSet(q) /\ r \in Seq(S) /\ IsInjective(r)
        /\ ToSet(r) = ToSet(q) \ {Head(q)}
    BY <1>2, <1>3, TailFacts
  <1>5. r \in Seq(ToSet(r))
    <2>1. PICK k \in Nat : DOMAIN r = 1..k /\ Len(r) = k
      BY <1>4, LenProperties
    <2>2. \A j \in 1..k : r[j] \in ToSet(r)
      BY <2>1 DEF ToSet
    <2>3. r = [j \in 1..k |-> r[j]]
      BY <1>4, <2>1
    <2>4. PICK T : T = ToSet(r)
      OBVIOUS
    <2>5. [j \in 1..k |-> r[j]] \in Seq(T)
      BY <2>2, <2>4
    <2> QED BY <2>3, <2>4, <2>5
  <1> QED BY <1>3, <1>4, <1>5 DEF Lists

\* An error that is counted is one more of the file at hand.
LEMMA OneReport ==
  ASSUME CountsInv, NEW e, reported' = Append(reported, <<fileNo, e>>),
         fileNo' = fileNo
  PROVE  \E n \in Nat : /\ n \notin Reports /\ Reports' = Reports \cup {n}
                        /\ \A i \in Reports : reported'[i] = reported[i]
                        /\ reported'[n] = <<fileNo, e>>
                        /\ DOMAIN reported' = DOMAIN reported \cup {n}
                        /\ \A i \in DOMAIN reported : reported'[i] = reported[i]
  <1>1. PICK S : reported \in Seq(S)
    BY DEF CountsInv
  <1>2. PICK k \in Nat :
          /\ DOMAIN reported = 1..k /\ DOMAIN reported' = 1..(k + 1)
          /\ \A i \in 1..k : reported'[i] = reported[i]
          /\ reported'[k + 1] = <<fileNo, e>>
    <2>1. reported \in Seq(S \cup {<<fileNo, e>>})
      BY <1>1
    <2> QED BY <2>1
  <1>3. Reports' = {i \in 1..(k + 1) : reported'[i][1] = fileNo}
    BY <1>2 DEF Reports
  <1>4. Reports = {i \in 1..k : reported[i][1] = fileNo}
    BY <1>2 DEF Reports
  <1>5. 1..(k + 1) = 1..k \cup {k + 1} /\ k + 1 \notin 1..k /\ k + 1 \in Nat
    OBVIOUS
  <1>6. reported'[k + 1][1] = fileNo
    BY <1>2
  <1>7. Reports' = Reports \cup {k + 1}
    BY <1>2, <1>3, <1>4, <1>5, <1>6
  <1> QED BY <1>2, <1>4, <1>5, <1>7

\* Error() takes the next of what was found, and counts it if it is promised.
LEMMA ErrorInv ==
  ASSUME TypeInv, CountsInv, RunInv, Error
  PROVE  StageInv'
  <1> DEFINE e == Head(found)
             rest == ToSet(found) \ {e}
  <1>1. /\ found # <<>> /\ found' = Tail(found) /\ pc' = pc
        /\ UNCHANGED <<config, name, args, filters, verbose_level, fileNo,
                       line_length, valid_extensions, error_suppressions, linenum>>
        /\ IF ShouldPrintError(e) THEN reported' = Append(reported, <<fileNo, e>>)
           ELSE reported' = reported
    BY DEF Error, inputs, loop, globals
  <1>2. pc \in InData /\ pc \in Stages /\ pc \in InFile
    <2>1. pc \notin Quiet /\ pc \in Before \cup {"next", "exited"} \cup InFile
      BY <1>1 DEF CountsInv
    <2> QED BY <2>1 DEF Quiet, Before, InFile, InData, Stages
  <1>3. DoneInv /\ OnceInv /\ MarksInv
    BY <1>2 DEF RunInv
  <1>4. /\ e \in ToSet(found) /\ ToSet(found') = rest
        /\ Lists(found', ToSet(found')) /\ e \notin Done
    <2>1. Lists(found, ToSet(found)) /\ Done \cap ToSet(found) = {}
      BY <1>3 DEF OnceInv
    <2>2. /\ Head(found) \in ToSet(found)
          /\ ToSet(Tail(found)) = ToSet(found) \ {Head(found)}
          /\ Lists(Tail(found), ToSet(Tail(found)))
      BY <1>1, <2>1, RestLists
    <2> QED BY <1>1, <2>1, <2>2
  <1>5. \A x : ShouldPrintError(x)' <=> ShouldPrintError(x)
    BY <1>1 DEF ShouldPrintError, IsErrorSuppressedByNolint
  <1>6. /\ Skipped' <=> Skipped
        /\ \A cat : FilteredOut(cat)' <=> FilteredOut(cat)
        /\ \A x : Prints(x)' <=> Prints(x)
    BY <1>1, SameFile
  <1>7. MarksRead' = MarksRead /\ SoFar' = SoFar
    <2>1. /\ Lines' = Lines /\ GuardLines' = GuardLines /\ OfStyle' = OfStyle
          /\ OfCopyright' = OfCopyright /\ OfComments' = OfComments
          /\ OfIfndef' = OfIfndef /\ OfGuard' = OfGuard
          /\ OfLate' = OfLate /\ OfCrlf' = OfCrlf
          /\ \A k : Checked(k)' = Checked(k)
      BY <1>1, SameStages
    <2>2. LinesRead' = LinesRead
      BY <1>1, <2>1 DEF LinesRead
    <2>3. Found(LinesRead)' = Found(LinesRead)
      BY <2>1, <2>2 DEF Found
    <2>4. Found(DOMAIN Lines)' = Found(DOMAIN Lines)
      BY <2>1 DEF Found
    <2> QED BY <1>1, <2>1, <2>2, <2>3, <2>4 DEF MarksRead, SoFar
  <1>8. MarksInv'
    <2>1. \A k : ParsedNolint(k)' = ParsedNolint(k)
      BY <1>1, SameStages
    <2>2. error_suppressions' = UNION {ParsedNolint(n)' : n \in MarksRead'}
      BY <1>1, <1>2, <1>3, <1>7, <2>1 DEF MarksInv
    <2> QED BY <1>1, <1>2, <1>3, <2>2, SameStages DEF MarksInv
  <1>9. /\ Done' = Done \cup {x \in {e} : Prints(x)}
        /\ \A i, j \in Reports' : reported'[i][2] = reported'[j][2] => i = j
    <2>0. ShouldPrintError(e) <=> Prints(e)
      BY <1>2, <1>3, <1>4 DEF DoneInv
    <2>1. CASE ~ShouldPrintError(e)
      <3>1. Reports' = Reports /\ reported' = reported
        BY <1>1, <2>1 DEF Reports
      <3> QED BY <1>3, <2>0, <2>1, <3>1 DEF Done, OnceInv
    <2>2. CASE ShouldPrintError(e)
      <3>1. PICK x : x = e
        OBVIOUS
      <3>2. reported' = Append(reported, <<fileNo, x>>) /\ fileNo' = fileNo
        BY <1>1, <2>2, <3>1
      <3>3. PICK n \in Nat :
              /\ n \notin Reports /\ Reports' = Reports \cup {n}
              /\ \A i \in Reports : reported'[i] = reported[i]
              /\ reported'[n] = <<fileNo, x>>
        BY <3>2, OneReport
      <3>4. reported'[n][2] = x
        BY <3>3
      <3>5. Done' = Done \cup {x}
        BY <3>3, <3>4 DEF Done
      <3>6. \A i \in Reports : reported'[i][2] # x
        BY <1>4, <3>1, <3>3 DEF Done
      <3>7. \A i, j \in Reports' : reported'[i][2] = reported'[j][2] => i = j
        <4>1. \A i, j \in Reports : reported'[i][2] = reported'[j][2] => i = j
          BY <1>3, <3>3 DEF OnceInv
        <4> QED BY <3>3, <3>4, <3>6, <4>1
      <3> QED BY <2>0, <2>2, <3>1, <3>5, <3>7
    <2> QED BY <2>1, <2>2
  <1> HIDE DEF e, rest
  <1>10. rest = ToSet(found) \ {e}
    BY DEF rest
  <1>11. DoneInv'
    <2>1. Done' \cup {x \in ToSet(found') : Prints(x)}
            = Done \cup {x \in ToSet(found) : Prints(x)}
      BY <1>4, <1>9, <1>10
    <2>2. Done' \cup {x \in ToSet(found') : Prints(x)'} = {x \in SoFar' : Prints(x)'}
      BY <1>2, <1>3, <1>6, <1>7, <2>1 DEF DoneInv
    <2>3. ~Skipped' /\ \A cat : Filtered(filters', cat) <=> FilteredOut(cat)'
      BY <1>1, <1>2, <1>3, <1>6 DEF DoneInv
    <2>4. \A x \in ToSet(found') : ShouldPrintError(x)' <=> Prints(x)'
      BY <1>2, <1>3, <1>4, <1>5, <1>6, <1>10 DEF DoneInv
    <2> QED BY <2>2, <2>3, <2>4 DEF DoneInv
  <1>12. OnceInv'
    <2>1. Done' \cap ToSet(found') = {}
      BY <1>3, <1>4, <1>9, <1>10 DEF OnceInv
    <2> QED BY <1>4, <1>9, <2>1, Zenon DEF OnceInv
  <1> QED BY <1>8, <1>11, <1>12 DEF StageInv

\* A file whose filters were applied has nothing reported of it yet.
LEMMA ApplyFiltersInv ==
  ASSUME TypeInv, CountsInv, RunInv, ApplyFilters, pc' = "read"
  PROVE  StageInv'
  <1>1. /\ pc = "dirs" /\ ConfigInv /\ Reports = {}
        /\ UNCHANGED <<config, name, args, fileNo, found, reported>>
    BY DEF RunInv, ApplyFilters, Exit, ReadingConfig, inputs, loop
  <1>2. found' = <<>>
    BY <1>1 DEF CountsInv, Quiet
  <1>3. ToSet(found') = {}
    BY <1>2, NoneLists DEF Lists
  <1>4. Reports' = {} /\ Done' = {} /\ SoFar' = {}
    BY <1>1 DEF Reports, Done, SoFar
  <1>5. ~Skipped' /\ \A cat : Filtered(filters', cat) <=> FilteredOut(cat)'
    BY <1>1, FiltersApplied, SameFile
  <1>6. DoneInv'
    <2>1. Done' \cup {x \in ToSet(found') : Prints(x)'} = {x \in SoFar' : Prints(x)'}
      BY <1>3, <1>4
    <2>2. \A x \in ToSet(found') : ShouldPrintError(x)' <=> Prints(x)'
      BY <1>3
    <2> QED BY <1>5, <2>1, <2>2 DEF DoneInv
  <1>7. OnceInv'
    <2>1. Lists(found', ToSet(found'))
      BY <1>2, <1>3, NoneLists
    <2> QED BY <1>4, <2>1, Zenon DEF OnceInv
  <1>8. MarksInv'
    BY DEF MarksInv, InData
  <1> QED BY <1>6, <1>7, <1>8 DEF StageInv

\* All that is found of a file, however it is grouped.
LEMMA AllFound ==
  ASSUME TypeInv, pc \in InFile
  PROVE  Found(DOMAIN Lines) \cup OfLate \cup OfCrlf
           = OfGuard \cup OfFile \cup UNION {Checked(n) : n \in DOMAIN Lines}
  <1> DEFINE C == Err(0, <<"legal", "copyright">>, 5, "copyright")
             M(n) == Err(n + 1, <<"readability", "multiline_comment">>, 5, "comments")
             E(n) == Err(n, <<"whitespace", "ending_newline">>, 5, "eof")
             P == Places("unclosed")
             Cs == {C : x \in {y \in {1} : \A n \in DOMAIN Lines :
                                 n > 10 \/ ~Lines[n].copyright}}
             Ms == {M(n) : n \in {m \in P : \A k \in P : m <= k}}
             Ns == {BadByte(n) : n \in Places("nul")}
             Es == {E(n) : n \in {m \in {Len(Lines)} : Lines[m].role # "empty"}}
             Rs == {UnexpectedCr(n) :
                      n \in {m \in Ended : Lines[m].cr /\ \E k \in Ended : ~Lines[k].cr}}
  <1>1. DOMAIN Lines = 1..Len(Lines) /\ Len(Lines) \in Nat
    BY LinesFacts
  <1>2. OfCopyright = Cs
    <2>1. CASE \E n \in DOMAIN Lines : n <= 10 /\ Lines[n].copyright
      <3>1. OfCopyright = {}
        BY <2>1, NoneLists DEF OfCopyright, CheckForCopyright, Lists
      <3>2. ~\A n \in DOMAIN Lines : n > 10 \/ ~Lines[n].copyright
        BY <1>1, <2>1
      <3> QED BY <3>1, <3>2
    <2>2. CASE ~\E n \in DOMAIN Lines : n <= 10 /\ Lines[n].copyright
      <3>1. OfCopyright = {C}
        BY <2>2, SingleSet DEF OfCopyright, CheckForCopyright
      <3>2. \A n \in DOMAIN Lines : n > 10 \/ ~Lines[n].copyright
        BY <1>1, <2>2
      <3> QED BY <3>1, <3>2
    <2> QED BY <2>1, <2>2
  <1>3. OfComments = Ms
    <2>1. P \subseteq Nat /\ 0 \notin P
      BY <1>1 DEF Places
    <2>2. CASE P = {}
      BY <2>2 DEF OfComments, FirstOf
    <2>3. CASE P # {}
      <3>1. PICK a \in P : \A k \in P : a <= k
        BY <2>1, <2>3, Least
      <3>2. FirstOf("unclosed") \in P /\ \A k \in P : FirstOf("unclosed") <= k
        BY <2>3, <3>1 DEF FirstOf
      <3>3. {m \in P : \A k \in P : m <= k} = {FirstOf("unclosed")}
        BY <2>1, <3>2
      <3>4. Ms = {M(FirstOf("unclosed"))}
        BY <3>3
      <3>5. OfComments = {M(FirstOf("unclosed"))}
        BY <2>1, <3>2 DEF OfComments
      <3> QED BY <3>4, <3>5
    <2> QED BY <2>2, <2>3
  <1>4. {BadByte(n) : n \in BadBytes} = Ns
    BY DEF BadBytes, Places
  <1>5. ToSet(CheckForNewlineAtEOF) = Es
    <2>1. CASE Lines[Len(Lines)].role = "empty"
      <3>1. ToSet(CheckForNewlineAtEOF) = {}
        BY <2>1, NoneLists DEF CheckForNewlineAtEOF, Lists
      <3> QED BY <2>1, <3>1
    <2>2. CASE Lines[Len(Lines)].role # "empty"
      <3>1. ToSet(CheckForNewlineAtEOF) = {E(Len(Lines))}
        BY <2>2, SingleSet DEF CheckForNewlineAtEOF
      <3> QED BY <2>2, <3>1
    <2> QED BY <2>1, <2>2
  <1>6. OfCrlf = Rs
    <2>1. CASE Crlf = Ended
      <3>1. \A k \in Ended : Lines[k].cr
        BY <2>1 DEF Crlf
      <3> QED BY <2>1, <3>1 DEF OfCrlf
    <2>2. CASE Crlf # Ended
      <3>1. PICK k \in Ended : ~Lines[k].cr
        BY <2>2 DEF Crlf
      <3>2. {m \in Ended : Lines[m].cr /\ \E j \in Ended : ~Lines[j].cr} = Crlf
        BY <3>1 DEF Crlf
      <3> QED BY <2>2, <3>2 DEF OfCrlf
    <2> QED BY <2>1, <2>2
  <1>7. OfFile = Cs \cup Ms \cup ToSet(Late) \cup Ns \cup Es \cup Rs
    BY Zenon DEF OfFile, C, M, E, P, Cs, Ms, Ns, Es, Rs
  <1>8. OfLate = ToSet(Late) \cup Ns \cup Es
    BY <1>4, <1>5, Zenon DEF OfLate
  <1> HIDE DEF Cs, Ms, Ns, Es, Rs
  <1>9. PICK L, K : /\ L = ToSet(Late)
                    /\ K = UNION {Checked(n) : n \in DOMAIN Lines}
    OBVIOUS
  <1>10. Found(DOMAIN Lines) = Cs \cup Ms \cup OfGuard \cup K
    BY <1>2, <1>3, <1>9, Zenon DEF Found
  <1> QED BY <1>6, <1>7, <1>8, <1>9, <1>10

\* What is promised stays the same when the file is left.
LEMMA FileLeft ==
  ASSUME UNCHANGED <<config, name, args, line_length, valid_extensions, fileNo,
                     reported>>,
         Done = Promised,
         \A i, j \in Reports : reported[i][2] = reported[j][2] => i = j
  PROVE  OwnErrors'
  <1>1. (Skipped' <=> Skipped) /\ \A e : Prints(e)' <=> Prints(e)
    BY SameFile
  <1>2. /\ Lines' = Lines /\ OfGuard' = OfGuard /\ OfFile' = OfFile
        /\ \A n : Checked(n)' = Checked(n)
    BY SameStages
  <1>3. Promised' = Promised
    BY <1>1, <1>2 DEF Promised
  <1>4. Reports' = Reports /\ Done' = Done
    BY DEF Reports, Done
  <1> QED BY <1>3, <1>4 DEF OwnErrors, Done

LEMMA ExcludeFileInv ==
  ASSUME TypeInv, RunInv, ExcludeFile
  PROVE  OwnErrors'
  <1>1. /\ pc = "cfg" /\ ConfigInv /\ Reports = {}
        /\ UNCHANGED <<config, name, args, line_length, valid_extensions, fileNo,
                       reported>>
    BY DEF RunInv, ExcludeFile, ReadingConfig, inputs, loop
  <1>2. Promised = {}
    BY <1>1, ExcludeSkips DEF Promised
  <1>3. Done = {}
    BY <1>1 DEF Done
  <1> QED BY <1>1, <1>2, <1>3, FileLeft

LEMMA NotReadInv ==
  ASSUME TypeInv, RunInv, NotRead
  PROVE  OwnErrors'
  <1>1. /\ pc = "read"
        /\ ~Text[name].readable \/ Text[name].ext \notin valid_extensions
        /\ UNCHANGED <<config, name, args, line_length, valid_extensions, fileNo,
                       reported>>
    BY DEF NotRead, inputs, loop, globals
  <1>2. Promised = {}
    BY <1>1 DEF Promised
  <1>3. DoneInv /\ OnceInv /\ SoFar = {}
    BY <1>1 DEF RunInv, Stages, SoFar
  <1>4. Done = {}
    BY <1>1, <1>3 DEF DoneInv, Stages
  <1> QED BY <1>1, <1>2, <1>3, <1>4, FileLeft DEF OnceInv

LEMMA FinishFileInv ==
  ASSUME TypeInv, RunInv, FinishFile
  PROVE  OwnErrors'
  <1>1. /\ pc = "restore" /\ found = <<>>
        /\ UNCHANGED <<config, name, args, line_length, valid_extensions, fileNo,
                       reported>>
    BY DEF FinishFile, inputs, loop, globals
  <1>2. pc \in InFile /\ pc \in InData /\ pc \in Stages
    BY <1>1 DEF InFile, InData, Stages
  <1>3. DoneInv /\ OnceInv /\ MarksInv
    BY <1>2 DEF RunInv
  <1>4. SoFar = OfGuard \cup OfFile \cup UNION {Checked(n) : n \in DOMAIN Lines}
    <2>1. SoFar = Found(DOMAIN Lines) \cup OfLate \cup OfCrlf
      BY <1>1 DEF SoFar
    <2> QED BY <1>2, <2>1, AllFound
  <1>5. Done = {e \in SoFar : Prints(e)}
    <2>1. ToSet(found) = {}
      BY <1>1, NoneLists DEF Lists
    <2> QED BY <1>2, <1>3, <2>1 DEF DoneInv
  <1>6. /\ ~Skipped /\ Text[name].readable /\ Text[name].ext \in valid_extensions
    BY <1>2, <1>3 DEF DoneInv, MarksInv
  <1>7. Promised = {e \in SoFar : Prints(e)}
    BY <1>4, <1>6, Zenon DEF Promised
  <1> QED BY <1>1, <1>3, <1>5, <1>7, FileLeft DEF OnceInv

\* Nothing is reported of a file that was not begun.
LEMMA StartFileRun ==
  ASSUME TypeInv, FiltersInv, RunInv, StartFile
  PROVE  RunInv'
  <1>1. /\ pc = "next" /\ pc' = "dirs" /\ fileNo' = fileNo + 1
        /\ UNCHANGED <<reported, verbose_level, args>>
        /\ fileNo \in Nat
    BY DEF StartFile, lint, TypeInv, TypeOK
  <1>2. \A i \in DOMAIN reported : reported[i][1] \in Nat /\ reported[i][1] <= fileNo
    BY DEF RunInv
  <1>3. /\ \A i \in DOMAIN reported' : reported'[i][1] \in Nat
                                       /\ reported'[i][1] <= fileNo'
        /\ Reports' = {}
    <2>1. \A i \in DOMAIN reported : reported[i][1] <= fileNo + 1
                                     /\ reported[i][1] # fileNo + 1
      BY <1>1, <1>2
    <2>2. Reports' = {i \in DOMAIN reported : reported[i][1] = fileNo + 1}
      BY <1>1 DEF Reports
    <2> QED BY <1>1, <1>2, <2>1, <2>2
  <1>4. verbose_level' = args'.verbosity
    BY <1>1 DEF RunInv
  <1>5. ConfigInv'
    BY StartFileInv
  <1>6. /\ pc' \notin Before /\ pc' \notin InData /\ pc' \notin Stages /\ pc' # "next"
    BY <1>1 DEF Before, InData, Stages
  <1>7. MarksInv' /\ DoneInv' /\ OwnErrors'
    BY <1>6 DEF MarksInv, DoneInv, OwnErrors
  <1> QED BY <1>3, <1>4, <1>5, <1>6, <1>7 DEF RunInv

-----------------------------------------------------------------------------
(* The invariant of a run, step by step                                    *)

\* A step before the first file, or the last one of the run.
LEMMA RunOutside ==
  ASSUME RunInv, UNCHANGED <<fileNo, reported>>,
         \/ pc' = "exited"
         \/ pc \in Before /\ pc' \in Before
  PROVE  RunInv'
  <1>1. /\ \A i \in DOMAIN reported' : reported'[i][1] \in Nat
                                       /\ reported'[i][1] <= fileNo'
        /\ pc' \in Before => fileNo' = 0
    BY DEF RunInv, Before
  <1>2. pc' \notin InFile \cup {"next"} /\ pc' \notin Stages /\ pc' \notin InData
    BY DEF Before, InFile, Stages, InData
  <1>3. pc' \notin {"dirs", "cfg"} /\ pc' # "next"
    BY <1>2 DEF InFile
  <1>4. MarksInv' /\ DoneInv' /\ OwnErrors'
    BY <1>2, <1>3 DEF MarksInv, DoneInv, OwnErrors
  <1> QED BY <1>1, <1>2, <1>3, <1>4 DEF RunInv

\* A step that reads the configurations of a file.
LEMMA RunConfig ==
  ASSUME RunInv, UNCHANGED <<fileNo, reported, verbose_level, args>>,
         pc \in {"dirs", "cfg"}, pc' \in {"dirs", "cfg"}, ConfigInv'
  PROVE  RunInv'
  <1>1. pc \in InFile /\ pc' \notin Before /\ pc' \notin Stages \cup InData /\ pc' # "next"
    BY DEF InFile, Before, Stages, InData
  <1>2. MarksInv' /\ DoneInv' /\ OwnErrors'
    BY <1>1 DEF MarksInv, DoneInv, OwnErrors
  <1>3. Reports' = {}
    BY DEF RunInv, Reports
  <1>4. verbose_level' = args'.verbosity
    BY <1>1 DEF RunInv
  <1>5. \A i \in DOMAIN reported' : reported'[i][1] \in Nat
                                    /\ reported'[i][1] <= fileNo'
    BY DEF RunInv
  <1> QED BY <1>1, <1>2, <1>3, <1>4, <1>5 DEF RunInv

\* A step that checks a file.
LEMMA RunStage ==
  ASSUME RunInv, UNCHANGED <<fileNo, verbose_level, args>>,
         pc \in {"dirs"} \cup Stages, pc' \in Stages, StageInv',
         \A i \in DOMAIN reported' : reported'[i][1] \in Nat
                                     /\ reported'[i][1] <= fileNo'
  PROVE  RunInv'
  <1>1. /\ pc \in InFile /\ pc' \notin Before /\ pc' \notin {"dirs", "cfg"}
        /\ pc' # "next"
    BY DEF InFile, Before, Stages, InData
  <1>2. OwnErrors'
    BY <1>1 DEF OwnErrors
  <1>3. verbose_level' = args'.verbosity
    BY <1>1 DEF RunInv
  <1> QED BY <1>1, <1>2, <1>3 DEF RunInv, StageInv

\* A step that leaves a file.
LEMMA RunLeft ==
  ASSUME RunInv, UNCHANGED <<fileNo, reported, verbose_level, args>>,
         pc \in InFile, pc' = "next", OwnErrors'
  PROVE  RunInv'
  <1>1. pc' \notin Before /\ pc' \notin {"dirs", "cfg"} /\ pc' \notin Stages \cup InData
    BY DEF Before, Stages, InData
  <1>2. MarksInv' /\ DoneInv'
    BY <1>1 DEF MarksInv, DoneInv
  <1>3. verbose_level' = args'.verbosity
    BY DEF RunInv
  <1>4. \A i \in DOMAIN reported' : reported'[i][1] \in Nat
                                    /\ reported'[i][1] <= fileNo'
    BY DEF RunInv
  <1> QED BY <1>1, <1>2, <1>3, <1>4 DEF RunInv

LEMMA ConfigureRun ==
  ASSUME RunInv, Configure
  PROVE  RunInv'
  <1>1. UNCHANGED <<fileNo, reported, args>> /\ pc \in Before
    BY DEF Configure, Exit, loop, Before
  <1>2. CASE ~Signed(args.filters)
    <2>1. pc' = "exited"
      BY <1>2 DEF Configure, Exit
    <2> QED BY <1>1, <2>1, RunOutside
  <1>3. CASE Signed(args.filters)
    <2>1. pc' = "next" /\ verbose_level' = args'.verbosity
      BY <1>1, <1>3 DEF Configure
    <2>2. fileNo' = 0 /\ pc' \notin Before /\ pc' \notin {"dirs", "cfg"}
          /\ pc' \notin Stages \cup InData
      BY <1>1, <2>1 DEF RunInv, Before, Stages, InData
    <2>3. MarksInv' /\ DoneInv' /\ OwnErrors'
      BY <2>2 DEF MarksInv, DoneInv, OwnErrors
    <2>4. \A i \in DOMAIN reported' : reported'[i][1] \in Nat
                                      /\ reported'[i][1] <= fileNo'
      BY <1>1 DEF RunInv
    <2> QED BY <2>1, <2>2, <2>3, <2>4 DEF RunInv
  <1> QED BY <1>2, <1>3

LEMMA ErrorRun ==
  ASSUME TypeInv, CountsInv, RunInv, Error
  PROVE  RunInv'
  <1>1. UNCHANGED <<pc, fileNo, verbose_level, args>>
    BY DEF Error, loop
  <1>2. pc \in Stages
    <2>1. pc \notin Quiet /\ pc \in Before \cup {"next", "exited"} \cup InFile
      BY DEF Error, CountsInv
    <2> QED BY <2>1 DEF Quiet, Before, InFile, InData, Stages
  <1>3. \A i \in DOMAIN reported' : reported'[i][1] \in Nat
                                    /\ reported'[i][1] <= fileNo'
    <2>1. /\ \A i \in DOMAIN reported : reported[i][1] \in Nat
                                        /\ reported[i][1] <= fileNo
          /\ fileNo \in Nat
      BY DEF RunInv, TypeInv, TypeOK
    <2>2. CASE ~ShouldPrintError(Head(found))
      BY <1>1, <2>1, <2>2 DEF Error
    <2>3. CASE ShouldPrintError(Head(found))
      <3>1. PICK e : reported' = Append(reported, <<fileNo, e>>)
        BY <2>3 DEF Error
      <3>2. PICK n \in Nat : /\ reported'[n] = <<fileNo, e>>
                             /\ DOMAIN reported' = DOMAIN reported \cup {n}
                             /\ \A i \in DOMAIN reported : reported'[i] = reported[i]
        BY <1>1, <3>1, OneReport
      <3>3. reported'[n][1] = fileNo
        BY <3>2
      <3> QED BY <1>1, <2>1, <3>2, <3>3
    <2> QED BY <2>2, <2>3
  <1> QED BY <1>1, <1>2, <1>3, ErrorInv, RunStage

\* A step of ProcessFileData.
LEMMA CheckingRun ==
  ASSUME RunInv, StageInv', NEW from, NEW to, Checking(from, to),
         from \in Stages, to \in Stages
  PROVE  RunInv'
  <1>1. pc \in Stages /\ pc' \in Stages
        /\ UNCHANGED <<fileNo, verbose_level, args, reported>>
    BY CheckingFacts
  <1>2. \A i \in DOMAIN reported' : reported'[i][1] \in Nat
                                    /\ reported'[i][1] <= fileNo'
    BY <1>1 DEF RunInv
  <1> QED BY <1>1, <1>2, RunStage

LEMMA ConfigIdle ==
  ASSUME UNCHANGED vars
  PROVE  ConfigInv' <=> ConfigInv
  <1>1. UNCHANGED <<config, name, pc, over, filters, args>>
    BY DEF vars, inputs, loop
  <1>2. /\ Seen' = Seen /\ \A d : Stops(d)' <=> Stops(d)
        /\ \A i : Counts(i)' <=> Counts(i)
        /\ \A k : Given(k)' = Given(k)
        /\ \A g : Value(g)' = Value(g) /\ Part(g)' = Part(g)
    BY <1>1, SameConfig
  <1>3. Here' = Here /\ Consumed' = Consumed
    BY <1>1, <1>2 DEF Here, Consumed
  <1>4. \A g : WasRead(g)' <=> WasRead(g)
    BY <1>1, <1>3 DEF WasRead
  <1>5. (InDirs' <=> InDirs) /\ (InCfg' <=> InCfg)
    BY <1>1, <1>2, <1>3 DEF InDirs, InCfg
  <1>6. {g \in Given("filter") : WasRead(g)}' = {g \in Given("filter") : WasRead(g)}
    BY <1>2, <1>4
  <1>7. \A G : Gathered(G, {g \in Given("filter") : WasRead(g)}, over.filters)' <=>
               Gathered(G, {g \in Given("filter") : WasRead(g)}, over.filters)
    BY <1>1, <1>2, <1>6 DEF Gathered
  <1>8. filters' = filters /\ Kept' = Kept
    BY <1>1 DEF Kept
  <1> QED BY <1>1, <1>2, <1>4, <1>5, <1>7, <1>8 DEF ConfigInv

LEMMA RunIdle ==
  ASSUME RunInv, UNCHANGED vars
  PROVE  RunInv'
  <1>1. UNCHANGED <<config, name, args, filters, verbose_level, fileNo, pc, found,
                    reported, line_length, valid_extensions, error_suppressions,
                    linenum>>
    BY DEF vars, inputs, loop, lint, globals
  <1>2. /\ Skipped' <=> Skipped
        /\ \A cat : FilteredOut(cat)' <=> FilteredOut(cat)
        /\ \A e : Prints(e)' <=> Prints(e)
    BY <1>1, SameFile
  <1>3. /\ Lines' = Lines /\ Guard' = Guard /\ (IsHeader' <=> IsHeader)
        /\ OfCopyright' = OfCopyright /\ OfComments' = OfComments
        /\ OfIfndef' = OfIfndef /\ OfGuard' = OfGuard /\ OfFile' = OfFile
        /\ OfLate' = OfLate /\ OfCrlf' = OfCrlf
        /\ OfStyle' = OfStyle /\ GuardLines' = GuardLines
        /\ \A n : Checked(n)' = Checked(n) /\ ParsedNolint(n)' = ParsedNolint(n)
    BY <1>1, SameStages
  <1>4. LinesRead' = LinesRead
    BY <1>1, <1>3 DEF LinesRead
  <1>5. MarksRead' = MarksRead
    BY <1>1, <1>3, <1>4 DEF MarksRead
  <1>6. SoFar' = SoFar
    <2>1. Found(LinesRead)' = Found(LinesRead)
      BY <1>3, <1>4 DEF Found
    <2>2. Found(DOMAIN Lines)' = Found(DOMAIN Lines)
      BY <1>3 DEF Found
    <2> QED BY <1>1, <1>3, <2>1, <2>2 DEF SoFar
  <1>7. Reports' = Reports /\ Done' = Done
    BY <1>1 DEF Reports, Done
  <1>8. Promised' = Promised
    BY <1>1, <1>2, <1>3 DEF Promised
  <1>9. \A e : ShouldPrintError(e)' <=> ShouldPrintError(e)
    BY <1>1 DEF ShouldPrintError, IsErrorSuppressedByNolint
  <1>10. MarksInv => MarksInv'
    <2>1. UNION {ParsedNolint(n)' : n \in MarksRead'}
            = UNION {ParsedNolint(n) : n \in MarksRead}
      BY <1>3, <1>5
    <2> QED BY <1>1, <1>3, <2>1 DEF MarksInv
  <1>11. DoneInv => DoneInv'
    <2>1. {e \in SoFar' : Prints(e)'} = {e \in SoFar : Prints(e)}
      BY <1>2, <1>6
    <2>2. {e \in ToSet(found') : Prints(e)'} = {e \in ToSet(found) : Prints(e)}
      BY <1>1, <1>2
    <2> QED BY <1>1, <1>2, <1>7, <1>9, <2>1, <2>2 DEF DoneInv
  <1>12. OnceInv => OnceInv'
    BY <1>1, <1>7 DEF OnceInv
  <1>13. OwnErrors => OwnErrors'
    BY <1>1, <1>7, <1>8 DEF OwnErrors
  <1> QED BY <1>1, <1>7, <1>10, <1>11, <1>12, <1>13, ConfigIdle DEF RunInv

LEMMA InitRunInv == Init => RunInv
  <1> SUFFICES ASSUME Init PROVE RunInv
    OBVIOUS
  <1>1. pc = "getopt" /\ fileNo = 0 /\ reported = <<>>
    BY DEF Init
  <1>2. DOMAIN reported = {}
    BY <1>1
  <1>3. pc \notin InFile \cup {"next", "dirs", "cfg"} \cup Stages \cup InData
    BY <1>1 DEF InFile, Stages, InData
  <1>4. MarksInv /\ DoneInv /\ OwnErrors
    BY <1>3 DEF MarksInv, DoneInv, OwnErrors
  <1> QED BY <1>1, <1>2, <1>3, <1>4 DEF RunInv

LEMMA RunStep ==
  ASSUME TypeInv, FiltersInv, CountsInv, RunInv, [Next]_vars
  PROVE  RunInv'
  <1>0. /\ "read" \in Stages /\ "comments" \in Stages /\ "ifndef" \in Stages
        /\ "endif" \in Stages /\ "line" \in Stages /\ "crlf" \in Stages
        /\ "restore" \in Stages
    BY DEF Stages, InData
  <1>1. CASE GetOpt \/ PrintUsage \/ ParseOption \/ NoFilesGiven
    <2>1. UNCHANGED <<fileNo, reported>> /\ pc \in Before
          /\ (pc' = "exited" \/ pc' \in Before)
      BY <1>1 DEF GetOpt, PrintUsage, ParseOption, NoFilesGiven, Exit, loop, Before
    <2> QED BY <2>1, RunOutside
  <1>2. CASE Configure
    BY <1>2, ConfigureRun
  <1>3. CASE StartFile
    BY <1>3, StartFileRun
  <1>4. CASE LookInDir \/ ConfigLine \/ ConfigEnd
    <2>1. /\ UNCHANGED <<fileNo, reported, verbose_level, args>>
          /\ pc \in {"dirs", "cfg"} /\ pc' \in {"dirs", "cfg"}
      BY <1>4 DEF LookInDir, ConfigLine, ConfigEnd, ReadingConfig, loop, lint
    <2>2. ConfigInv
      BY <2>1 DEF RunInv
    <2>3. ConfigInv'
      <3>1. CASE LookInDir
        BY <2>2, <3>1, LookInDirInv DEF LookInDir
      <3>2. CASE ConfigLine
        BY <2>2, <3>2, ConfigLineInv DEF ConfigLine
      <3>3. CASE ConfigEnd
        BY <2>2, <3>3, ConfigEndInv DEF ConfigEnd
      <3> QED BY <1>4, <3>1, <3>2, <3>3
    <2> QED BY <2>1, <2>3, RunConfig
  <1>5. CASE ApplyFilters
    <2>1. /\ UNCHANGED <<fileNo, reported, verbose_level, args>>
          /\ pc = "dirs" /\ pc' \in {"read", "exited"}
      BY <1>5 DEF ApplyFilters, Exit, ReadingConfig, loop, lint
    <2>2. CASE pc' = "exited"
      BY <2>1, <2>2, RunOutside
    <2>3. CASE pc' = "read"
      <3>1. StageInv'
        BY <1>5, <2>3, ApplyFiltersInv
      <3>2. \A i \in DOMAIN reported' : reported'[i][1] \in Nat
                                        /\ reported'[i][1] <= fileNo'
        BY <2>1 DEF RunInv
      <3> QED BY <1>0, <2>1, <2>3, <3>1, <3>2, RunStage
    <2> QED BY <2>1, <2>2, <2>3
  <1>6. CASE ExcludeFile \/ NotRead \/ FinishFile
    <2>1. /\ UNCHANGED <<fileNo, reported, verbose_level, args>>
          /\ pc \in InFile /\ pc' = "next"
      BY <1>6 DEF ExcludeFile, NotRead, FinishFile, ReadingConfig, loop, lint, InFile
    <2> QED BY <1>6, <2>1, ExcludeFileInv, NotReadInv, FinishFileInv, RunLeft
  <1>7. CASE StartData
    BY <1>0, <1>7, StartDataInv, CheckingRun DEF StartData
  <1>8. CASE RemoveMultiLineComments
    BY <1>0, <1>8, CommentsInv, CheckingRun DEF RemoveMultiLineComments
  <1>9. CASE CheckForHeaderGuard
    BY <1>0, <1>9, HeaderGuardInv, CheckingRun DEF CheckForHeaderGuard
  <1>10. CASE CheckGuardEnd
    BY <1>0, <1>10, GuardEndInv, CheckingRun DEF CheckGuardEnd
  <1>11. CASE ProcessLine
    <2>1. Checking("line", "line")
      BY <1>11 DEF ProcessLine
    <2> QED BY <1>0, <1>11, <2>1, ProcessLineInv, CheckingRun
  <1>12. CASE AfterLines
    <2>1. Checking("line", "crlf")
      BY <1>12 DEF AfterLines
    <2> QED BY <1>0, <1>12, <2>1, AfterLinesInv, CheckingRun
  <1>13. CASE CheckNewlines
    <2>1. Checking("crlf", "restore")
      BY <1>13 DEF CheckNewlines
    <2> QED BY <1>0, <1>13, <2>1, CheckNewlinesInv, CheckingRun
  <1>14. CASE Error
    BY <1>14, ErrorRun
  <1>15. CASE Finish
    <2>1. UNCHANGED <<fileNo, reported>> /\ pc' = "exited"
      BY <1>15 DEF Finish, Exit, loop
    <2> QED BY <2>1, RunOutside
  <1>16. CASE UNCHANGED vars
    BY <1>16, RunIdle
  <1> QED
    BY <1>1, <1>2, <1>3, <1>4, <1>5, <1>6, <1>7, <1>8, <1>9, <1>10, <1>11, <1>12,
       <1>13, <1>14, <1>15, <1>16 DEF Next

\* What is reported of a file is what its own text, the command line and the
\* configurations above it ask for, and each error once, whatever was checked
\* before it: ProcessFile, ProcessConfigOverrides, ProcessFileData and Error
\* leave nothing of one file's filters or NOLINT marks to the next.
THEOREM ErrorsAreOwn == Spec => []OwnErrors
  <1> DEFINE Inv == TypeInv /\ FiltersInv /\ CountsInv /\ RunInv
  <1>1. Init => Inv
    BY InitTypeInv, FiltersInit, CountsInit, InitRunInv
  <1>2. Inv /\ [Next]_vars => Inv'
    BY TypeStep, FiltersStep, CountsStep, RunStep
  <1>3. Inv => OwnErrors
    BY DEF RunInv
  <1> QED
    BY <1>1, <1>2, <1>3, PTL DEF Spec

=============================================================================
