-------------------------- MODULE SqliteDaoProofs --------------------------
(***************************************************************************)
(* SqliteDao: proofs for any number of processes, tables and rows, and for *)
(* every limit.                                                            *)
(*                                                                         *)
(* A statement number is done with once "next" has passed it, and nothing  *)
(* is said of a number before: whatever is stored, and whatever was given  *)
(* up, has a number that is past.  Of the statement at hand the invariant  *)
(* knows why it has nothing to do, or why it was not compiled.             *)
(***************************************************************************)
EXTENDS SqliteDao, SequenceTheorems, TLAPS

\* A process is at one of its statements, or past the last.
NextInRange ==
  \A p \in Procs : proc[p].next \in 1..(Len(Creates) + MaxRows + 1)

\* What is stored belongs to a statement that is past, so none is stored twice.
StoredIsPast ==
  \A i \in 1..Len(rows) :
    Len(Creates) + rows[i].row < proc[rows[i].proc].next

\* So does what was given up.
LostIsPast == \A l \in lost : l.next < proc[l.proc].next

\* A statement has nothing to do because its table is there already.
NoopIsThere ==
  \A p \in Procs :
    proc[p].pc \in {"step", "commit"} /\ proc[p].noop = TRUE =>
      IsCreate(proc[p].next) /\ Creates[proc[p].next] \in tables

\* Why process p may have come to nothing with its statement n.
Cause(p, n) ==
  p \in contended \/ (~IsCreate(n) /\ Row(p, n) \in BadRows)

\* On a sound disk a statement was not compiled because of a lock or its row.
NullHasACause ==
  ~faulty => \A p \in Procs :
    proc[p].pc = "step" /\ proc[p].null = TRUE => Cause(p, proc[p].next)

IInv ==
  /\ TypeOK /\ NextInRange /\ StoredIsPast /\ LostIsPast /\ NoopIsThere
  /\ NullHasACause /\ RowsKept

-----------------------------------------------------------------------------
(* The constants, and the rows. *)

LEMMA Constants ==
  /\ Len(Tables) \in Nat /\ Tables \in Seq(STRING)
  /\ MaxRows \in Nat /\ RowLimit \in Nat
  /\ \A n : Limit(n) \in Nat
  /\ \A n \in 1..Len(Tables) : Tables[n] \in ToSet(Tables)
  /\ None \notin Procs /\ Other \notin Procs
<1>1. Tables \in Seq(STRING)
  BY TablesAssumption
<1>2. Len(Tables) \in Nat /\ DOMAIN Tables = 1..Len(Tables)
  BY <1>1, LenProperties
<1> QED BY <1>1, <1>2, LimitsAssumption, NamesAssumption DEF Limit, ToSet

LEMMA StatementFacts ==
  ASSUME NEW n \in Statements, NEW p
  PROVE  /\ n \in 1..(Len(Tables) + MaxRows)
         /\ ~IsCreate(n) => Row(p, n) = [proc |-> p, row |-> n - Len(Tables)]
         /\ ~IsCreate(n) => n - Len(Tables) \in 1..MaxRows
BY Constants DEF Statements, Creates, IsCreate, Row

(* What is stored after another row has been.                              *)
LEMMA AppendedFacts ==
  ASSUME NEW S, NEW s \in Seq(S), NEW r \in S
  PROVE  /\ Append(s, r) \in Seq(S)
         /\ Len(Append(s, r)) = Len(s) + 1 /\ Len(s) \in Nat
         /\ \A i \in 1..Len(s) : Append(s, r)[i] = s[i]
         /\ Append(s, r)[Len(s) + 1] = r
         /\ ToSet(Append(s, r)) = ToSet(s) \cup {r}
<1>1. /\ Append(s, r) \in Seq(S)
      /\ Len(Append(s, r)) = Len(s) + 1 /\ Len(s) \in Nat
      /\ \A i \in 1..Len(s) : Append(s, r)[i] = s[i]
      /\ Append(s, r)[Len(s) + 1] = r
  BY AppendProperties, LenProperties
<1>2. DOMAIN Append(s, r) = 1..(Len(s) + 1) /\ DOMAIN s = 1..Len(s)
  BY <1>1, LenProperties
<1>3. ToSet(Append(s, r)) = ToSet(s) \cup {r}
  BY <1>1, <1>2 DEF ToSet
<1> QED BY <1>1, <1>3

(* What a process that is done with its statement leaves behind.           *)
LEMMA ReturnedFacts ==
  ASSUME TypeOK, NEW p \in Procs, proc' = Returned(p)
  PROVE  /\ proc' \in [Procs -> Process]
         /\ proc'[p].pc = "call" /\ proc'[p].next = proc[p].next + 1
         /\ \A q \in Procs \ {p} : proc'[q] = proc[q]
BY DEF TypeOK, Process, Returned

(* The rows that are stored, and the statements that were given up.        *)
LEMMA PastTypes ==
  ASSUME TypeOK
  PROVE  /\ Len(rows) \in Nat
         /\ \A i \in 1..Len(rows) :
              rows[i].proc \in Procs /\ rows[i].row \in 1..MaxRows
         /\ \A l \in lost : l.proc \in Procs /\ l.next \in Nat
         /\ \A q \in Procs : proc[q].next \in Nat
<1>1. rows \in Seq([proc : Procs, row : 1..MaxRows])
  BY DEF TypeOK
<1>2. Len(rows) \in Nat
        /\ \A i \in 1..Len(rows) : rows[i] \in [proc : Procs, row : 1..MaxRows]
  BY <1>1, LenProperties, ElementOfSeq
<1>3. \A l \in lost : l.proc \in Procs /\ l.next \in Nat
  BY Constants DEF TypeOK, Statements, Creates
<1>4. \A q \in Procs : proc[q].next \in Nat
  BY DEF TypeOK, Process
<1> QED BY <1>2, <1>3, <1>4

-----------------------------------------------------------------------------
(* The ways in which a step leaves a statement. *)

LEMMA Init_IInv == Init => IInv
<1> SUFFICES ASSUME Init PROVE IInv
  OBVIOUS
<1>1. TypeOK
  <2>1. rows \in Seq([proc : Procs, row : 1..MaxRows])
    BY DEF Init
  <2>2. proc \in [Procs -> Process] /\ \A p \in Procs : proc[p].pc = "start"
    BY DEF Init, Process
  <2>3. \A p \in Procs : writer # p
    BY Constants DEF Init
  <2> QED BY <2>1, <2>2, <2>3 DEF Init, TypeOK
<1>2. NextInRange /\ StoredIsPast /\ LostIsPast /\ NoopIsThere /\ NullHasACause
  BY Constants DEF Init, NextInRange, StoredIsPast, LostIsPast, NoopIsThere,
     NullHasACause, Creates
<1>3. RowsKept
  BY DEF Init, RowsKept, StoredInOrder, NothingVanishes, LossNeedsContention
<1> QED BY <1>1, <1>2, <1>3 DEF IInv

(* Process p is done with its statement, one way or another.               *)
LEMMA Leaves ==
  ASSUME IInv, NEW p \in Procs, proc[p].pc \in {"step", "commit"},
         proc' = Returned(p),
         mode' = mode, reading' = reading, faulty' = faulty,
         writer' = IF proc[p].pc = "commit" THEN None ELSE writer,
         contended \subseteq contended', contended' \subseteq Procs,
         tables \subseteq tables', tables' \subseteq ToSet(Tables),
         rows' \in Seq([proc : Procs, row : 1..MaxRows]),
         \A l \in lost' : l.proc \in Procs /\ l.next \in Statements
  PROVE  /\ TypeOK' /\ NextInRange' /\ NoopIsThere' /\ NullHasACause'
         /\ \A i \in 1..Len(rows) :
              Len(Tables) + rows[i].row < proc'[rows[i].proc].next
         /\ \A l \in lost : l.next < proc'[l.proc].next
<1> DEFINE n == proc[p].next
<1>0. TypeOK /\ NextInRange /\ StoredIsPast /\ LostIsPast /\ NoopIsThere
        /\ NullHasACause
  BY DEF IInv
<1>1. /\ proc' \in [Procs -> Process]
      /\ proc'[p].pc = "call" /\ proc'[p].next = n + 1
      /\ \A q \in Procs \ {p} : proc'[q] = proc[q]
  BY <1>0, ReturnedFacts
<1>2. n \in Statements
  BY <1>0 DEF TypeOK
<1>3. n \in 1..(Len(Tables) + MaxRows) /\ Len(Tables) \in Nat /\ MaxRows \in Nat
  BY <1>2, StatementFacts, Constants
<1>types. /\ Len(rows) \in Nat
          /\ \A i \in 1..Len(rows) :
               rows[i].proc \in Procs /\ rows[i].row \in 1..MaxRows
          /\ \A l \in lost : l.proc \in Procs /\ l.next \in Nat
          /\ \A q \in Procs : proc[q].next \in Nat
  BY <1>0, PastTypes
<1> HIDE DEF n
<1>6. \A q \in Procs : proc'[q].next \in Nat /\ proc'[q].next >= proc[q].next
  BY <1>1, <1>3, <1>types DEF n
<1>7. TypeOK'
  <2>1. (writer \in Procs \cup {Other, None})'
    BY <1>0 DEF TypeOK
  <2>2. ASSUME NEW q \in Procs
        PROVE  writer' = q <=> proc'[q].pc = "commit"
    <3>1. writer = q <=> proc[q].pc = "commit"
      BY <1>0 DEF TypeOK
    <3>2. writer = p <=> proc[p].pc = "commit"
      BY <1>0 DEF TypeOK
    <3> QED BY <1>1, <3>1, <3>2, Constants
  <2>3. ASSUME NEW q \in Procs, proc'[q].pc \in {"step", "commit"}
        PROVE  /\ proc'[q].next \in Statements
               /\ proc'[q].loop <= Limit(proc'[q].next) + 1
    BY <1>0, <1>1, <2>3 DEF TypeOK
  <2> QED BY <1>0, <1>1, <2>1, <2>2, <2>3 DEF TypeOK
<1>8. NextInRange'
  <2>1. \A q \in Procs : proc[q].next \in 1..(Len(Tables) + MaxRows + 1)
    BY <1>0 DEF NextInRange, Creates
  <2>2. n + 1 \in 1..(Len(Tables) + MaxRows + 1)
    BY <1>3
  <2>3. \A q \in Procs : proc'[q].next \in 1..(Len(Tables) + MaxRows + 1)
    BY <1>1, <2>1, <2>2
  <2> QED BY <2>3 DEF NextInRange, Creates
<1>9. ASSUME NEW i \in 1..Len(rows)
      PROVE  Len(Tables) + rows[i].row < proc'[rows[i].proc].next
  <2>1. Len(Tables) + rows[i].row < proc[rows[i].proc].next
    BY <1>0 DEF StoredIsPast, Creates
  <2>2. PICK q \in Procs : q = rows[i].proc
    BY <1>types
  <2>3. PICK k \in Nat : k = Len(Tables) + rows[i].row
    <3>1. Len(Tables) \in Nat /\ rows[i].row \in Nat
      BY <1>3, <1>types
    <3> QED BY <3>1
  <2>4. k < proc[q].next /\ proc[q].next \in Nat /\ proc'[q].next \in Nat
          /\ proc'[q].next >= proc[q].next
    BY <1>6, <1>types, <2>1, <2>2, <2>3
  <2> QED BY <2>2, <2>3, <2>4
<1>10. ASSUME NEW l \in lost
      PROVE  l.next < proc'[l.proc].next
  <2>1. l.next < proc[l.proc].next
    BY <1>0 DEF LostIsPast
  <2> QED BY <1>6, <1>types, <2>1
<1>11. NoopIsThere'
  BY <1>0, <1>1 DEF NoopIsThere
<1>12. NullHasACause'
  BY <1>0, <1>1 DEF NullHasACause, Cause
<1> QED
  BY <1>7, <1>8, <1>9, <1>10, <1>11, <1>12

(* The statement of p has been executed.                                   *)
LEMMA Executed ==
  ASSUME IInv, NEW p \in Procs, proc[p].pc \in {"step", "commit"},
         proc' = Returned(p),
         mode' = mode, reading' = reading, faulty' = faulty,
         contended' = contended, lost' = lost,
         writer' = IF proc[p].pc = "commit" THEN None ELSE writer,
         tables \subseteq tables', tables' \subseteq ToSet(Tables),
         IF IsCreate(proc[p].next)
         THEN Creates[proc[p].next] \in tables' /\ rows' = rows
         ELSE rows' = Append(rows, Row(p, proc[p].next))
  PROVE  IInv'
<1> DEFINE n == proc[p].next
<1>0. TypeOK /\ NextInRange /\ StoredIsPast /\ LostIsPast /\ NoopIsThere
        /\ NullHasACause /\ StoredInOrder /\ NothingVanishes /\ LossNeedsContention
  BY DEF IInv, RowsKept
<1>1. /\ proc' \in [Procs -> Process]
      /\ proc'[p].pc = "call" /\ proc'[p].next = n + 1
      /\ \A q \in Procs \ {p} : proc'[q] = proc[q]
  BY <1>0, ReturnedFacts
<1>2. n \in Statements
  BY <1>0 DEF TypeOK
<1>3. /\ n \in 1..(Len(Tables) + MaxRows) /\ Len(Tables) \in Nat /\ MaxRows \in Nat
      /\ ~IsCreate(n) => Row(p, n) = [proc |-> p, row |-> n - Len(Tables)]
      /\ ~IsCreate(n) => n - Len(Tables) \in 1..MaxRows
  BY <1>2, StatementFacts, Constants
<1>4. rows \in Seq([proc : Procs, row : 1..MaxRows])
  BY <1>0 DEF TypeOK
<1>5. ASSUME ~IsCreate(n)
      PROVE  /\ Row(p, n) \in [proc : Procs, row : 1..MaxRows]
             /\ rows' \in Seq([proc : Procs, row : 1..MaxRows])
             /\ Len(rows') = Len(rows) + 1 /\ Len(rows) \in Nat
             /\ \A i \in 1..Len(rows) : rows'[i] = rows[i]
             /\ rows'[Len(rows) + 1] = Row(p, n)
             /\ ToSet(rows') = ToSet(rows) \cup {Row(p, n)}
  <2>1. Row(p, n) \in [proc : Procs, row : 1..MaxRows]
    BY <1>3, <1>5
  <2>2. rows' = Append(rows, Row(p, n))
    BY <1>5
  <2> DEFINE R == [proc : Procs, row : 1..MaxRows]
  <2>3. rows \in Seq(R) /\ Row(p, n) \in R
    BY <1>4, <2>1
  <2> HIDE DEF R, n
  <2>4. /\ Append(rows, Row(p, n)) \in Seq(R)
        /\ Len(Append(rows, Row(p, n))) = Len(rows) + 1 /\ Len(rows) \in Nat
        /\ \A i \in 1..Len(rows) : Append(rows, Row(p, n))[i] = rows[i]
        /\ Append(rows, Row(p, n))[Len(rows) + 1] = Row(p, n)
        /\ ToSet(Append(rows, Row(p, n))) = ToSet(rows) \cup {Row(p, n)}
    BY <2>3, AppendedFacts
  <2> QED BY <2>1, <2>2, <2>4 DEF R
<1>types. /\ Len(rows) \in Nat
          /\ \A i \in 1..Len(rows) :
               rows[i].proc \in Procs /\ rows[i].row \in 1..MaxRows
          /\ \A l \in lost : l.proc \in Procs /\ l.next \in Nat
          /\ \A q \in Procs : proc[q].next \in Nat
  BY <1>0, PastTypes
<1> HIDE DEF n
<1>6. \A q \in Procs : proc'[q].next \in Nat /\ proc'[q].next >= proc[q].next
  BY <1>1, <1>3, <1>types DEF n
<1>7. /\ TypeOK' /\ NextInRange' /\ NoopIsThere' /\ NullHasACause'
      /\ \A i \in 1..Len(rows) :
           Len(Tables) + rows[i].row < proc'[rows[i].proc].next
      /\ \A l \in lost : l.next < proc'[l.proc].next
  <2>1. rows' \in Seq([proc : Procs, row : 1..MaxRows])
    BY <1>4, <1>5 DEF n
  <2>2. \A l \in lost' : l.proc \in Procs /\ l.next \in Statements
    BY <1>0 DEF TypeOK
  <2>3. contended \subseteq contended' /\ contended' \subseteq Procs
    BY <1>0 DEF TypeOK
  <2> QED BY <2>1, <2>2, <2>3, Leaves
<1>9. StoredIsPast'
  <2>2. CASE IsCreate(n)
    BY <1>7, <2>2 DEF StoredIsPast, Creates, n
  <2>3. CASE ~IsCreate(n)
    <3>1. Len(Tables) + Row(p, n).row < proc'[p].next /\ Row(p, n).proc = p
      BY <1>1, <1>3, <2>3
    <3> SUFFICES ASSUME NEW i \in 1..Len(rows')
                 PROVE  Len(Tables) + rows'[i].row < proc'[rows'[i].proc].next
      BY DEF StoredIsPast, Creates
    <3>2. CASE i \in 1..Len(rows)
      BY <1>5, <1>7, <2>3, <3>2
    <3>3. CASE i = Len(rows) + 1
      BY <1>5, <2>3, <3>1, <3>3
    <3> QED BY <1>5, <2>3, <3>2, <3>3
  <2> QED BY <2>2, <2>3
<1>10. LostIsPast'
  BY <1>7 DEF LostIsPast
<1>13. StoredInOrder'
  <2>1. CASE IsCreate(n)
    BY <1>0, <2>1 DEF StoredInOrder, n
  <2>2. CASE ~IsCreate(n)
    <3> SUFFICES ASSUME NEW i \in 1..Len(rows'), NEW j \in 1..Len(rows'), i < j,
                        rows'[i].proc = rows'[j].proc
                 PROVE  rows'[i].row < rows'[j].row
      BY DEF StoredInOrder
    <3>1. i \in 1..Len(rows) /\ rows'[i] = rows[i]
      BY <1>5, <2>2
    <3>2. CASE j \in 1..Len(rows)
      BY <1>0, <1>5, <2>2, <3>1, <3>2 DEF StoredInOrder
    <3>3. CASE j = Len(rows) + 1
      <4>1. rows'[j] = [proc |-> p, row |-> n - Len(Tables)]
        BY <1>3, <1>5, <2>2, <3>3
      <4>2. Len(Tables) + rows[i].row < n
        BY <1>0, <3>1, <4>1 DEF StoredIsPast, Creates, n
      <4>3. rows[i].row \in Nat
        BY <1>types, <3>1
      <4> QED BY <1>3, <3>1, <4>1, <4>2, <4>3
    <3> QED BY <1>5, <2>2, <3>2, <3>3
  <2> QED BY <2>1, <2>2
<1>14. NothingVanishes'
  <2> SUFFICES ASSUME NEW q \in Procs, NEW m \in 1..(proc'[q].next - 1)
               PROVE  IF IsCreate(m) THEN Creates[m] \in tables' \/ GivenUp(q, m)'
                      ELSE Row(q, m) \in ToSet(rows)' <=> ~GivenUp(q, m)'
    BY DEF NothingVanishes
  <2>1. GivenUp(q, m)' <=> GivenUp(q, m)
    BY DEF GivenUp
  <2>2. CASE m \in 1..(proc[q].next - 1)
    <3>1. IF IsCreate(m) THEN Creates[m] \in tables \/ GivenUp(q, m)
          ELSE Row(q, m) \in ToSet(rows) <=> ~GivenUp(q, m)
      BY <1>0, <2>2 DEF NothingVanishes
    <3>2. Row(q, m) \in ToSet(rows) => Row(q, m) \in ToSet(rows')
      BY <1>5 DEF n
    <3>3. CASE IsCreate(n)
      BY <2>1, <3>1, <3>3 DEF n
    <3>4. CASE ~IsCreate(n)
      <4>1. q = p => m < n
        BY <1>3, <2>2 DEF n
      <4>2. Row(q, m) # Row(p, n)
        <5>1. Row(q, m) = [proc |-> q, row |-> m - Len(Tables)]
          BY DEF Row, Creates
        <5> QED BY <1>3, <2>2, <3>4, <4>1, <5>1
      <4> QED BY <1>5, <2>1, <3>1, <3>4, <4>2
    <3> QED BY <3>3, <3>4
  <2>3. CASE m \notin 1..(proc[q].next - 1)
    <3>1. q = p
      BY <1>1, <2>3
    <3>2a. m = n
      BY <1>1, <1>3, <2>3, <3>1 DEF n
    <3>2. ~GivenUp(p, n)
      <4>1. ASSUME NEW l \in lost, l.proc = p, l.next = n PROVE FALSE
        BY <1>0, <1>3, <4>1 DEF LostIsPast, n
      <4> QED BY <4>1 DEF GivenUp
    <3>3. CASE IsCreate(n)
      BY <3>1, <3>2a, <3>3 DEF n
    <3>4. CASE ~IsCreate(n)
      BY <1>5, <2>1, <3>1, <3>2, <3>2a, <3>4
    <3> QED BY <3>3, <3>4
  <2> QED BY <2>2, <2>3
<1>15. LossNeedsContention'
  BY <1>0 DEF LossNeedsContention
<1> QED
  BY <1>7, <1>9, <1>10, <1>13, <1>14, <1>15
     DEF IInv, RowsKept

(* The statement of p has been given up, after limit + 2 tries or because  *)
(* of an error.                                                            *)
LEMMA GivesUp ==
  ASSUME IInv, NEW p \in Procs, proc[p].pc \in {"step", "commit"},
         proc' = Returned(p),
         mode' = mode, reading' = reading, faulty' = faulty,
         tables' = tables, rows' = rows,
         writer' = IF proc[p].pc = "commit" THEN None ELSE writer,
         contended \subseteq contended', contended' \subseteq Procs,
         NEW l, lost' = lost \cup {l}, l.proc = p, l.next = proc[p].next,
         l.error \/ l.tries = Limit(proc[p].next) + 2,
         ~faulty => \/ p \in contended'
                    \/ /\ ~IsCreate(proc[p].next)
                       /\ Row(p, proc[p].next) \in BadRows
  PROVE  IInv'
<1> DEFINE n == proc[p].next
<1>0. TypeOK /\ NextInRange /\ StoredIsPast /\ LostIsPast
        /\ StoredInOrder /\ NothingVanishes /\ LossNeedsContention
  BY DEF IInv, RowsKept
<1>1. /\ proc' \in [Procs -> Process]
      /\ proc'[p].next = n + 1
      /\ \A q \in Procs \ {p} : proc'[q] = proc[q]
  BY <1>0, ReturnedFacts
<1>2. n \in Statements
  BY <1>0 DEF TypeOK
<1>3. n \in 1..(Len(Tables) + MaxRows) /\ Len(Tables) \in Nat /\ MaxRows \in Nat
  BY <1>2, StatementFacts, Constants
<1>4. /\ \A i \in 1..Len(rows) :
           rows[i].proc \in Procs /\ rows[i].row \in 1..MaxRows
      /\ \A k \in lost : k.proc \in Procs /\ k.next \in Nat
      /\ \A q \in Procs : proc[q].next \in Nat
  BY <1>0, PastTypes
<1> HIDE DEF n
<1>5. /\ TypeOK' /\ NextInRange' /\ NoopIsThere' /\ NullHasACause'
      /\ \A i \in 1..Len(rows) :
           Len(Tables) + rows[i].row < proc'[rows[i].proc].next
      /\ \A k \in lost : k.next < proc'[k.proc].next
  <2>1. rows' \in Seq([proc : Procs, row : 1..MaxRows]) /\ tables' \subseteq ToSet(Tables)
    BY <1>0 DEF TypeOK
  <2>2. \A k \in lost' : k.proc \in Procs /\ k.next \in Statements
    BY <1>0, <1>2 DEF TypeOK, n
  <2> QED BY <2>1, <2>2, Leaves
<1>6. StoredIsPast'
  BY <1>5 DEF StoredIsPast, Creates
<1>7. LostIsPast'
  <2>1. l.next < proc'[l.proc].next
    BY <1>1, <1>3 DEF n
  <2> QED BY <1>5, <2>1 DEF LostIsPast
<1>8. StoredInOrder'
  BY <1>0 DEF StoredInOrder
<1>9. NothingVanishes'
  <2> SUFFICES ASSUME NEW q \in Procs, NEW m \in 1..(proc'[q].next - 1)
               PROVE  IF IsCreate(m) THEN Creates[m] \in tables \/ GivenUp(q, m)'
                      ELSE Row(q, m) \in ToSet(rows) <=> ~GivenUp(q, m)'
    BY DEF NothingVanishes
  <2>1. CASE m \in 1..(proc[q].next - 1)
    <3>1. ~(q = p /\ m = n)
      BY <1>3, <2>1 DEF n
    <3>2. GivenUp(q, m)' <=> GivenUp(q, m)
      BY <3>1 DEF GivenUp, n
    <3> QED BY <1>0, <2>1, <3>2 DEF NothingVanishes
  <2>2. CASE m \notin 1..(proc[q].next - 1)
    <3>1. q = p
      BY <1>1, <2>2
    <3>2. m = n
      BY <1>1, <1>3, <2>2, <3>1 DEF n
    <3>3. GivenUp(q, m)'
      BY <3>1, <3>2 DEF GivenUp, n
    <3>4. CASE IsCreate(n)
      BY <3>1, <3>2, <3>3, <3>4
    <3>5. CASE ~IsCreate(n)
      <4> SUFFICES Row(p, n) \notin ToSet(rows)
        BY <3>1, <3>2, <3>3, <3>5
      <4> SUFFICES ASSUME NEW i \in DOMAIN rows, rows[i] = Row(p, n)
                   PROVE  FALSE
        BY DEF ToSet
      <4>1. i \in 1..Len(rows)
        BY <1>0, LenProperties DEF TypeOK
      <4>2. rows[i].proc = p /\ rows[i].row = n - Len(Tables)
        BY DEF Row, Creates
      <4> QED BY <1>0, <1>3, <4>1, <4>2 DEF StoredIsPast, Creates, n
    <3> QED BY <3>4, <3>5
  <2> QED BY <2>1, <2>2
<1>10. LossNeedsContention'
  <2> SUFFICES ASSUME ~faulty, NEW k \in lost'
               PROVE  \/ k.proc \in contended'
                      \/ ~IsCreate(k.next) /\ Row(k.proc, k.next) \in BadRows
    BY DEF LossNeedsContention
  <2>1. CASE k = l
    BY <2>1
  <2>2. CASE k \in lost
    BY <1>0, <2>2 DEF LossNeedsContention
  <2> QED BY <2>1, <2>2
<1> QED
  BY <1>5, <1>6, <1>7, <1>8, <1>9, <1>10 DEF IInv, RowsKept

(* No process goes on to another statement, and nothing is stored.         *)
LEMMA Stays ==
  ASSUME IInv, \A q \in Procs : proc'[q].next = proc[q].next,
         tables' = tables, rows' = rows, lost' = lost, faulty' = faulty,
         contended \subseteq contended'
  PROVE  NextInRange' /\ StoredIsPast' /\ LostIsPast' /\ RowsKept'
<1>0. /\ TypeOK /\ NextInRange /\ StoredIsPast /\ LostIsPast
      /\ StoredInOrder /\ NothingVanishes /\ LossNeedsContention
  BY DEF IInv, RowsKept
<1>1. /\ \A i \in 1..Len(rows) : rows[i].proc \in Procs
      /\ \A l \in lost : l.proc \in Procs
  BY <1>0, PastTypes
<1>2. NextInRange'
  BY <1>0 DEF NextInRange
<1>3. StoredIsPast'
  BY <1>0, <1>1 DEF StoredIsPast
<1>4. LostIsPast'
  BY <1>0, <1>1 DEF LostIsPast
<1>5. StoredInOrder'
  BY <1>0 DEF StoredInOrder
<1>6. NothingVanishes'
  <2>1. \A p, n : GivenUp(p, n)' <=> GivenUp(p, n)
    BY DEF GivenUp
  <2> QED BY <1>0, <2>1 DEF NothingVanishes
<1>7. LossNeedsContention'
  BY <1>0 DEF LossNeedsContention
<1> QED
  BY <1>2, <1>3, <1>4, <1>5, <1>6, <1>7 DEF RowsKept

(* SQLite was busy, or something else, and the statement is tried again or *)
(* given up.                                                               *)
LEMMA TriesAgain ==
  ASSUME IInv, NEW p \in Procs, proc[p].pc \in {"step", "commit"}, TryAgain(p),
         mode' = mode, reading' = reading, faulty' = faulty,
         tables' = tables, rows' = rows,
         writer' = IF proc[p].pc = "commit" THEN None ELSE writer,
         contended \subseteq contended', contended' \subseteq Procs,
         ~faulty => \/ p \in contended'
                    \/ /\ ~IsCreate(proc[p].next)
                       /\ Row(p, proc[p].next) \in BadRows
  PROVE  IInv'
<1>0. TypeOK /\ NoopIsThere /\ NullHasACause
  BY DEF IInv
<1>1. /\ proc[p].next \in Statements
      /\ proc[p].loop \in Nat /\ Limit(proc[p].next) \in Nat
      /\ proc[p].loop <= Limit(proc[p].next) + 1
  BY <1>0, Constants DEF TypeOK, Process
<1>2. CASE LimitReached(proc[p].loop, Limit(proc[p].next))
  <2> DEFINE l == [proc |-> p, next |-> proc[p].next,
                   tries |-> proc[p].loop + 1, error |-> FALSE]
  <2>1. proc' = Returned(p) /\ lost' = lost \cup {l}
    BY <1>2 DEF TryAgain
  <2>2. l.proc = p /\ l.next = proc[p].next /\ l.tries = proc[p].loop + 1
    OBVIOUS
  <2>3. l.tries = Limit(proc[p].next) + 2
    BY <1>1, <1>2, <2>2 DEF LimitReached
  <2> HIDE DEF l
  <2> QED BY <2>1, <2>2, <2>3, GivesUp
<1>3. CASE ~LimitReached(proc[p].loop, Limit(proc[p].next))
  <2>1. /\ proc' = [proc EXCEPT ![p].pc = "step", ![p].loop = @ + 1]
        /\ lost' = lost
    BY <1>3 DEF TryAgain, Counted
  <2>2. /\ proc' \in [Procs -> Process]
        /\ proc'[p].pc = "step" /\ proc'[p].next = proc[p].next
        /\ proc'[p].loop = proc[p].loop + 1
        /\ proc'[p].noop = proc[p].noop
        /\ \A q \in Procs \ {p} : proc'[q] = proc[q]
    <3> DEFINE loop == proc[p].loop + 1
    <3>1. loop \in Nat
      BY <1>1
    <3>2. proc' = [proc EXCEPT ![p].pc = "step", ![p].loop = loop]
      BY <2>1
    <3> HIDE DEF loop
    <3>3. proc \in [Procs -> Process]
      BY <1>0 DEF TypeOK
    <3>4. /\ proc' \in [Procs -> Process]
          /\ proc'[p].pc = "step" /\ proc'[p].next = proc[p].next
          /\ proc'[p].loop = loop
          /\ proc'[p].noop = proc[p].noop
          /\ \A q \in Procs \ {p} : proc'[q] = proc[q]
      BY <3>1, <3>2, <3>3 DEF Process
    <3> QED BY <3>4 DEF loop
  <2>3. NextInRange' /\ StoredIsPast' /\ LostIsPast' /\ RowsKept'
    BY <2>1, <2>2, Stays
  <2>4. TypeOK'
    <3>1. (writer \in Procs \cup {Other, None})'
      BY <1>0 DEF TypeOK
    <3>2. ASSUME NEW q \in Procs
          PROVE  writer' = q <=> proc'[q].pc = "commit"
      <4>1. writer = q <=> proc[q].pc = "commit"
        BY <1>0 DEF TypeOK
      <4>2. writer = p <=> proc[p].pc = "commit"
        BY <1>0 DEF TypeOK
      <4> QED BY <2>2, <4>1, <4>2, Constants
    <3>3. ASSUME NEW q \in Procs, proc'[q].pc \in {"step", "commit"}
          PROVE  /\ proc'[q].next \in Statements
                 /\ proc'[q].loop <= Limit(proc'[q].next) + 1
      <4>1. CASE q = p
        BY <1>1, <1>3, <2>2, <4>1 DEF LimitReached
      <4>2. CASE q # p
        BY <1>0, <2>2, <3>3, <4>2 DEF TypeOK
      <4> QED BY <4>1, <4>2
    <3> QED BY <1>0, <2>1, <2>2, <3>1, <3>2, <3>3 DEF TypeOK
  <2>5. NoopIsThere'
    BY <1>0, <2>2 DEF NoopIsThere
  <2>6. NullHasACause'
    <3> SUFFICES ASSUME ~faulty, NEW q \in Procs,
                        proc'[q].pc = "step", proc'[q].null = TRUE
                 PROVE  \/ q \in contended'
                        \/ /\ ~IsCreate(proc'[q].next)
                           /\ Row(q, proc'[q].next) \in BadRows
      BY DEF NullHasACause, Cause
    <3>1. CASE q = p
      BY <2>2, <3>1
    <3>2. CASE q # p
      BY <1>0, <2>2, <3>2 DEF NullHasACause, Cause
    <3> QED BY <3>1, <3>2
  <2> QED BY <2>3, <2>4, <2>5, <2>6 DEF IInv
<1> QED BY <1>2, <1>3

-----------------------------------------------------------------------------
(* The actions. *)

LEMMA PrepareStep ==
  ASSUME IInv, NEW p \in Procs, Prepare(p)
  PROVE  IInv'
<1> DEFINE n == proc[p].next
<1>0. /\ TypeOK /\ NoopIsThere /\ NullHasACause /\ NothingVanishes
      /\ LossNeedsContention
  BY DEF IInv, RowsKept
<1>1. PICK null \in BOOLEAN :
        /\ null => Refused(p, n) \/ Locked \/ faulty
        /\ proc' = [proc EXCEPT
             ![p].pc = "step", ![p].loop = 0, ![p].null = null,
             ![p].noop = IsCreate(n) /\ Tables[n] \in tables]
        /\ contended' = IF null /\ Locked THEN contended \cup {p} ELSE contended
  BY DEF Prepare
<1>2. /\ proc[p].pc = "call" /\ n \in Statements
      /\ mode' = mode /\ tables' = tables /\ rows' = rows /\ writer' = writer
      /\ reading' = reading /\ faulty' = faulty /\ lost' = lost
  BY DEF Prepare
<1>3. n \in 1..(Len(Tables) + MaxRows) /\ Len(Tables) \in Nat
  BY <1>2, StatementFacts, Constants
<1>4. PICK noop \in BOOLEAN : noop <=> IsCreate(n) /\ Tables[n] \in tables
  OBVIOUS
<1> HIDE DEF n
<1>5. /\ proc' \in [Procs -> Process]
      /\ proc'[p].pc = "step" /\ proc'[p].next = n
      /\ proc'[p].loop = 0 /\ proc'[p].null = null /\ proc'[p].noop = noop
      /\ \A q \in Procs \ {p} : proc'[q] = proc[q]
  <2>1. proc' = [proc EXCEPT ![p].pc = "step", ![p].loop = 0, ![p].null = null,
                             ![p].noop = noop]
    BY <1>1, <1>4
  <2>2. proc \in [Procs -> Process]
    BY <1>0 DEF TypeOK
  <2> DEFINE r == [proc[p] EXCEPT !.pc = "step", !.loop = 0, !.null = null,
                                  !.noop = noop]
  <2>3. proc' = [proc EXCEPT ![p] = r]
    BY <2>1, <2>2
  <2>4. proc[p] \in Process
    BY <2>2
  <2>5. /\ r \in Process /\ r.pc = "step" /\ r.next = proc[p].next
        /\ r.loop = 0 /\ r.null = null /\ r.noop = noop
    BY <2>4 DEF Process
  <2> HIDE DEF r
  <2> QED BY <2>2, <2>3, <2>5 DEF n
<1>6. contended \subseteq contended' /\ contended' \subseteq Procs
  BY <1>0, <1>1 DEF TypeOK
<1>7. NextInRange' /\ StoredIsPast' /\ LostIsPast' /\ RowsKept'
  <2>1. \A q \in Procs : proc'[q].next = proc[q].next
    BY <1>5 DEF n
  <2> QED BY <1>2, <1>6, <2>1, Stays
<1>8. TypeOK'
  <2>1. ASSUME NEW q \in Procs
        PROVE  /\ writer' = q <=> proc'[q].pc = "commit"
               /\ proc'[q].pc \in {"step", "commit"} =>
                    /\ proc'[q].next \in Statements
                    /\ proc'[q].loop <= Limit(proc'[q].next) + 1
    <3>1. CASE q = p
      <4>1. writer # p
        BY <1>0, <1>2 DEF TypeOK
      <4>2. 0 <= Limit(n) + 1
        BY Constants
      <4> QED BY <1>2, <1>5, <3>1, <4>1, <4>2
    <3>2. CASE q # p
      BY <1>0, <1>2, <1>5, <3>2 DEF TypeOK
    <3> QED BY <3>1, <3>2
  <2> QED BY <1>0, <1>2, <1>5, <1>6, <2>1 DEF TypeOK
<1>9. NoopIsThere'
  <2>1. noop = TRUE => IsCreate(n) /\ Creates[n] \in tables
    BY <1>4 DEF Creates
  <2> QED BY <1>0, <1>2, <1>5, <2>1 DEF NoopIsThere
<1>10. NullHasACause'
  <2> SUFFICES ASSUME ~faulty, NEW q \in Procs,
                      proc'[q].pc = "step", proc'[q].null = TRUE
               PROVE  \/ q \in contended'
                      \/ /\ ~IsCreate(proc'[q].next)
                         /\ Row(q, proc'[q].next) \in BadRows
    BY <1>2 DEF NullHasACause, Cause
  <2>1. CASE q # p
    BY <1>0, <1>2, <1>5, <1>6, <2>1 DEF NullHasACause, Cause
  <2>2. CASE q = p
    <3>1. null = TRUE
      BY <1>5, <2>2
    <3>2. CASE Locked
      BY <1>1, <2>2, <3>1, <3>2
    <3>3. CASE Refused(p, n) /\ Row(p, n) \in BadRows
      BY <1>5, <2>2, <3>3 DEF Refused
    <3>4. CASE Refused(p, n) /\ Row(p, n) \notin BadRows
      \* The table is missing although this process has tried to make it.
      <4>1. ~IsCreate(n) /\ RowTable \notin tables
        BY <3>4 DEF Refused
      <4>2. PICK m \in 1..Len(Tables) : Tables[m] = RowTable
        BY TablesAssumption
      <4>3. m \in 1..(n - 1) /\ IsCreate(m)
        BY <1>3, <4>1 DEF IsCreate, Creates
      <4>4. GivenUp(p, m)
        BY <1>0, <4>1, <4>2, <4>3 DEF NothingVanishes, Creates, n
      <4>5. p \in contended
        BY <1>0, <4>3, <4>4 DEF GivenUp, LossNeedsContention
      <4> QED BY <1>6, <2>2, <4>5
    <3> QED BY <1>1, <3>1, <3>2, <3>3, <3>4
  <2> QED BY <2>1, <2>2
<1> QED
  BY <1>7, <1>8, <1>9, <1>10 DEF IInv

(* A step that moves one process from a "pc" to another at the same        *)
(* statement, and may take the write lock for it.                          *)
LEMMA Moves ==
  ASSUME IInv, NEW p \in Procs,
         NEW pc \in {"call", "commit", "exit"}, proc' = [proc EXCEPT ![p].pc = pc],
         mode' \in {"delete", "wal"}, reading' = reading, faulty' = faulty,
         tables' = tables, rows' = rows, lost' = lost, contended' = contended,
         \/ pc # "commit" /\ proc[p].pc = "start" /\ writer' = writer
         \/ /\ pc = "commit" /\ proc[p].pc = "step"
            /\ writer = None /\ writer' = p
  PROVE  IInv'
<1>0. TypeOK /\ NoopIsThere /\ NullHasACause
  BY DEF IInv
<1>1. /\ proc' \in [Procs -> Process]
      /\ proc'[p].pc = pc /\ proc'[p].next = proc[p].next
      /\ proc'[p].loop = proc[p].loop /\ proc'[p].noop = proc[p].noop
      /\ \A q \in Procs \ {p} : proc'[q] = proc[q]
  BY <1>0 DEF TypeOK, Process
<1>2. NextInRange' /\ StoredIsPast' /\ LostIsPast' /\ RowsKept'
  <2>1. \A q \in Procs : proc'[q].next = proc[q].next
    BY <1>1
  <2> QED BY <2>1, Stays
<1>3. TypeOK'
  <2>1. writer' \in Procs \cup {Other, None}
    BY <1>0 DEF TypeOK
  <2>2. ASSUME NEW q \in Procs
        PROVE  /\ writer' = q <=> proc'[q].pc = "commit"
               /\ proc'[q].pc \in {"step", "commit"} =>
                    /\ proc'[q].next \in Statements
                    /\ proc'[q].loop <= Limit(proc'[q].next) + 1
    <3>1. /\ writer = q <=> proc[q].pc = "commit"
          /\ proc[q].pc \in {"step", "commit"} =>
               /\ proc[q].next \in Statements
               /\ proc[q].loop <= Limit(proc[q].next) + 1
          /\ writer = p <=> proc[p].pc = "commit"
      BY <1>0 DEF TypeOK
    <3>2. CASE q = p
      BY <1>1, <3>1, <3>2
    <3>3. CASE q # p
      BY <1>1, <3>1, <3>3, Constants
    <3> QED BY <3>2, <3>3
  <2> QED BY <1>0, <1>1, <2>1, <2>2 DEF TypeOK
<1>4. NoopIsThere'
  BY <1>0, <1>1 DEF NoopIsThere
<1>5. NullHasACause'
  BY <1>0, <1>1 DEF NullHasACause, Cause
<1> QED
  BY <1>2, <1>3, <1>4, <1>5 DEF IInv

LEMMA ExecStep ==
  ASSUME IInv, NEW p \in Procs, Exec(p)
  PROVE  IInv'
<1>0. TypeOK /\ NoopIsThere /\ NullHasACause /\ contended \subseteq Procs
  BY DEF IInv, TypeOK
<1>1. proc[p].null \in BOOLEAN /\ proc[p].noop \in BOOLEAN
  BY <1>0 DEF TypeOK, Process
<1>2. CASE StepMisuse(p)
  <2>1. ~faulty => \/ p \in contended
                   \/ /\ ~IsCreate(proc[p].next)
                      /\ Row(p, proc[p].next) \in BadRows
    BY <1>0, <1>1, <1>2 DEF StepMisuse, NullHasACause, Cause
  <2> QED BY <1>0, <1>2, <2>1, TriesAgain DEF StepMisuse
<1>3. CASE StepBusy(p)
  BY <1>0, <1>3, TriesAgain DEF StepBusy, Stepping
<1>4. CASE StepNoop(p)
  <2>1. IsCreate(proc[p].next) /\ Creates[proc[p].next] \in tables
    BY <1>0, <1>1, <1>4 DEF StepNoop, Stepping, NoopIsThere
  <2>2. tables \subseteq ToSet(Tables)
    BY <1>0 DEF TypeOK
  <2> QED BY <1>4, <2>1, <2>2, Executed DEF StepNoop, Stepping
<1>5. CASE StepBegin(p)
  <2>1. mode \in {"delete", "wal"}
    BY <1>0 DEF TypeOK
  <2> QED BY <1>5, <2>1, Moves DEF StepBegin, Stepping
<1>6. CASE Commit(p)
  <2>1. proc[p].next \in Statements /\ tables \subseteq ToSet(Tables)
    BY <1>0, <1>6 DEF TypeOK, Commit
  <2>2. IsCreate(proc[p].next) =>
          Tables[proc[p].next] \in ToSet(Tables)
    <3>1. PICK n \in Statements : n = proc[p].next
      BY <2>1
    <3>2. n \in 1..(Len(Tables) + MaxRows) /\ Len(Tables) \in Nat
      BY StatementFacts, Constants
    <3>3. IsCreate(n) => n \in 1..Len(Tables)
      BY <3>2 DEF IsCreate, Creates
    <3> QED BY <3>1, <3>3, Constants
  <2>3. /\ tables \subseteq tables' /\ tables' \subseteq ToSet(Tables)
        /\ IF IsCreate(proc[p].next)
           THEN Creates[proc[p].next] \in tables' /\ rows' = rows
           ELSE rows' = Append(rows, Row(p, proc[p].next))
    BY <1>6, <2>1, <2>2 DEF Commit, Creates
  <2> QED BY <1>6, <2>3, Executed DEF Commit, Done
<1>7. CASE CommitBusy(p)
  BY <1>0, <1>7, TriesAgain DEF CommitBusy
<1>8. CASE CommitUnknown(p)
  BY <1>0, <1>8, TriesAgain DEF CommitUnknown
<1>9. CASE CommitError(p)
  <2> DEFINE l == [proc |-> p, next |-> proc[p].next,
                   tries |-> proc[p].loop + 1, error |-> TRUE]
  <2>1. proc' = Returned(p) /\ lost' = lost \cup {l}
    BY <1>9 DEF CommitError
  <2>2. l.proc = p /\ l.next = proc[p].next /\ l.error
    OBVIOUS
  <2> HIDE DEF l
  <2> QED BY <1>0, <1>9, <2>1, <2>2, GivesUp DEF CommitError
<1> QED
  BY <1>2, <1>3, <1>4, <1>5, <1>6, <1>7, <1>8, <1>9 DEF Exec

LEMMA IInvIsInductive == IInv /\ [Next]_vars => IInv'
<1> SUFFICES ASSUME IInv, [Next]_vars PROVE IInv'
  OBVIOUS
<1>0. TypeOK
  BY DEF IInv
<1>1. ASSUME NEW p \in Procs, Connect(p) PROVE IInv'
  BY <1>0, <1>1, Moves DEF Connect, TypeOK
<1>2. ASSUME NEW p \in Procs, ConnectFails(p) PROVE IInv'
  BY <1>0, <1>2, Moves DEF ConnectFails, TypeOK
<1>3. ASSUME NEW p \in Procs, Prepare(p) PROVE IInv'
  BY <1>3, PrepareStep
<1>4. ASSUME NEW p \in Procs, Exec(p) PROVE IInv'
  BY <1>4, ExecStep
<1>5. ASSUME OtherReads \/ OtherWrites PROVE IInv'
  <2>1. /\ mode' = mode /\ tables' = tables /\ rows' = rows /\ faulty' = faulty
        /\ proc' = proc /\ contended' = contended /\ lost' = lost
    BY <1>5 DEF OtherReads, OtherWrites
  <2>2. NextInRange' /\ StoredIsPast' /\ LostIsPast' /\ RowsKept'
    BY <2>1, Stays
  <2>3. TypeOK'
    BY <1>0, <1>5, <2>1, Constants DEF OtherReads, OtherWrites, TypeOK
  <2>4. NoopIsThere' /\ NullHasACause'
    BY <2>1 DEF IInv, NoopIsThere, NullHasACause, Cause
  <2> QED BY <2>2, <2>3, <2>4 DEF IInv
<1>6. ASSUME UNCHANGED vars PROVE IInv'
  <2>1. /\ mode' = mode /\ tables' = tables /\ rows' = rows /\ faulty' = faulty
        /\ proc' = proc /\ contended' = contended /\ lost' = lost
        /\ writer' = writer /\ reading' = reading
    BY <1>6 DEF vars
  <2>2. NextInRange' /\ StoredIsPast' /\ LostIsPast' /\ RowsKept'
    BY <2>1, Stays
  <2>3. TypeOK'
    BY <1>0, <2>1 DEF TypeOK
  <2>4. NoopIsThere' /\ NullHasACause'
    BY <2>1 DEF IInv, NoopIsThere, NullHasACause, Cause
  <2> QED BY <2>2, <2>3, <2>4 DEF IInv
<1> QED
  BY <1>1, <1>2, <1>3, <1>4, <1>5, <1>6 DEF Next

-----------------------------------------------------------------------------
(* The results. *)

\* The statement a process is at, and why it is tried, are as the code has it
\* at every step, whoever else uses the database.
THEOREM Invariance == Spec => []IInv
<1> QED BY Init_IInv, IInvIsInductive, PTL DEF Spec

\* Only the process that holds the write lock is at its commit, and the loop of
\* ExecBatchSql ends: no statement is tried more than limit + 2 times.
THEOREM TypeCorrect == Spec => []TypeOK
<1>1. IInv => TypeOK
  BY DEF IInv
<1> QED BY Invariance, <1>1, PTL

\* A row that Extractor hands over is stored once and in its process's order,
\* or given up; and on a sound disk only contention or bad SQL makes a process
\* give up a statement.
THEOREM RowsAreKept == Spec => []RowsKept
<1>1. IInv => RowsKept
  BY DEF IInv
<1> QED BY Invariance, <1>1, PTL
=============================================================================
