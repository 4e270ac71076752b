----------------------------- MODULE SqliteDao -----------------------------
(***************************************************************************)
(* SqliteDao: how NEGI processes that share one database create its tables *)
(* and write the rows of results, each statement on a connection of its    *)
(* own that is tried again and again while the database is locked.         *)
(*                                                                         *)
(* SQLite is external: a statement that writes takes the one write lock    *)
(* and commits; whoever finds it taken is told SQLITE_BUSY at once, since  *)
(* no busy timeout is set.  In journal mode "delete" a reader holds up a   *)
(* commit, and a commit can keep others from compiling a statement; in     *)
(* "wal" neither.  Another program reads and writes the database too.      *)
(***************************************************************************)
EXTENDS Integers, Sequences, FiniteSets, SequencesExt

CONSTANTS
  Procs,        \* the NEGI processes
  Other,        \* another program
  None,         \* nobody
  Tables,       \* the tables of the file sql_table, in order
  RowTable,     \* save_result
  RowLimit,     \* the default of the parameter limit
  MaxRows,      \* bound on the rows of a process
  BadRows       \* rows with a quote in the pattern, which is not escaped

ASSUME TablesAssumption ==
  /\ Tables \in Seq(STRING)
  /\ \E n \in 1..Len(Tables) : Tables[n] = RowTable
ASSUME LimitsAssumption == RowLimit \in Nat /\ MaxRows \in Nat
ASSUME NamesAssumption ==
  Other # None /\ {Other, None} \cap Procs = {}

VARIABLES
  mode,       \* the journal mode of the database
  tables,     \* the tables it has
  rows,       \* the rows it has, in the order of their ids
  writer,     \* who holds the write lock
  reading,    \* Other is reading
  faulty,     \* the disk: files may fail to open, statements to execute
  proc,       \* the processes
  contended,  \* history: the processes a lock of another one has held up
  lost        \* history: the statements that were given up

vars == <<mode, tables, rows, writer, reading, faulty, proc, contended, lost>>

-----------------------------------------------------------------------------
(* A process executes the statements of sql_table, then one for each row;  *)
(* its statement number "next" is the one after those it is done with.     *)

Creates == Tables

IsCreate(n) == n <= Len(Creates)

Row(p, n) == [proc |-> p, row |-> n - Len(Creates)]

\* CreateTableFromFile gives 2; Extractor leaves it to the default.
Limit(n) == IF IsCreate(n) THEN 2 ELSE RowLimit

Statements == 1..(Len(Creates) + MaxRows)

Process == [pc : {"start", "call", "step", "commit", "exit"},
            next : Nat, null : BOOLEAN, noop : BOOLEAN, loop : Nat]

TypeOK ==
  /\ mode \in {"delete", "wal"}
  /\ tables \subseteq ToSet(Tables)
  /\ rows \in Seq([proc : Procs, row : 1..MaxRows])
  /\ writer \in Procs \cup {Other, None}
  /\ reading \in BOOLEAN /\ faulty \in BOOLEAN
  /\ proc \in [Procs -> Process]
  /\ contended \subseteq Procs
  /\ \A l \in lost : l.proc \in Procs /\ l.next \in Statements
  /\ \A p \in Procs :
       /\ writer = p <=> proc[p].pc = "commit"
       /\ proc[p].pc \in {"step", "commit"} =>
            /\ proc[p].next \in Statements
            /\ proc[p].loop <= Limit(proc[p].next) + 1

Init ==
  /\ mode = "delete" /\ tables = {} /\ rows = <<>>
  /\ writer = None /\ reading = FALSE
  /\ faulty \in BOOLEAN
  /\ proc = [p \in Procs |-> [pc |-> "start", next |-> 1, null |-> FALSE,
                              noop |-> FALSE, loop |-> 0]]
  /\ contended = {} /\ lost = {}

-----------------------------------------------------------------------------
(* Connect *)

\* The pragma is executed once, and its result not looked at.
Connect(p) ==
  /\ proc[p].pc = "start"
  /\ mode' = IF writer = None /\ ~reading THEN "wal" ELSE mode
  /\ proc' = [proc EXCEPT ![p].pc = "call"]
  /\ UNCHANGED <<tables, rows, writer, reading, faulty, contended, lost>>

\* The database, or the file sql_table, cannot be opened: exit.
ConnectFails(p) ==
  /\ proc[p].pc = "start"
  /\ faulty
  /\ proc' = [proc EXCEPT ![p].pc = "exit"]
  /\ UNCHANGED <<mode, tables, rows, writer, reading, faulty, contended, lost>>

-----------------------------------------------------------------------------
(* ExecBatchSql *)

Locked == mode = "delete" /\ writer # None

\* The statement cannot be compiled, now or ever.
Refused(p, n) ==
  ~IsCreate(n) /\ (RowTable \notin tables \/ Row(p, n) \in BadRows)

\* The database is opened and the statement compiled; nobody looks whether
\* it was, and if not it is a null pointer.  (The pragma that is compiled here
\* is not executed.)
Prepare(p) ==
  /\ proc[p].pc = "call"
  /\ proc[p].next \in Statements
  /\ \E null \in BOOLEAN :
       /\ null => Refused(p, proc[p].next) \/ Locked \/ faulty
       /\ ~null => ~Refused(p, proc[p].next)
       /\ proc' = [proc EXCEPT
            ![p].pc = "step", ![p].loop = 0, ![p].null = null,
            ![p].noop = IsCreate(proc[p].next)
                          /\ Tables[proc[p].next] \in tables]
       /\ contended' = IF null /\ Locked THEN contended \cup {p} ELSE contended
  /\ UNCHANGED <<mode, tables, rows, writer, reading, faulty, lost>>

Returned(p) == [proc EXCEPT ![p].pc = "call", ![p].next = @ + 1]

\* Slip: any number of tries.
NeverReached(loop, limit) == FALSE

LimitReached(loop, limit) == loop > limit

\* Slip: a try is not counted.
NotCounted(loop) == loop

Counted(loop) == loop + 1

\* The end of the loop's body: if (loop++ > limit) break.
TryAgain(p) ==
  IF LimitReached(proc[p].loop, Limit(proc[p].next))
  THEN /\ proc' = Returned(p)
       /\ lost' = lost \cup {[proc |-> p, next |-> proc[p].next,
                              tries |-> proc[p].loop + 1, error |-> FALSE]}
  ELSE /\ proc' = [proc EXCEPT ![p].pc = "step", ![p].loop = Counted(@)]
       /\ UNCHANGED lost

Stepping(p) == proc[p].pc = "step" /\ ~proc[p].null

\* sqlite3_step(NULL); the process sleeps and tries the same again.
StepMisuse(p) ==
  /\ proc[p].pc = "step" /\ proc[p].null
  /\ TryAgain(p)
  /\ UNCHANGED <<mode, tables, rows, writer, reading, faulty, contended>>

StepBusy(p) ==
  /\ Stepping(p)
  /\ writer # None
  /\ proc[p].noop => Locked
  /\ TryAgain(p)
  /\ contended' = contended \cup {p}
  /\ UNCHANGED <<mode, tables, rows, writer, reading, faulty>>

\* The table is there already: SQLITE_DONE without a write.
StepNoop(p) ==
  /\ Stepping(p)
  /\ proc[p].noop
  /\ proc' = Returned(p)
  /\ UNCHANGED <<mode, tables, rows, writer, reading, faulty, contended, lost>>

StepBegin(p) ==
  /\ Stepping(p)
  /\ ~proc[p].noop
  /\ writer = None
  /\ writer' = p
  /\ proc' = [proc EXCEPT ![p].pc = "commit"]
  /\ UNCHANGED <<mode, tables, rows, reading, faulty, contended, lost>>

\* Slip: SQLITE_DONE does not leave the loop.
DoneAgain(p) ==
  IF LimitReached(proc[p].loop, Limit(proc[p].next)) THEN Returned(p)
  ELSE [proc EXCEPT ![p].pc = "step", ![p].loop = @ + 1]

Done(p) == Returned(p)

Commit(p) ==
  /\ proc[p].pc = "commit"
  /\ mode = "delete" => ~reading
  /\ writer' = None
  /\ LET n == proc[p].next
     IN IF IsCreate(n)
        THEN tables' = tables \cup {Tables[n]} /\ UNCHANGED rows
        ELSE /\ rows' = Append(rows, Row(p, n))
             /\ UNCHANGED tables
  /\ proc' = Done(p)
  /\ UNCHANGED <<mode, reading, faulty, contended, lost>>

\* The reader's lock makes SQLite roll back and return SQLITE_BUSY.
CommitBusy(p) ==
  /\ proc[p].pc = "commit"
  /\ mode = "delete" /\ reading
  /\ writer' = None
  /\ TryAgain(p)
  /\ contended' = contended \cup {p}
  /\ UNCHANGED <<mode, tables, rows, reading, faulty>>

\* The disk fails: an "unknown" error is tried again, SQLITE_ERROR is not.
CommitUnknown(p) ==
  /\ proc[p].pc = "commit" /\ faulty
  /\ writer' = None
  /\ TryAgain(p)
  /\ UNCHANGED <<mode, tables, rows, reading, faulty, contended>>

CommitError(p) ==
  /\ proc[p].pc = "commit" /\ faulty
  /\ writer' = None
  /\ proc' = Returned(p)
  /\ lost' = lost \cup {[proc |-> p, next |-> proc[p].next,
                         tries |-> proc[p].loop + 1, error |-> TRUE]}
  /\ UNCHANGED <<mode, tables, rows, reading, faulty, contended>>

-----------------------------------------------------------------------------
(* The other program *)

OtherReads ==
  /\ reading' = ~reading
  /\ UNCHANGED <<mode, tables, rows, writer, faulty, proc, contended, lost>>

OtherWrites ==
  /\ writer \in {Other, None}
  /\ writer' = IF writer = None THEN Other ELSE None
  /\ UNCHANGED <<mode, tables, rows, reading, faulty, proc, contended, lost>>

Exec(p) ==
  \/ StepMisuse(p)
  \/ StepBusy(p)
  \/ StepNoop(p)
  \/ StepBegin(p)
  \/ Commit(p)
  \/ CommitBusy(p)
  \/ CommitUnknown(p)
  \/ CommitError(p)

Next ==
  \/ \E p \in Procs : Connect(p) \/ ConnectFails(p) \/ Prepare(p) \/ Exec(p)
  \/ OtherReads
  \/ OtherWrites

\* A process in the loop goes on; nobody promises that it gets the lock, nor
\* that there is another row.
Spec == Init /\ [][Next]_vars /\ \A p \in Procs : WF_vars(Exec(p))

-----------------------------------------------------------------------------
(* Properties. *)

\* A row is stored once, however often it was tried, and the rows of a process
\* have ids in the order in which it found them.
StoredInOrder ==
  \A i, j \in 1..Len(rows) :
    i < j /\ rows[i].proc = rows[j].proc => rows[i].row < rows[j].row

GivenUp(p, n) ==
  \E l \in lost : /\ l.proc = p /\ l.next = n
                  /\ l.error \/ l.tries = Limit(n) + 2

\* No statement vanishes: what a process is done with has either been executed
\* or was given up, and that after limit + 2 tries unless SQLite says ERROR.
\* A table may have been made by another process since.
NothingVanishes ==
  \A p \in Procs : \A n \in 1..(proc[p].next - 1) :
    IF IsCreate(n) THEN Creates[n] \in tables \/ GivenUp(p, n)
    ELSE Row(p, n) \in ToSet(rows) <=> ~GivenUp(p, n)

\* With a sound disk, a process that no lock has ever held up gives up nothing
\* but rows that are not SQL: the tables are there before its first row.
LossNeedsContention ==
  ~faulty => \A l \in lost :
    \/ l.proc \in contended
    \/ ~IsCreate(l.next) /\ Row(l.proc, l.next) \in BadRows

\* What becomes of the rows a process finds: each is stored once and in order,
\* or given up for a reason.
RowsKept == StoredInOrder /\ NothingVanishes /\ LossNeedsContention

\* Each call of ExecBatchSql returns, also if the database stays locked.
CallReturns ==
  \A p \in Procs : proc[p].pc = "step" ~> proc[p].pc = "call"
=============================================================================
