# Verification of NEGI

NEGI reads captured packets, rebuilds TCP streams, decodes HTTP, searches the
decoded content for keywords and stores what follows each match in an SQLite
database. It is one C++ process with one thread, and it is meant to "eat over
2TB pcap files with about 6GB memory usage" (`src/README.md`). That depends on
code that is hard to test: objects that point at one another and are deleted
from several places, collectors that delete while they iterate, and stages that
carry a state of their own from packet to packet of a stream. There are no unit
tests in the repository; what stands before each build is a style gate,
`dev/lint/lint.sh` (`circle.yml`), which runs `dev/lint/cpplint.py` over the sources
with the configuration in `src/src/CPPLINT.cfg`.

This directory holds TLA+ modules for that code, the TLC runs that check them,
and proofs. Paths such as `src/src/stream.cpp` are those of the repository;
`PROJECT.json` maps every definition to its lines, and lists the hazards of the
code with the properties that watch them.

## 1. The system

`main` (`main.cpp`) creates the singletons and calls `pcap_loop`. For each
frame `pcap_callback` (`packet_capture.cpp`) makes a `Packet` and gives it to
`Master::Proc` (`master.cpp`), which calls, in this order and without ever
yielding:

    StreamRebuild::Proc                        connections and streams
    HttpDecoder, MatchPreFilter, Extractor     unless the packet is in error
    PacketClean::Proc                          deletes the packet, ended
                                               streams, and what timed out

Everything else is called from these stages. The parts interact through shared
heap objects: two global pools (connections and streams), the `Stream` a packet
belongs to, and the buffers of the packet.

| Component | State it keeps | Operations | Modelled in |
|---|---|---|---|
| `StreamRebuild`, `TcpConn`, `TcpConnPool`, `StreamPool` | the multimap of connections by port key, the list of streams, each connection's list of streams and `prev_direction_`, the end list | SYN opens a connection; a packet continues the last stream, turns the conversation or opens a first stream; FIN and RST end it | `ConnTrack`, `Ownership` |
| `PacketClean` | `last_gc_time_` | delete the packet, the ended streams; collect streams and connections by time | `ConnTrack` |
| `Stream::AddPacket` | last sequence number and size, state, `disorder_flag_` | take, drop as duplicate, refuse as out of order | `StreamSeq` |
| `Observer` | counters | counting | `StreamSeq` (the disorder count) |
| `HttpDecoder`, `Gzip` | per stream: header size, chunked, compression, rest of the chunk, zlib state, an error flag | find the header, remove chunk framing, unpack | `HttpDecoder` |
| `MatchPreFilter` | the Aho-Corasick machine; per stream its state | build from the rules, read packet by packet | `AhoCorasick` |
| `Extractor`, `PapaResult` | per stream the results that wait for bytes | collect, save, drop | `Extractor` |
| `PacketCapture`, `Master` | none | order of the stages | the control of `ConnTrack` |
| `Packet` | header fields | parse a frame | its fields are inputs of the modules; the arithmetic is planned |
| `SqliteDao` | the name of the database | create the tables, write a row, retry while busy | `SqliteDao` |
| `RuleLoaderFile`, `RulePool`, `Rule` | the rules | read the rule file | planned; the rules are a constant of `AhoCorasick` |
| the style gate (`cpplint.py`) | over files: filters, line length, suppressions, counts; over lines: open blocks, includes, the function at hand | parse options and configuration, cleanse a text, check it line by line, report | `LintRun`, `LintText`, `LintNesting`, `LintIncludes`, `LintFile` |
| `SqliteSaver`, `FileWriter`, `PacketFileReader`, `MatchPreFilterInfo`, `Config`, vendored code | | | not modelled (section 8) |

What is hard, and what makes each part correct:

* **Connection tracking.** Plain pointers and list iterators lead from streams
  to connections and back, and destructors call through them. Streams are
  deleted because they ended, because they timed out, or because their
  connection did; connections by the last stream that leaves them, or by the
  collector. Correct means: nothing reachable is freed, nothing is freed twice,
  a packet lands in the stream it belongs to, and no packet with data is lost
  without being marked. The last does not hold of the server's packets on a
  connection whose two ports are equal (section 6).
* **Collection.** `PacketClean` deletes elements of the containers it iterates
  over and "repairs" the iterator with `--` and `++`, over the ends too. Correct
  means: it terminates, and deletes only what has timed out.
* **Sequence test.** One comparison decides what is a duplicate and what is a
  gap, in 32 bit arithmetic, and a refused packet leaves the stream waiting.
  Correct means: what is in the stream has no gap, and the count of disordered
  streams is what it says.
* **HTTP decoding.** A packet may end anywhere, also inside a chunk's size
  line or a gzip header, and the parsing functions (`strtol`, `strstr`) read on
  into whatever memory follows. Correct means: no buffer is overrun, and the
  decoder is in step with the sender at each packet's end.
* **Database.** Each statement opens the database anew and is tried again while
  others lock it; its failures are logged and forgotten. Correct means: a row is
  written once, and only what was tried often enough is lost.
* **Search and extraction.** Keywords and results cross packets. Correct means:
  the machine finds what a naive search of the whole stream finds, and the bytes
  that are saved are those that follow the match.
* **Style gate.** `cpplint.py` is a third-party script, kept in the repository and
  part of its build: a file it misjudges stops the build or slips through. It
  reads C++ line by line with regular expressions, and what it remembers from
  line to line and from file to file is in globals and stacks that are saved and
  restored by hand. Correct means: each file is judged by its own options, the
  nesting it believes in is that of the text, a literal or comment is taken for
  what it is, and the exit status says what was found.

## 2. The modules

`ConnTrack` follows one packet through the tracker and the cleaner. Its control
variable `pc` is where the thread is, and each early return, matched direction
and loop iteration of `SearchStream` and `PacketClean` is an action:

| Code | Actions |
|---|---|
| `pcap_callback`, `StreamRebuild::Proc` (`stream_rebuild.cpp`) | `CaptureOther` (not TCP), `CaptureSyn`, `CaptureDiscard` (no data, no FIN), `CaptureSearch` |
| `StreamRebuild::SearchStream` | `Skip`, `Open`, `ContinueAccept`, `ContinueReject`, `TurnForward`, `TurnBackward`, `Close`, `NextConn`, `SearchDone` |
| `PacketClean::Proc` (`packet_clean.cpp`) | `DeletePacket`, `DeleteEnded`, `SkipGc`, `StartGc`, `GcStream`, `GcStreamsDone`, `GcConnKeep`, `GcConnExpired`, `GcDone` |
| `~Stream`, `RemoveStreamIt`, `~TcpConn` (`stream.cpp`, `tcp_conn.cpp`) | the operators `DeleteStream` and `DeleteConn` these use |

Objects are identifiers, an identifier that is in no pool can be allocated
again, so a stale pointer can meet a new object. The multimap is the sequence
of its values in the order of their keys; `InsertPos` puts a new element behind
those with the same key, and the two-directional port key is `PortMapKey`.

`Ownership` is the abstract specification of the tracker: a stream has one
owner for all its life, starting a stream retires those before it, a connection
lives as long as its streams once it had one, and streams die with their
connection. `ConnTrack` instantiates it as `Lifetimes` and implements it.

`StreamSeq` is `Stream::AddPacket`. A segment has an absolute position, which
the code never sees, and a sequence number that wraps at `SeqRange`. Actions:
`Open`, `AddTaken`, `AddDuplicate`, `AddOutOfOrder`, `End`, `Delete`. In
`ConnTrack` the verdict of the sequence test is a free choice between
`ContinueAccept` and `ContinueReject`; `StreamSeq` says which one it is.

`HttpDecoder` is `HttpDecoder::Proc` with `DecodeChunk` and `DecodeGzip`, and
`Gzip`. A message is a sequence of bytes, each with the role it has for its
sender (header, size line, extension, data, line end); the decoder sees only
the bytes, the properties speak of the roles. What a peer sends is a grammar over
both (`PeerAssumption`): a header that ends once, and behind it chunks whose
lines spell their sizes (`InChunks`) or one body, of which what is packed is a
header of two bytes and deflated data (`IsPacked`). TLC evaluates it for the messages
of the runs, and the proofs know nothing else of a message. `Receive` is the next packet with
the header search, `EnterLoop`, `LineAtEnd`, `LastChunk`, `CutChunk`,
`WholeChunk` and `LargeChunk` the ways through the chunk loop, `GzipHttpHeader`,
`GzipBegin`, `GzipSecond` and `GzipContinue` the stages of unpacking, and
`NextStream` a new stream.

`AhoCorasick` is the machine `buildAhoMachine` makes. A node is the prefix of a
keyword that leads to it; the failure links and the output lists (at most `MaxN`
long) are recursive functions of the nodes, as the code computes them level by
level. The action `Proc` reads one packet of one stream from the state kept in
that stream.

`Extractor` is the life of the results of one stream. `Proc` is the whole of
`Extractor::Proc` for one packet: new matches are added, every waiting result is
completed, extended, begun, dropped as misplaced, or kills the process; finished
ones are saved and leave the list. `DeleteStream` is `~Stream`.

`SqliteDao` is `Connect`, `CreateTableFromFile` and `ExecBatchSql` of processes
that share a database. `Connect` sets the journal mode if nobody is in the way,
`Prepare` compiles a statement and may leave a null pointer, `Step...` and
`Commit...` are the outcomes of `sqlite3_step` that the loop tells apart, and
`TryAgain` is the loop's end. Taking the lock and committing are two actions, so
that the processes, and another program, meet in between.

The style gate is five modules, for the three scales at which it keeps state.

`LintRun` is `main`: `ParseArguments` option by option, `ProcessConfigOverrides`
directory by directory and line by line, and the stages of `ProcessFileData` in
their order (`StartData`, `RemoveMultiLineComments`, `CheckForHeaderGuard`,
`CheckGuardEnd`, `ProcessLine`, `AfterLines`, `CheckNewlines`). Each stage says what
it finds; `Error` then takes these one by one through `_ShouldPrintError`, with the
suppressions and filters there are at that moment. A line is what the checks
would find in it.

`LintFile` is one file, line by line: `ProcessLine`, `ProcessInclude` and
`ProcessAsmLine` are the ways through `ProcessLine`, `EndFile` what comes after the
last one. It extends `LintNesting` (`NestingState.Update` and `UpdatePreprocessor` on
tokens, and the checks that read them, with `CheckForFunctionLengths`) and
`LintIncludes` (`_IncludeState`, `CheckIncludeLine`, `CheckForIncludeWhatYouUse`). The
text comes from an environment (`WriteChunk`, `WriteDirective`, `WriteInclude`) that
writes well-formed C++ and keeps in `truth` what is open and included.

`LintText` is what is done to a text before: multi-line comments, raw strings,
strings and comments are taken away, and `CloseExpression` and
`ReverseCloseExpression` find the other end of a bracket. Again an environment
(`Write`, `Break`) writes the text token by token and knows what is code.

`MC*.tla` hold the small sets the runs use. `ConnTrackProofs`, `StreamSeqProofs`,
`ExtractorProofs`, `AhoCorasickProofs`, `HttpDecoderProofs`, `SqliteDaoProofs` and
`LintRunProofs` hold the proofs. `SequenceFacts` has the lemmas they share: what
`Append`, `RemoveAt`, `InsertAt` and `Tail` do to the elements of a sequence,
least elements and induction over the natural numbers (`Least`, `Induct`,
`FirstPositions`), and `Min` and `Max`.

A definition that is a variation of another one with a slip in it
(`StreamExpiredSinceGc`, `RestSwapped`, `StepOnce`, ...) is used by no specification:
it stands for a mistake that would be easy to make there, and each property has
one that breaks it. They are paired in `PROJECT.json` under "mutants".

## 3. What is abstracted

* *The order of `stream_pool_`* (a list) is left open: the stream collector takes
  expired streams in any order (`GcStream`). Its iterator misses none, because
  the successor of a list's end is its first element.
* *`--begin()` and `++end()`*, which the standard does not define, are what the
  library does for its red-black tree: `BackAndForth` and `AfterEnd` give the
  elements the iterator may reach, a few more than it does where this depends
  on the shape of the tree. What is shown holds for each of them.
* *Payloads*, *addresses* and *ports* of `ConnTrack` are kept to what is compared
  and tested: whether there is data, equality, and the order of port keys.
* *The character buffers* of results are functions from places to the positions
  of bytes in the stream, so a result shows which bytes it was filled with.
* *One rule* in `Extractor`: results do not influence each other. All rules
  are saved, because `RulePool::AddRule` sets that flag always.
* *Chunk sizes* are in base 2 (`Digits`), 16 in the code. `strtol` skips space,
  reads digits, and goes on into `Behind`, the memory behind the packet. A header
  field is one byte, and the two-byte header stands for the 10 bytes of gzip (a
  file name or extra field included) and the 2 of zlib.
* *zlib* is external: each deflated byte unpacks to one byte and a wrong byte is
  an error for good. That the output of one packet can exceed `SAVE_MAX_SIZE`
  is not modelled. A negative size given to `inflate` ends what the model says
  (`wild`).
* *SQLite* is external: one write lock, no waiting (no busy timeout is set),
  readers that hold up commits in journal mode "delete" and not in "wal",
  roll-back on SQLITE_BUSY. A disk either is sound or may fail at any call. The
  limit of 100000 tries is `RowLimit`; the two seconds of sleep are left out.
* *A size below zero given to `memcpy`* ends the process (`dead`) in `Extractor`.
* *Statistics* (`http_content_size_`, `l7_protocol_`, the other counters of
  `Observer`) are left out. `num_stream_disorderd` is not initialised in the
  code; the model counts from wherever it started.
* *Characters* of C++ are tokens in `LintText` and `LintNesting`: what a regular
  expression tells apart is one token, spaces only matter as indentation. Left
  out: digit separators, delimiters of raw strings, the strings of `#include`.
* *The checks of a single line* (spacing, casts, names, wording) keep no state:
  `LintRun` takes what they find as given (`finds`), `LintFile` leaves them out.
* *Names of headers* are records of what the checks ask of them. Directories
  named `public` and `internal`, and `-inl.h`, are not told from others.
* *Files are written in the style the length check relies on* (`Styled`): "Uses a
  simplistic algorithm assuming other style guidelines" (`cpplint.py:2849`).
* Branches that cannot be reached are left out: `savemode` STREAM (`stream.cpp:115`)
  and the test of the unsigned `chunk_size` against `LONG_MAX`.

## 4. The runs

Times are for two workers.

| Run | Question | Bounds | Distinct states |
|---|---|---|---|
| `conversation` | Do pools, lists and pointers stay consistent, do packets reach their own streams, and is `Ownership` implemented? | 2 connections, 4 streams, 3 times, every kind of packet of three flows | 281 165 |
| `collector` | What may the collector take, and does every packet come to an end? | 3 connections of 2 keys, 3 streams, 2 times, under fairness | 328 064 |
| `loss` | Is the stream free of gaps under loss, repetition, reordering and wrapping? | 15 segments in a space of 6 numbers, 4 packets, 2 disordered streams | 288 938 |
| `message` | Is the decoder in step with the sender at each packet's end? | 6 messages cut anywhere, 5 kinds of memory behind a packet | 272 117 |
| `rules` | Does the machine find what a naive search finds? | 260 rule files, 2 streams, packets of 2, texts of 4 | 249 860 |
| `results` | Is what is saved what follows the match, and is nothing lost? | results of 3 bytes, packets of 5, streams of 7 | 59 004 |
| `rows` | Is a row stored once, and what is lost? | 2 processes and another program, 1 table, 2 rows each, rows tried 2 times | 477 210 |
| `lint_run` | Is each file judged by its own options and marks, and does the exit status tell? | 2 directories, every configuration of a set of five in each, 2 files of four | 229 465 |
| `lint_file` | Is the nesting that of the text, do the checks that read it complain rightly, are includes known? | 7 kinds of files, up to 4 directives, 3 branches, 3 open scopes | 654 000 |
| `lint_text` | Is what is left after cleansing the code, and do brackets find each other? | 8 sets of tokens, texts of up to 7 tokens on 3 lines | 1 846 854 |
| `wrong_conn`, `l7_size` | Does the code do what its comments say? | | violated, section 6 |

**`conversation`** checks, over `AllKinds` of packets (a client and a server on
different ports, a second flow with the ports crossed and so the same key, and a
third with equal ports, whose packets the test of the ports takes for the client's,
also those of the server):

* `NoDangling`: lists, pools and back pointers agree. `EndList`: the
  end list is the ended streams, once each, in the order of their conversation,
  and a connection goes with the packet that ended it.
* `OneStreamAtGc`: `~TcpConn` deletes only the first of its streams, because its
  loop steps back over `begin()`. This is why that does no harm.
* `PrevDescribesLast`: `prev_direction_` tells whether there is a last stream to
  dereference.
* `PacketInItsStreams`: where a packet may end up.
* `DropsOnlyUnread`: exactly which packets `SearchStream` leaves in no stream and
  without a mark. Besides SYNs and packets with neither data nor FIN (line 54) these
  are the packets of no live connection, and all of the server's on a connection
  with two equal ports (`Shadowed`, lines 79-82 and 145). What a packet belongs to
  is defined by its two ends alone (`Matching`), not by the branches of the code.
* `EndsOldestRead`: exactly which connection a packet ends. It is the oldest between
  its ends, with three exceptions: a FIN that turns the conversation to the client
  (line 115 returns first), a RST without data (line 54), and the server's FIN and RST
  between equal ports.
* `ImplementsOwnership`.

Two connections are enough for two that have the same key, or one that is
visited twice; four streams let each connection hold an ended stream and a new
one. Three times let one object expire while another does not and a third
arrives. Identifiers are symmetric, and no liveness is checked here.

**`collector`** has three connections, the least for "first", "middle" and
"last" of the multimap, and `FairSpec`. `GcSparesUnlessFirst` is the exact
extent of a defect (section 6): a connection that has not timed out is deleted
only while the first one of the pool has, and only one at a time. `PacketFinishes`
is the termination of all loops, `NoEarlyDelete` the reasons a stream may go.

**`loss`**: `InStep` says what `last_seq_no_` and `last_size_` mean and that from the
second segment on the stream is contiguous, `DisorderCounted` what
the observer counts (streams disordered now, and those deleted so),
`RepairedByMissing` that only the segment that starts where the stream stopped
clears a disorder. Six numbers and data from 0 or 4 give streams that wrap and
streams that do not; segments have sizes 0 to 2 at every place, so they overlap
in each way.

**`message`**: `L7InBounds` holds for every cut and all memory behind the packet.
`ChunksDecoded` joins what is promised of the chunks: as long as no packet was
cut inside a size line (`past.aligned`) the rest of the chunk is what is still to
come and the decoded bytes are in front, and under a further condition the size
is theirs. `InflateInOrder` says when inflate is given what it needs. The six
messages are two chunks, a chunk with an extension, gzip, zlib, gzip in one chunk
and in two. The memory behind a packet may hold a digit, a header field, the end
of a header or a line end with a digit. Each condition excludes cuts for which the code goes wrong; `l7_size`
shows one of them. Deadlock is not checked, because of `wild`.

**`rules`**: all pairs of keywords of up to three characters over two letters
and three nested keywords in each order cover keywords inside, at the end of and
equal to one another, and more outputs than `MaxN`. `SearchIsNaive` compares
what is found with a search by definition, with the two limits the code has (the
last rule of equal keywords, and `MaxN` outputs), and says that the state kept in
a stream is the longest suffix of that stream's text that begins a keyword.

**`results`**: with results of three bytes and streams of seven, a result can
cross up to four packets, two results can overlap, and every alignment of the
end of a result and of a packet occurs. `CollectedFollows` says that what a result
has collected, and what is saved, are the bytes behind its match, `NoneLost` that
each match is waiting, saved or dropped for a reason. `FlagFlushes` says what ends a result
early; deadlock is not checked because the process may die.

**`rows`**: `RowsKept` says that a row is written once and in order, that each
statement is executed or given up after exactly `limit + 2` tries (`loop++ > limit`),
and that on a sound disk a process no lock has held up gives up only rows whose
pattern has a quote; `CallReturns` that each call ends though the database may stay locked. Two
processes can race for the table and for each row, the other program can hold
them up in both journal modes. One of the first process's rows has the quote.

**`lint_run`**: every pair of configurations (filters with both signs, a line
length, one that is no number, `set noparent`, an exclusion, none, an unreadable
one) is met by pairs of a source, a header, a file of another kind and one that
cannot be read, after command lines with each option. `FiltersAsGiven` is the
filters between two files. `OwnErrors` compares what was reported of a file with
what its text, the command line and its own configurations ask for (`Promised`,
defined without the steps), each error once. `CountsAgree`: the two counters and
the exit status.

**`lint_file`**: `ScopesKnown` compares the stack with the scopes that are open in
the text up to the first `#else` of each open `#if`, after every chunk: nested
namespaces, classes and functions, heads and parameters over several lines,
forward declarations, `struct` variables, inline assembly. `FlagsKnown`: closing
braces, labels, `DISALLOW_` macros, indentation in namespaces and long functions
are complained of exactly where the scopes say so. `IncludesKnown`: repetitions,
order (of the five types of `cpplint.py:4653-4658`, and by the alphabet between two
lines that follow each other) and what is missing, under nested conditions. A file's
own header behind others is the exception (section 6). A lambda that is closed on
another line makes the counts wrong (`skews`); from there on nothing is claimed.

**`lint_text`**: `ElidedIsCode` says that if no complaint about a comment or string is
made, what is left is the code, line by line. `PairsMatch`: both searches find the
other end of each pair, with `<`, `>`, `<<`, `->` and operator names in between. What
the code misreads without a word (section 6) is not written: `Misread` and `Break`
name each case.

These three do not check for deadlock: each run of the program ends.

## 5. Fairness

The program is one thread that runs until its input ends. `FairSpec` is
`WF_vars(Process)`: the thread takes its next step when it has one. Nothing is
assumed of packets to come: `CaptureNext` is not fair, so every liveness
property is about the packet in hand, and "a connection is collected some day"
is rightly not one of them. In `SqliteDao` each process that is in the loop of
`ExecBatchSql` goes on (`WF_vars(Exec(p))`); that it ever gets the lock is not
assumed, nor that another row comes. All other modules are checked for safety
alone.

## 6. Where code and comments disagree

Each of these runs checks one sentence of a comment, and fails:

* `wrong_conn` (`packet_clean.cpp:74`, "Check all tcpconn for timeout."): when the
  first connection has timed out, `--it; ++it` over the end of the map selects
  another one, which is deleted although it has not.
* `l7_size` (`packet.h:49`, "Layer 7 content size(with HTTP/1.1 decode, etc)"):
  the return at `http_decoder.cpp:152` leaves the size of the undecoded packet.

Five more sentences are at odds with what the models do; no run is spent on them:

* `stream.cpp:201`, "duplicate! do nothing": the test is not made in state BEGIN,
  so a repeated first packet enters the stream twice. `InStep` begins with the
  second segment for that reason.
* `extractor.cpp:48`, "this means results crosses packets.": a result that is full
  exactly at a packet's end waits with offset 0 and is begun again with the bytes
  of the next packet, or kills the process.
* `http_decoder.cpp:134`, "GetChunkOffset is rest size of devided chank": after a
  packet that ends in a size line the rest is wrong; `ChunksDecoded` excludes it.
* `cpplint.py:160`, "CPPLINT.cfg has an effect on files in the same directory and
  all sub-directories": a `linelength` stays for all files that follow (line 6102),
  that of the outermost configuration wins, and it is set for excluded files too.
* `cpplint.py:4661`, "keeps track of the highest type seen, and complains if we see a
  lower type after that": no complaint is ever made of the file's own header, which
  has type 1, or 4 behind others, when an other header (type 5) stands before it;
  `CheckNextIncludeOrder` (lines 727-738) takes it for one of those. `OrderKnown`
  makes the exception.

The models also show, without a sentence in the repository that says otherwise:
a connection alone in the pool is never collected; a connection's time is that
of its last stream's first packet; after a repeated SYN a packet is in the
streams of both connections; on a connection whose two ports are equal the server's
packets are neither stored nor marked, and its FIN or RST ends nothing, because the
test of the ports alone (`stream_rebuild.cpp:79-80`) takes the branch for the client
and the addresses fail there (line 81), so that line 145 is not reached; a longer retransmission loses its new bytes; an old
segment after a wrap counts as disorder; a PSH cuts waiting results short; a lock
that is held for four tries at start-up leaves the process without tables, and
each row is then a null statement that is stepped until the limit, with two
seconds of sleep in between.

Of the style gate they show: errors found before the line of their NOLINT is
reached are not suppressed; an unknown NOLINT on a guard line is reported twice;
parameters on lines of their own that begin with `struct` are classes where the
function is at the top level; a long function is reported again at the next
closing brace in the first column; after `#else` with an `#if` nested in the branch, a
header of the other branch is included "already"; code behind the end of a
multi-line comment goes with it, and the comment then swallows lines up to the
next one that ends in `*/`; quotes in comments pair up across code; the mark of
a raw string in a comment blanks the rest of the file; of two raw strings on a line
the first is lost if the second goes on; and a template's list that names
`operator>` or `operator<` is closed in the wrong place (`line[0:i - 1]` at
`cpplint.py:1440`, and no test at 1540).

## 7. What is proved

Every theorem is an invariant or an action property of a `Spec`, or the refinement,
for all values of the constants that meet the assumptions named with them. Each
proof is an inductive invariant (`IInv` if no other name is given) that joins the
type invariant with what a state must remember to keep the properties true, and
one lemma for each action or group of actions.

**`ConnTrackProofs`**: any connections, streams, addresses, packets and times, any
`gc_remove_time`; headers have their fields (`HeadersAssumption`), times are
integers with 0 among them (`TimesAssumption`, `GcRemoveTimeAssumption`) and
`None` is no object (`NoneAssumption`).

| Theorem | Statement |
|---|---|
| `TypeCorrect` | `Spec => []TypeOK` |
| `NothingDangles` | `Spec => []NoDangling` |
| `EndListCorrect` | `Spec => []EndList` |
| `PrevCorrect` | `Spec => []PrevDescribesLast` |
| `CollectorLeavesNoStream` | `Spec => []OneStreamAtGc` |
| `PacketBelongs` | `Spec => []PacketInItsStreams` |
| `DropsKnown` | `Spec => []DropsOnlyUnread` |
| `OldestReadEnds` | `Spec => []EndsOldestRead` |
| `Implements` | `Spec => ImplementsOwnership` |
| `DeletedForAReason` | `Spec => NoEarlyDelete` |
| `CollectsOneAtATime` | `Spec => GcSparesUnlessFirst` |

None of the first five is inductive alone. Deleting a connection is safe only
because it has at most one stream, which is so because all the others have ended
and the end list has been emptied, which needs that list to hold them all and in
order. The invariant joins the type invariant, `NoDangling`, the parts
`EndListSound` and `EndListInOrder` of `EndList`, `PrevDescribesLast` and
`Control`: the end list is empty outside the handling of a packet, no connection
has ended while the search is on, and in `flags` the iterator is at a connection
with a stream. The hardest action is `DeleteEnded`, in which a list is consumed
while its owners may vanish.

The next three are about the search, which looks only at the connections of the
packet's port key. Which it misses takes a second invariant on top of the
first, `SInv`: the pool is in the order of its keys, which insertion and removal
keep; a packet and its connection have one key, in both directions; and while
the search is on, no connection that one of its two branches is for lies before
the iterator, or the packet has found its stream. `ReadIsReached` says that the
connections one of the branches is for are those the properties speak of (`Read`):
all between the packet's ends but, for a server with the port of its client, none.
Both properties are equivalences, so they need the converse too: nothing is stored,
marked or ended unless the iterator was at such a connection (`NothingDone`).

`Implements` is the refinement, from `IInv` and `FreeOwner` (a stream that is not
in use belongs to no connection): each action is a step of `Ownership` or changes
nothing it sees. One deletion of a stream is one step there even if the
connection goes with it.

**`StreamSeqProofs`** proves `TypeCorrect`, `InStepCorrect`, `DisorderCountCorrect`
and `RepairCorrect` for every width of the numbers, every set of segments shorter
than that (`SizesAssumption`), start numbers (`IsnsAssumption`) and finite set of
streams (`StreamIdsAssumption`, for the cardinality). `IInv` is type correctness
with `Reached` and `NoGap`: `NoGap` follows because the expected number, compared
modulo the width, determines the position, and that needs `Reached`. `CountInv`
adds that a free object is not disordered, `MarkInv` that a stream is never
marked before its second segment.

**`ExtractorProofs`** proves `TypeCorrect`, `NoneLostCorrect`, `CollectsWhatFollows`
and `FlagsFlush` for any `RESULT_SIZE` above 0 and any packets (`SizesAssumption`).
`NoneLost` and `CollectedFollows` need each other, and two facts more: no match is
ahead of what was read (`HitsRead`), so that a new result is told from all that
are there, and what waits is unfinished (`WaitingUnfinished`), so that what is
saved leaves the list. The exception for results that were begun anew stays.

**`AhoCorasickProofs`** proves `TypeCorrect` and `SearchCorrect`
(`Spec => []SearchIsNaive`) for any alphabet, any number of keywords that are not
empty, repetitions included (`RuleListsAssumption`), and any limit `MAXN` of
outputs (`BoundsAssumption`). The argument is about suffixes:

1. The suffixes of a word are ordered by their length; the longest one that is a
   node exists and is unique, as the set of nodes is closed under prefixes
   (`LongestExists`, `NodesClosed`).
2. The failure link of a node is its longest proper suffix that is a node, and
   `g_` leads to the longest suffix of the node and the character (`FailFacts`,
   `GotoFacts`). It holds because the failure of a child is reached from the
   failures of its parent (`ThroughFailure`, `FailureOfChild`).
3. The output list of a node has the rules that end there, the longest first, up
   to `MAXN` (`OutOK`). A place in the list is the number of longer ones, which
   is how merging a node's own rule with the list of its failure keeps the order
   (`MergeStep`), also when it is full.
4. Reading one character takes the longest suffix of the text to that of the
   text with it, and adds what ends there (`LongestStep`, `AddHits`). So after
   each packet every stream has the node and the results of its text (`AccOK`),
   whatever was read for other streams in between.

`Fail` and `Out` are recursive functions over nodes. What such a function is can be
used only once it is shown that some function satisfies the equation; the proofs
construct one by induction on the length (`FailExists`, `OutExists`), and show that
there is no other.

**`HttpDecoderProofs`** proves `TypeCorrect` and `StaysInBounds`
(`Spec => []L7InBounds`) for any messages, cut anywhere, and any memory behind the
packets; only that the bytes are names and that NUL, CR and LF are no digits is
assumed (`MessagesAssumption`, `MemoryAssumption`). The invariant adds that while `Proc` is at
work `l7_content_` is as long as the content (`InWork`), so that writing behind the
place that is read is writing inside. `strtol` returns a natural number because its
recursion has a solution (`ValueFacts`), and stops because the memory ends with a
NUL (`AfterFacts`).

`ChunksAreDecoded` (`Spec => []ChunksDecoded`) and `InflatesInOrder`
(`Spec => []InflateInOrder`) hold for any number of chunks and packets and digits of
any base, from the grammar of messages alone (`PeerAssumption`). Each has an
invariant of its own, which TLC checked on `message` before it was proved, and
`DecodersInvariance` joins the three:

1. `ChunkInv` says where `DecodeChunk` is in the message. While every cut was a good
   one, `chunk_offset_` leads from the end of a packet to where the next size line
   begins or would begin; in the loop the read position is at such a line (or
   just behind the packet's end), and what is in front of the write position is the
   header and data of the packet up to there, in order (`InStep`). A step of the
   loop reads a line, for which it is shown that `strtol`, coming from the CR LF of the
   chunk before, stops at the line's own CR and returns the number that the
   grammar says, whatever the memory behind the packet holds but digits; a
   line ends within the packet or the packet ends behind it. The next place is then
   the chunk's end (`ContinueInStep` and the lemmas before it).
2. `PackInv` says what inflate has had: the deflated bytes of all packets before
   this one. When `DecodeGzip` is reached, its input is the data of the packet, by
   `ChunkInv` if it comes in chunks (`InputIs`). What is behind the two bytes of
   the packed header is next in line (`NextFits`, `InflateUnpacks`), and the
   conditions on the cuts exclude those that divide these two bytes
   (`TightPlace`).

Selecting the positions of a set in their order is a recursive function (`Select`);
`SequenceFacts` shows that such a recursion has one solution (`RunExists`,
`RunUnique`), and `SelectFrom` that a selection is that of its two halves, one after
the other.

**`SqliteDaoProofs`** proves `TypeCorrect` and `RowsAreKept` (`Spec => []RowsKept`) for
any processes, tables with the row table among them (`TablesAssumption`), limits
(`LimitsAssumption`) and processes other than the other program
(`NamesAssumption`). The invariant says that all that is stored or given up has a
number the process is past (`StoredIsPast`, `LostIsPast`), which is why a retry
writes nothing twice; why a statement has nothing to do (`NoopIsThere`); and why
one was not compiled (`NullHasACause`), which outlives the lock that was the cause.

**`LintRunProofs`** proves, for any directories, configurations, texts and categories,
`FiltersRestored` (`Spec => []FiltersAsGiven`), `CountsTell` (`Spec => []CountsAgree`),
`TypeCorrect` and `ErrorsAreOwn` (`Spec => []OwnErrors`). The first needs what `filters_backup` holds while a file is
on its way (`FiltersInv`), and then every way out restores it. The second
follows `Error`, the only action that reports: one more error is one more in its
category, by the cardinality of a set with one element added, and the counters are
still empty when `Configure` chooses the counting style. The third needs that
options and configurations hold what their names say (`SettingsAssumption`, a
number that is no number included), that files have lines (`FilesAssumption`),
and what the lists of filters come to when they are joined (`FlatFacts`).

`ErrorsAreOwn` compares the run with `Promised`, which knows no steps. Its invariant
(`RunInv`) follows a file through them:

1. `ConfigInv`, while the configurations are read: the lists of filters gathered so
   far come from the entries up to the place where the reading is, each one from a
   place farther from the file than the one before, and no exclusion was passed
   over. When all are read (`AllRead`), the sign of the last filter that matches, in
   the lists joined farthest first, is the sign that the nearest list with a match
   gives (`FilteredLast`, `NearestTurns`, `FiltersDecide`).
2. `MarksInv`, while the file is checked: the suppressions are those of the NOLINT
   marks on the lines read by then, and of no other (`MarksRead`); the guard lines
   come first. For what is found at a stage, these are the marks that `Silenced`
   allows to be heard (`Suppressed`, `LineMarks`).
3. `DoneInv`: what was reported of this file, with what waits for `Error` and
   will be printed, is what the stages passed (`SoFar`) have found and may print. A
   stage adds what it finds (`StageStep`), and `Error` moves one from the waiting to
   the reported (`ErrorInv`).
4. `OnceInv`: nothing is found twice. The stages find errors of different kinds
   (`by`), `ProcessLine` those of different lines, and within a stage the list has no
   repetition (`Lists`, `JoinLists`).

At the end of the file the stages' findings are all there are (`AllFound`); a file
that was excluded or not read is promised nothing (`ExcludeSkips`); and of a file
not begun nothing is reported, since what is reported has a smaller number.

`SequenceFacts` replaces induction: a set of natural numbers has a least element
(`Least`), so a set that has 0 and all successors has all of them (`Induct`). The
induction theorems of the library take an operator and cannot be applied.

**Only model-checked.** `PacketFinishes` of `ConnTrack` and `CallReturns` of `SqliteDao`
are liveness, which this prover does not do. For `LintFile` and `LintText`, which
compare two readers of a language, no proof was tried: their text is made by an
environment whose grammar would be most of the invariant.


## 8. What is not modelled

* `SqliteDao::ExecSql` is never called; `EscapeSingleQuote` (`db/util.cpp`) is a
  pure function on strings.
* `RuleLoaderFile`, `RulePool`, `Rule`: planned; the rules are constants.
* The header arithmetic of `Packet`: planned.
* `SqliteSaver` and `PacketResult`: their calls are commented out (`master.cpp:54`,
  `56`). `FileWriter` and `PacketFileReader` are never instantiated.
* `MatchPreFilterInfo` prints. `Config` is a map read once; the options that
  matter are constants.
* Memory that is never freed (`l7_content`, `http_decoder.cpp:108`) has no
  bearing on the properties.
* The alphabet of `AhoCorasick` is ASCII, as in the repository's rule files;
  `match_prefilter.cpp:74` indexes with a signed character.
* `cpplint.py`: the checks of one line (`CheckStyle` and `CheckSpacing` but for the
  width, `CheckLanguage` but for includes, casts, references, macros, names): they
  are pure functions of a line and its neighbours, and what matters of them,
  the errors they give, is an input of `LintRun`. `CheckSectionSpacing`, which reads
  the last line of a class, and `CheckForNonConstReference`, which reads the top of
  the stack, are planned. So are two checks at the end of a block: that a `DISALLOW_`
  macro is the last thing in its class (lines 2092-2108 of `_ClassInfo.CheckEnd`; the
  place of the brace, behind them, is modelled), and that the comment behind a
  namespace names it (`_NamespaceInfo.CheckEnd`, lines 2132-2182). The place from which a
  class head looks for a template's list on a line that opened namespaces (lines
  2462-2463) is a number of tokens, not of characters.
* `external/` is third-party code, `template/` and `test/` are configuration and
  captures.

## 9. Plan

Done: `ConnTrack` with `Ownership`, `StreamSeq`, `Extractor`, `AhoCorasick`,
`HttpDecoder`, `SqliteDao`; `LintRun`, `LintFile` and `LintText`; proofs of all but the
last two (section 7).

1. An abstract store (each row is stored or lost, in order) that `SqliteDao`
   implements, and the claim of `sqlite_dao.cpp:96`, "create table", which a
   lock at start-up refutes.
2. `RuleLoader`: the loop over a stream that fails without being at its end,
   `DeleteLastRule`. `Pipeline`: `AhoCorasick` and `Extractor` over one stream of
   decoded packets, against "the bytes after each match".
3. `PacketParse`: lengths as unsigned numbers of their width.
4. The style gate: the checks that read the nesting (`CheckSectionSpacing`,
   `CheckForNonConstReference`), and `LintRun` over texts that `LintFile` has read.
