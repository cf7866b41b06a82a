# A TLA+ verification of the YCSB-C benchmark

This directory keeps the formal models of this repository's benchmark program
(`ycsbc.cc`, `core/`, `db/`, and the scripts that run it), the TLC
configurations that check them on small instances, and machine-checked TLAPS
proofs of their main properties for all values of the constants.

- [1. The system](#1-the-system)
- [2. What can go wrong, and what makes each part correct](#2-what-can-go-wrong-and-what-makes-each-part-correct)
- [3. The modules and the code](#3-the-modules-and-the-code)
- [4. What is checked](#4-what-is-checked)
- [5. What is proved](#5-what-is-proved)
- [6. Where the code and its documents disagree](#6-where-the-code-and-its-documents-disagree)
- [7. What is not modelled](#7-what-is-not-modelled)
- [8. Plan](#8-plan)

## 1. The system

YCSB-C drives a key-value engine with a synthetic workload and reports
throughput.  A *load* phase inserts `recordcount` records; a *run* phase then
performs `operationcount` transactions, drawn from a mix of six operations.
Each phase is split over `-threads` client threads that share one workload
object and one database object.

| Component | State it keeps | Operations | Talks to |
|---|---|---|---|
| Main program (`ycsbc.cc`) | futures `actual_ops`, `sum`, `total_ops` | parse the command line; launch a phase; join it; report | launches `DelegateClient` with `std::async`, blocks in `future::get` |
| Client (`core/client.h`) | thread-local buffers, the loop counter and `oks` of `DelegateClient` | `DoInsert`, `DoTransaction` and six transactions | calls the shared workload and the shared database |
| CoreWorkload (`core/core_workload.{h,cc}`) | `key_generator_`, `insert_key_sequence_`, choosers, proportions | `Init`, `NextSequenceKey`, `NextTransactionKey`, `BuildKeyName`, `BuildValues`, `NextOperation` | calls the generators; shared by all threads without a lock of its own |
| Generators (`core/*_generator.h`) | an atomic counter; last values; zipfian constants under a mutex | `Next`, `Last` | draw from one static random engine (`core/utils.h`) |
| LSM bindings (`db/splitlsm_db.cc`, `db/unifiedlsm_db.cc`) | the engine object `lsm_` | `Read`, `Scan`, `Update`, `Insert`, `Delete`, each with a `try`/`catch` | call the lsm-tree engine, which is not in this repository |
| DB interface and factory (`core/db.h`, `db/db_factory.cc`) | none | the virtual operations and their status codes; choice of a binding | implemented by the bindings |
| Properties (`core/properties.h`) | a map of strings | load a file, get, set, index | read by `main` and `Init` |
| Harness (`run_ycsb.sh`, `run_abcd_workloads.sh`) | database directories, log files | load once and run with several thread counts; resume an interrupted campaign | start the program, read its output back |
| Shared random engine (`RandomDouble` of `core/utils.h`) | one static engine | two reads and writes of its state for each double | called by the discrete and the zipfian generators, each under a mutex of its own |
| Log and parser (`ycsbc.output`, `parse_result.py`) | the text of the log | append by the program, `grep` by the harness, `parse_ycsb_log` | written by `ycsbc`, read by the harness and for the plots |
| Hash tables (`lib/*.h`) | chained or TBB tables | get, insert, update, remove, scan | compiled by no target |

The interaction that matters is that of the *clients*: within a phase they run
concurrently and meet at the key counter (`key_generator_`, an atomic
`fetch_add`), at the choosers and at the database.  Phases are separated only
by the join loop of `main`, and processes only by the database that outlives
them, because every process constructs the workload object, and so the key
counter, anew.

## 2. What can go wrong, and what makes each part correct

`PROJECT.json` lists every hazard at its line.  The main ones:

- **The key counter and the loops.**  The number of keys taken is decided by
  the clients' loop counters, the keys by a shared counter.  Correct means
  that no key is handed out twice and that none is lost
  (`SequenceKeysDistinct`, `KeysAccountedFor`), so that the load phase leaves
  exactly the records `0 .. recordcount - 1` (`RecordsLoaded`).
- **Existing keys against new keys.**  `insert_key_sequence_` bounds the keys
  of transactions with `Last()`, which is the counter minus one; the zipfian
  chooser draws beyond it and relies on the rejection loop.  One too many and
  a transaction touches a key that a concurrent insert is about to create
  (`InsertsAreNew`, `TransactionsHit`).
- **The barrier.**  The vector of futures is filled, joined, cleared and
  filled again.  A future that is left over, or joined too early, lets
  transactions overlap with the load (`FuturesMatchThreads`,
  `PhasesDoNotOverlap`), or spoils the sum (`RunReportIsTrue`).
- **Engine failures.**  A write that throws may or may not have taken effect.
  The report must not claim a record that is not there (`LoadReportIsTrue`), and
  a delete, failed or not, must touch nothing but its own record
  (`RunOnlyShrinks`).
- **Termination.**  `NextTransactionKey` loops until a draw is acceptable, and
  `main` blocks on each future in turn (`Termination`).
- **One engine under several mutexes.**  The generators lock their own state,
  not the engine that they share.  Only with uniform requests, constant or
  uniform field lengths and uniform scan lengths is the chooser of operations its
  only user, and a benchmark performs the same operations however its threads
  interleave, although they choose them behind the unlock
  (`DrawsSerial`, `SameOperations`).  A zipfian or latest request distribution,
  zipfian field lengths and zipfian scan lengths each add a user under another
  mutex; the accesses then race, and what is left is that the engine stays on its
  cycle and the chooser within the mix (`DrawsTypeOK`).
- **A log that is both a report and a memory.**  The program appends to it
  piece by piece, the harness resumes from what it finds there, the parser
  takes any line of four words with two numbers for a result.  A killed program
  leaves a line that breaks off, and the next report is glued to it
  (`GrepFindsLog`, `ParserReadsResults`, `PlotsComplete`).
- **Sequences of processes.**  A second process starts its counters over on a
  database that is not empty (the runs `script` and `doc_insert`).

## 3. The modules and the code

| Module | Models |
|---|---|
| `Generators` | the generators: counters exactly, with the wrap-around of a 64-bit word (`Word` values); a random generator as the set of values its `Next()` can return |
| `CoreWorkload` | `Init`, the two counters, the choosers, field lengths and key names |
| `LsmBinding` | the five operations of both bindings, each with the status it returns, over an engine that is a map whose calls may throw |
| `Ycsbc` | `main`, `DelegateClient` and `Client`: processes, phases and interleaved threads; the properties |
| `LoadThenRun` | the abstract specification: load every record once, then open the database |
| `YcsbcInv` | the inductive invariant and the hypotheses of the theorems |
| `YcsbcDocs` | what comments and documents say, as properties |
| `Harness` | `run_abcd_workloads.sh`, interrupted and started again, with its log and its databases |
| `ResultLog` | the text of the log: what the program writes, one `<<` at a time, what `grep` finds and what `parse_result.py` reads; every step is one of `Harness` or invisible to it |
| `Draws` | `RandomDouble` on its static engine, `DiscreteGenerator` with `last_`, and the draws of each transaction |
| `CommandLine` | `ParseCommandLine`, `Properties`, and `main` up to its first phase |
| `Hashtable` | the tables of `lib/` under a mutex and under a reader-writer lock, with the copies of their keys |
| `ConcurrentMap` | the abstract specification of a table that threads share |
| `MCYcsbc`, `MCHarness`, `MCDraws`, `MCCommandLine`, `MCHashtable` | values of the constants for TLC |
| `YcsbcProof` | proofs: types, futures, the barrier |
| `YcsbcKeysProof` | proofs: the key counter, the database, transactions |
| `YcsbcRefinementProof` | proofs: `Ycsbc` implements `LoadThenRun`; the sums of both phases are right, and a run without writes only removes |
| `HarnessProof` | proofs: the harness |
| `ResultLogProof` | proofs: `ResultLog` implements `Harness`; what `grep` and the parser find in the text |
| `DrawsProof` | proofs: the draws are one sequence, the operations are those of a single thread, types |
| `CommandLineProof` | proofs: which command lines are accepted, which setting wins, the result line |
| `HashtableProof` | proofs: the lock, the key copies and the entries of the tables; they implement `ConcurrentMap` |

The systems are modelled apart, because they meet at narrow places.
`Harness` starts the program that `CommandLine` and `Ycsbc` describe: what it
looks for in the log is the line that `ResultLineIsNeedle` of `CommandLine` is
about, and one of its `Run` steps stands for a whole process of `Ycsbc`.  A thread
count is a number in `Harness`, which takes each word of the script's list for the
decimal writing of its number; what happens to `01` is shown in `CommandLine`.
`ResultLog` extends `Harness` by the text that stands behind its log.
`Draws` follows what `NextOperation`, `DrawKey` and the field lengths of `Ycsbc`
leave open: there a draw is any value of its generator, which is right whatever
the engine yields.
`CommandLine` ends where `StartProcess` of `Ycsbc` begins; the phases and the
number of threads that it yields are the constant `Command` there.  `Hashtable`
has no caller in the program.

### State of `Ycsbc`

| Variable | Code |
|---|---|
| `job` | which invocation of the program runs; the constant `Command` gives the `-threads`, `-load` and `-run` of each |
| `main` | where `main` is: before `wl.Init` (`"start"`), in a phase, after the last process |
| `launched`, `actual_ops`, `joined`, `sum` | the launch loop's index, the vector of futures (a future is the number of its thread), the join loop's position, `sum` |
| `printed` | the count in the last report |
| `pc[c]` | where thread `c` is: not alive, at the head of `DelegateClient`'s loop, between two accesses to shared state, or returned |
| `is_loading`, `i`, `oks`, `op`, `key` | `DelegateClient`'s argument, loop counter and result; the operation and the key number in hand |
| `key_generator`, `insert_key_sequence` | the two counters of the workload object |
| `lsm` | what the engine holds |

### Actions of `Ycsbc`

One action is one access to state that another thread can see, with
everything up to the next one.

- `StartProcess` is everything in `main` before a phase: `wl.Init` sets both
  counters.  `Launch` is a round of the launch loop; the thread runs from
  then on, while `main` launches the others.  `GetResult` is a round of the
  join loop and blocks until that thread has returned.  `EndLoad` and `EndRun`
  report and leave the phase, and include the clearing of the futures and the
  start of the next process.
- `TakeSequenceKey` is `fetch_add`, in `DoInsert` and in `TransactionInsert`;
  `InsertRecord` is the call of the database that follows it, and the return
  to the loop.  Another thread can run between the two.
- `NextOperation`, `DrawKey` and `TestKey` are the draw of an operation, the
  draw of a key and the test that ends the loop of `NextTransactionKey`.
- `TransactionRead`, `TransactionScan`, `TransactionUpdate` and
  `TransactionDelete` are one call of the database each.
  `TransactionReadModifyWrite` is two: `ReadBeforeWrite`, which ignores the
  status, and `TransactionUpdate`.
- `ReturnOks` is the end of the loop: the result goes to the future.

### Abstractions

- A random draw is a nondeterministic choice from the generator's values.  The
  distribution over them is left out.  `DiscreteGenerator` returns any
  operation whose proportion is positive.  A scrambled zipfian generator returns
  the hashes of its ranks modulo the number of items, and no other value: some
  keys may never be drawn.
- A stored value is the length of its first field, a number that is 0 exactly
  when the stored string is empty: `Read` tells nothing else apart.
- A key is its number or, for hashed inserts, the hash of it.  The hash is a
  constant operator; that distinct numbers make distinct keys is a hypothesis
  (`KeyNamesDistinct`), because a 64-bit FNV hash does not promise it.  It is stated
  over all words, and with hashed inserts it is probably false there; over the few
  numbers that a workload uses a collision is unlikely.  With ordered inserts it
  holds.
- The engine is an atomic map.  Each call that may throw (`Throwing`) may do
  so before or after a write took effect.  Statuses other than `kOK` and
  `kErrorNoData` do not occur in these bindings.
- Proportions are in percent, so that `NewKeys` (the room that the zipfian
  chooser reserves for inserts) is computed as the code does, truncated.
- The draws of field lengths, of scan lengths and of the values' bytes are part
  of the action around them.  What they share with other threads is at most the
  random engine, which `Draws` is about.

### Harness

The script's place in its loops is `at`, `pair` (database and workload file, in
the order of the two outer loops) and `th` (the position in `threads`).  The
log is the sequence of its result lines; a line has a throughput or not, since
`main` writes its beginning and its end one after the other to an unbuffered
stream.  `HasResult` is `has_result`, which looks for the beginning.  `Prepare`
is `rm -rf` and `mkdir`, `LoadReturns` and `Run` are the two invocations.  Two
variables are not in the script but in the file system: `loaded` and `history`
say what each database went through since it was made.  `Stop` is the end of
the script at any point: by a signal, or because the program fails under
`set -e`.  A process with an unknown database name does nothing and exits with
0 (`RunUnknown`, `LoadReturns`).  `Stop` ends script and program together: a
program that goes on alone, because only the shell was killed, is not modelled.

### ResultLog

`text` is the log as lines of tokens, of which the last is open; `pending` is
what the running program has yet to write, in the pieces of the `<<` operators,
because `cerr` writes each of them at once.  A name, a number or a word is one
token, and blanks and newlines are tokens of their own, since the order of
these is all that `grep -F` and the parser's splitting depend on.  `WriteNeedleEnd` is
the write after which `grep` finds the line (`WriteLine` of `Harness`),
`WriteResultEnd` the newline that completes it (`WriteThroughput`).  `LogStop` drops what is
pending and keeps the open line, to which the next program appends.  `Words`,
`IsRow` and `Row` are the parser's splitting, its tests and its row (a word is a
longest run of tokens without a blank, `WordAt`); that `int()` refuses a glued word
is `IsInt`.

### Draws

`users` is the set of generators that call `RandomDouble` under the chosen
workload: `op_chooser_` always, `key_chooser_` unless requests are uniform,
`field_len_generator_` and `scan_len_chooser_` if theirs is the zipfian
distribution.  `DrawsOf` is what each transaction draws: keys until one is
acceptable, the length of a scan, the lengths of one field or, under
`writeallfields` and for an insert, of all.  A draw is two calls of the engine; each is a read of its state and
a write of the successor, and the compiler may keep the state in a register
between them (`Store` may leave the write out, `Reload` may be skipped).
`draw[t]` is what thread `t` read and what it makes of it.  `Choose` is the loop of
`DiscreteGenerator::Next` over the weights, as a comparison of whole numbers;
`Slack` doubles are lost to rounding and fall through it.  The build of
`README.md:10` is a release, which has no assertions, so such a draw returns
`last_`.  What a thread returns is what it assigned to `last_`, not what it finds
there.  `drawn` and `performed` are histories and are kept only while one
generator uses the engine.

### CommandLine

One action is one branch of the loop in `ParseCommandLine`, with its checks
of a missing operand; `argindex` counts words as the code does, `props` is the
map of `Properties`.  `PropertyFileOption` opens the file of `-P`; `LoadLine` is
then one round of the loop in `Properties::Load`, and `LoadReturns` its end
(`line` counts the lines read, and `outcome` is `"loading"` meanwhile), so that
what a file sets is reasoned about line by line.  Whether a word
starts with a dash, and how a word or a line splits at its equals sign, is
given by constants, because no property is about characters.  `CreateDB` is
the factory and the binding's demand for a path.  `InitWorkload` is `wl.Init`, which
may throw for reasons that are not followed, and `stoi` of the thread count: `Stoi`
has the words that it takes (those that begin with a number), and `Decimal` what
`<<` writes for a number.  `ResultLine` is made of that, as in the code, and so a
thread count given as `01` is printed as `1`.

### Hashtable

`memory` is what each block holds, `table` the entries with a block, a hash and
a value; comparisons read the block, as `String::operator==` does after the
hashes agreed.  The two variants differ in what lock an operation takes and in
whether `Insert` copies its key under it.  `Remove` is two steps, because the
block is free between them.  Iteration order is any order.  The loop of
`Entries` is one step: writers are excluded for its whole length in one table,
and in the other inserts alone may run beside it.

## 4. What is checked

| Run | Instance | Properties | Shows |
|---|---|---|---|
| `combined` | one process, 3 threads, 3 records, 4 operations of every kind but delete, zipfian | `TypeOK`, `IInv`, `FuturesMatchThreads`, `SequenceKeysDistinct`, `InsertsAreNew`, `KeysAccountedFor`, `RecordsLoaded`, `TransactionsHit`, `LoadReportIsTrue`, `RunReportIsTrue`, `PhasesDoNotOverlap` | the keys that inserts take and those that transactions choose stay apart, however three threads interleave; the sums are right |
| `script` | three processes as in `run_ycsb.sh` (load, run with 1 thread, run with 2), 4 records, 3 operations of all six kinds, hashed keys, zipfian, field lengths 1 and 2, fair | `LoadsThenRuns`, `Termination` | the program implements `LoadThenRun` across processes; loops and joins come to an end, also when records were deleted |
| `faults` | 2 threads, 4 records from `insertstart` -2, 4 reads, scans and deletes, latest; every engine call may throw | `LoadReportIsTrue`, `RunOnlyShrinks` | no record is reported that is not there, also when the key counter wraps around; a delete takes its own record away and no other, and what it reported as deleted stays so, whichever keys are drawn |
| `harness` | three targets, one of an unknown database, the thread counts 1, 2, 1, two interruptions between any two writes | `HInv`, `LoggedOnce`, `DatabaseIsAccountedFor`, `LostResultsBounded`, `DoneMeansLogged`, `GrepFindsLog`, `ParserReadsResults`, `PlotsComplete`, `Completion` | resuming repeats nothing and uses no database that was left in the middle; an interruption costs at most one result; `grep` and the parser see in the text what was done, broken and glued lines included |
| `draws` | 2 threads, 2 transactions each, an engine with 10 states, one double past the weights, a mix of reads, updates, inserts and scans, 2 fields, every set of generators that share the engine | `DrawsTypeOK`, `DrawsSerial`, `SameOperations` | with one user the draws are one sequence and the operations those of a single thread; with several the race leaves the engine on its cycle and the chooser within the mix |
| `command_line` | all command lines of up to 4 of 13 words, and 384 like those of the scripts, with up to 11 words, among them thread counts 04 and x and settings of `dbname` and `threadcount` behind the script's own | `TypeOK`, `AcceptsExactlyOptions`, `LastSettingWins`, `ResultLineIsNeedle`, `ParsingEnds` | the parser accepts what the usage message describes; the last setting wins; the result line is the one the harness greps for exactly if no later setting is in the way and the thread count is written as it is printed |
| `hashtable` | both tables, 2 threads, 2 keys with one hash, 2 values, 4 blocks, 4 calls | `TypeOK`, `HashInv`, `WorkSeesLiveKeys`, `OneEntryPerKey`, `KeyCopiesAccountedFor`, `IsConcurrentMap` | both tables are atomic maps, and no comparison reads a freed key |
| `doc_insert`, `doc_load`, `doc_range`, `doc_length`, `doc_update` | | one claim each | a claim of the documents that the code does not keep (section 6) |

Each property has a mutant in `PROJECT.json`: a plausible slip in one mapped
definition (a lost `fetch_add`, a bound one too high, futures or a sum that
are not reset, a missing join) under which TLC refutes the property.

**Bounds.**  Two threads are enough for every race between two clients, three
for a join order that differs from the order of completion on both sides.
Records and operations are at least one per thread, so that each thread loads
and runs, and in `combined` the division of the 4 operations by 3 threads leaves
a remainder; with `insertproportion` 20 % of 4 operations (30 % of 3 in `script`)
the zipfian chooser has one key beyond the loaded ones, so the rejection loop
rejects; in `script` the hash also gives two ranks one key and leaves out another.
A word has 16 values: more than the keys of any run, few enough that TLC can test
`KeyNamesDistinct` over all of them.  Counters are bounded by the loops of the
code, so no bound had to be added to a guard of `Ycsbc`.  In `Harness` the bound
`MaxStops` is the number of interruptions: with two, a line can be glued to one
that was itself glued, and a target can be interrupted again after it was
resumed; a thread count that is listed
twice and a misspelt database name are part of the instance.  In `Draws`, `Rounds` is two transactions a thread, the fewest in which a thread
finds the engine or `last_` as another left it after its own draw; `MaxDraws`
is two keys drawn for a transaction, the first one rejected; with `Slack` one,
the fall-through is reached, and so are two concurrent draws of one engine
state where generators share it.  Its run uses symmetry in the threads and checks
invariants only.  In `CommandLine`
four words hold two options with operands, the scripted lines hold two files
and overriding options.  In `Hashtable` the bound `MaxCalls` of four calls holds
the longest hazard: two entries, a `Remove` between its halves, and an `Insert`
that copies into the block just freed; `MaxEntries` covers none, some and all
of the entries.  Its run uses symmetry in threads, keys, values and blocks,
which the specification does not tell apart, and checks safety only.

**Fairness.**  Of the runs of `Ycsbc` only `script` uses `FairSpec`.  `WF_vars(Main)` and
`WF_vars(ClientStep(c))` are the scheduling of threads by the operating
system: one that can take a step takes one in the end.
`SF_vars(DrawAcceptable(c))` is the draw: every value of a chooser has a positive
probability, so if one of them is acceptable, a thread that draws again and
again draws it in the end.  The values of the scrambled zipfian chooser are not
all keys of its range but the hashes of its ranks, modulo that range; that one of
them is below the bound is not assumed, and without it `Termination` fails.  Weak
fairness would not do, because drawing is disabled while the thread tests what it
drew.  `harness` assumes `WF_logVars(LogScript)`:
the script and the program it runs take their next step, and whoever started it starts it again after
an interruption.  `command_line` assumes that a process that can take a step
takes one.  Deadlock is checked in every
run; `AllExited`, `Ended` and `Finished` are the stuttering steps after the end.

## 5. What is proved

TLAPS checks all of the following for every number of threads, records,
operations and processes, every distribution and every size of the word; what
is about the harness and its log, the draws, the command line or the tables, for
all values of their constants.

| Theorem | Module | Hypotheses | States |
|---|---|---|---|
| `TypeCorrect` | `YcsbcProof` | | `[]TypeOK` |
| `FuturesCorrect` | `YcsbcProof` | | `[]FuturesMatchThreads`, the assertions of `main` |
| `BarrierCorrect` | `YcsbcProof` | | `PhasesDoNotOverlap` |
| `SequenceKeysCorrect` | `YcsbcKeysProof` | KeysSuffice | `[]SequenceKeysDistinct` |
| `Invariance` | `YcsbcKeysProof` | KeysSuffice, CleanLoad, NoDeletes | `[]IInv` |
| `RecordsLoadedCorrect` | `YcsbcKeysProof` | the same | `[]RecordsLoaded` |
| `TransactionsHitCorrect` | `YcsbcKeysProof` | the same, NoEmptyValues | `[]TransactionsHit` |
| `InsertsAreNewCorrect`, `KeysAccountedForCorrect` | `YcsbcKeysProof` | the same as `Invariance`, one process | `[]InsertsAreNew`, `[]KeysAccountedFor` |
| `RefinementCorrect` | `YcsbcRefinementProof` | KeysSuffice, CleanLoad | `LoadsThenRuns`: every behaviour of `Ycsbc` is one of `LoadThenRun` |
| `LoadReportCorrect` | `YcsbcRefinementProof` | KeyNamesDistinct | `[]LoadReportIsTrue`, whatever throws and wherever the counter starts |
| `RunReportCorrect` | `YcsbcRefinementProof` | KeysSuffice, CleanLoad, NoDeletes, NoEmptyValues, nothing throws | `[]RunReportIsTrue` |
| `RunOnlyShrinksCorrect` | `YcsbcRefinementProof` | NoWrites | `RunOnlyShrinks`: records stay as they are or go by a delete of their own key, whatever throws |
| `HarnessInvariance` | `HarnessProof` | | `[]HInv` |
| `LoggedOnceCorrect`, `DatabaseCorrect`, `LostResultsCorrect`, `DoneCorrect` | `HarnessProof` | | `[]LoggedOnce`, `[]DatabaseIsAccountedFor`, `[]LostResultsBounded`, `[]DoneMeansLogged` |
| `LogImplementsHarness` | `ResultLogProof` | | every behaviour of `ResultLog` is one of `Harness` |
| `LogInvariance` | `ResultLogProof` | | `[]HInv` of the specification that writes text |
| `GrepCorrect` | `ResultLogProof` | | `[]GrepFindsLog` |
| `RowsInvariance` | `ResultLogProof` | | `[](HInv /\ TextInv /\ RowsInv)` |
| `ParserCorrect` | `ResultLogProof` | | `[]ParserReadsResults` |
| `PlotsCorrect` | `ResultLogProof` | | `[]PlotsComplete` |
| `DrawsSerialCorrect` | `DrawsProof` | | `[]DrawsSerial` |
| `SameOperationsCorrect` | `DrawsProof` | | `[]SameOperations` |
| `DrawsTypeCorrect` | `DrawsProof` | | `[]DrawsTypeOK`, whichever generators share the engine |
| `CommandLineTypeCorrect` | `CommandLineProof` | | `[]TypeOK` of `CommandLine`: no word past the last is read |
| `AcceptanceCorrect` | `CommandLineProof` | | `[]AcceptsExactlyOptions` |
| `LastSettingCorrect` | `CommandLineProof` | | `[]LastSettingWins` |
| `ResultLineCorrect` | `CommandLineProof` | | `[]ResultLineIsNeedle`, both ways: when the line is the needle and when it is not |
| `HashtableInvariance` | `HashtableProof` | | `[]HashInv` |
| `HashtableTypeCorrect` | `HashtableProof` | | `[]TypeOK` of `Hashtable` |
| `LiveKeysCorrect`, `OneEntryCorrect` | `HashtableProof` | | `[]WorkSeesLiveKeys`, `[]OneEntryPerKey` |
| `KeyCopiesCorrect` | `HashtableProof` | | `[]KeyCopiesAccountedFor` |
| `AtomicMapCorrect` | `HashtableProof` | | `IsConcurrentMap`: every behaviour of a table is one of `ConcurrentMap` |

The hypotheses, in `YcsbcInv`:

- **KeyNamesDistinct** (in `CoreWorkload`): distinct numbers make distinct keys.
- **KeysSuffice**: that, and the counter does not wrap around within a process.
- **CleanLoad**: the first process loads, `insertstart` is 0, the record count
  is positive and divisible by the number of threads, and the engine's writes
  do not fail.  Each of these is needed: the runs `doc_load` and `faults` show
  what happens without the last two.
- **NoDeletes**: `deleteproportion` is 0.
- **NoEmptyValues**: no field length is 0.  The zipfian field lengths break
  it (`doc_length`).
- **NoWrites**: the mix has reads, scans and deletes alone.
- *nothing throws*: `Throwing = {}`, no call of the engine throws.

The constants' own assumptions (`WordAssumption`, `WorkloadAssumption`,
`ChooserAssumption`, `ThrowingAssumption`, `CommandAssumption`) state what
`Init` and the generators' constructors assert, `HashAssumption` that a hash is a
word; they are evaluated by TLC.  Those
of the other modules say what the constants are: that there are finitely many
threads (`DrawsAssumption`), that the engine never leaves its cycle
(`EngineAssumption`), which words are options and which lines are assignments, that a
number is read back from what is written for it (`NumberAssumption`).

**The argument.**  `MainInv` says which threads are alive: those whose future is
in `actual_ops` and was not joined yet, in launch order.  That alone gives the
futures and the barrier.  For the keys it is not enough, since what the
counter holds at the end of a phase depends on how many rounds all the
clients made.  `RoundsInv` bounds the rounds of each client by its share, and
`CounterInv` counts them: `Tickets` is the set of pairs (thread, round) in
which a key was taken or the round was completed without one.  The counter
stands at most `Cardinality(Tickets)` above where the phase began, and exactly
there while loading; a thread that is about to take a key can always add one
more ticket, and all the tickets there can be are `Threads * PhaseOps`, so the
counter does not wrap around.  When all threads are joined the tickets are all
the pairs, so a load phase has handed out precisely `0 .. recordcount - 1`.
`LoadInv` and `RunInv` carry that over to the database: it holds the keys
handed out except those whose insert is under way, because transactions write
only under keys below the floor of the run phase.  The refinement needs
`LoadInv` but not `RunInv`, and so holds with deletes too.

Each invariant is preserved action by action, with the frame of a client's
step (`ClientStepFrame`, `ClientStepKey`, `ClientStepLsm`, `ClientStepRounds`,
`ClientStepClaims`) stated once.  `combined` checks the same `IInv` with TLC.

The sum of the load phase is proved without these hypotheses, since a report must
be true on the day when the engine fails.  `FirstKeysInv` measures a key number by
its distance from `insertstart` along the word, around its end if need be: the
distance of the counter is at most the number of tickets, so it stays below the
word's size and no number comes up twice.  An insert that returns `kOK` is
therefore of a key that the database does not hold.  `ResultsInv` counts: the
pairs (client, success) are at most as many as the records, and as many if nothing
throws, because an insert that fails may have left its record or not; main has
added up those of the clients it joined, and in the end these are all.

The sum of a run rests on `RunSum`: while nothing fails a client's `oks` is
the number of its rounds, so what main has added up is the share times the
number of joined threads (`Tally`).  `TransactionsHit` is what makes every read
succeed.  `RunOnlyShrinks` needs
none of this, only that no client of such a run is about to write
(`NoWriteInv`): a client's step then leaves the database alone unless it is a
delete, which takes away its own key or, if it throws, perhaps nothing
(`OnlyDeletesStep`).  So it holds wherever the engine throws.

For the harness (every list of targets and thread counts, any number of
interruptions) the invariant `HInv` says what the place in the loops implies:
`CoverInv`, that every target passed and every thread count passed has its
line; `LineInv`, that a run under way has none yet, and that the line being
written is the last one; `DatabaseInv`, that the runs since the load all have
a throughput but the current one.  `LoggedOnce` is inductive only together
with `LineInv`, and `LostResultsBounded` only because a line without a
throughput that is not the last one was left by an interruption.

`ResultLog` writes a report in ten pieces where `Harness` has two steps.  Each of
its steps is one step of `Harness` or changes none of its variables
(`LogStepIsHarnessStep`), so whatever is proved of the script holds of the one that
writes text.

`GrepFindsLog` relates that text to the log.  `TextInv` says that what is pending is
the end of a report, and that from the heading on the open line is as much of the
result line as was written (`LineBegins`); then exactly one write, the third from
the end, completes a needle (`FoundTabLast`).  All the others are inert, because a
needle ends with a tab behind a number, and no other piece puts a tab there: not
even when the open line is one that a killed program left (`FoundInert`,
`FoundTabEarly`).

What the parser makes of the text is `RowsInv`: the closed lines have the rows of
the completed runs, in their order (`ClosedInv`), and the open line is a part of one
result line or *spoiled* (`OpenInv`), which is to say that somewhere in it a heading
begins.  A spoiled line is none of four words with a number for the third: behind
whatever a killed program left there stand two words of the heading, and one of them
is the third word (`SpoiledIsNoRow`).  A part of a result line has too few words
(`PartIsNoRow`), and the whole of one is the row of the last line of the log, whose
throughput `Harness` does not count yet (`CompleteInv`).  `Words`, `ParseYcsbLog` and
`Results` are concatenations of sequences with at most one element each; `Flattened`
and `FlattenElements` say what such a concatenation consists of, by induction over
the tables of the partial ones.  `PlotsComplete` is then a matter of counting: the
rows are those of different lines (`ReadOnce`, by `LoggedOnce`), as many as the log
has lines with a throughput (`ResultsCounted`), and each point of a finished campaign
has a line (`CampaignLogged`).

For the draws (any engine, any number of threads, weights and transactions)
`DrawsSerial` follows from `LockInv`, that a drawing thread holds the mutex of
its generator alone, and `EngineInv`: with one user the engine is, between draws,
where the last completed draw left it, and a draw under way is the one that
follows, whichever of its reads and writes the compiler left out.

`SameOperations` compares the operations performed with those that a single thread
would draw.  `CountInv` counts, for each set of operations, the completed draws
that pick one of them: each was performed, or is a client's that is about to
perform it.  That the completed draws are those of `EngineAfter`, the engine's
sequence as a recursive function, is an induction over the draws.  The library's
induction theorems have an operator parameter, so `Induction` and `Recursion` state
the two principles with sets and functions, from the least element of a set of
naturals.  `DrawsTypeOK` rests on `MixType`, that `last_` is always an operation of the
mix, and on the weights being positive: a draw that does not lie past their sum hits
one of them (`Weights`, `PickedType`).

For the command line (any length, any number of files and lines) everything is
stated of the *cuts*, the ways to cut a command line into options.  The parser
knows none of them, but the word where it stands is an option's first in each of
them (`ParseInv`), because a word is the start of one kind of option only; so a
command line without a cut is refused, and one that is accepted has one.  `SettingsInv`
says that the properties are what the last of the settings before that place made
them, the lines read so far of an open file included.  `OptionsInv` says the same of
the file name, which the last `-P` gives, and of the phases.  From these two follows
what the result line of the script's command contains: for each of the two names one
setting prevails, the one in the last place (`OnePrevails`), since `-db` and
`-threads` themselves are places; the line has its value, for the threads by way of
the number.

For the tables (any number of threads, keys, blocks and calls, any hash
function) `OneEntryPerKey` is inductive only with an account of the blocks.
`LockInv` says what the place in a call implies of the lock, so a thread at
work keeps every removal out, and the table it reads has no entry whose copy is
free.  `CallInv` says which calls have a copy of their key.  `MemoryInv` says
that each block is free or has one owner, an entry or an insert under way, and
holds that owner's key; the entry that a removal has not yet erased owns
nothing, since its block may be the next copy's already.
`KeyCopiesAccountedFor` adds the counting: the owners and the copies under way have
a block each, and every refused insert leaves one behind.  For the refinement a call
takes effect in the step that works on the table, a removal in the one that erases
the entry; until then the abstract map still has the key.  Two entries of
one key would make that map ambiguous, which is why `OneEntryPerKey` comes first
(`KeysMapped`).

**Only model-checked**: `Termination`, `Completion` and `ParsingEnds` (liveness
under fairness is out of the prover's reach), and everything that a run shows about
several processes with deletes beyond the refinement.

## 6. Where the code and its documents disagree

- `workloads.md:10` says that an insert adds a brand-new key.  Every process
  starts its counter at `insertstart` (`core_workload.cc:123`), so the inserts
  of a process that was started with `-run` alone overwrite loaded records
  (`doc_insert`).
- `workloads.md:6` says that the load phase inserts `recordcount` records.  The
  remainder of the division by the thread count is dropped (`ycsbc.cc:72`,
  `doc_load`).
- `workloads.md:7` and `:42` say that transactions draw from the keys inserted
  so far, and that inserts grow that range.  `insert_key_sequence_` is set
  once and never advanced (`doc_range`).
- `zipfian_generator.h:83` documents the base as the minimum value.  The two
  most popular ranks are returned as 0 and 1, so a field length that should be
  at least 1 can be 0, and such a record reads as missing (`doc_length`).
- `workloads.md:9` says that an update does not change the key set, and `:7`
  that an update after a delete may fail.  `Update` is the engine's `Put`
  (`splitlsm_db.cc:113`): the update of a key that was deleted earlier, by whichever
  client, puts the record back and returns `kOK` (`doc_update`; in the trace that TLC
  finds it is the client's own delete).  Likewise a delete of a missing
  key is no error, as `workloads.md:42` has it: the bindings return `kOK` when
  the engine does not throw.

Without a run of their own:

- `ycsbc.cc:183` gives `basic` as the default database.  A command line without
  `-db` is accepted, and `props["dbname"]` then throws: the outcome
  `"no_dbname"` of `CommandLine`.
- `workloads.md:13` calls a read-modify-write a single logical operation.  It is
  a call of `Read` and one of `Update` (`client.h:97`, `:108`), between which other
  clients write: `ReadBeforeWrite` and `TransactionUpdate` are two actions.
- `workloads.md:41` says that failed operations are counted in the reported
  totals.  The run phase drops its sum: the throughput is `total_ops` over the
  time (`ycsbc.cc:104`), with failures and the remainder of the division in it
  (`EndRun`).
- `db.h:63` says that an update overwrites the values with the same field names.
  The bindings store the first value in place of the whole record
  (`SerializeValues`).
- `ycsbc.cc:139` means to report a property file that cannot be opened, but
  catches a `string` where `Properties::Load` throws an `Exception`; the model
  has that as `UnreadableFile`, with the outcome `"terminated"`.
- `run_abcd_workloads.sh:49` looks for the word of its list of thread counts, and
  `ycsbc.cc:103` prints the number that `stoi` made of it.  For `01` the result is
  never found and the run is repeated at every resumption; `ResultLineIsNeedle` says
  for which words the two agree.

## 7. What is not modelled

- The lsm-tree engine: a sibling project that is not in this repository.  The
  bindings are checked against a map; durability across processes is assumed.
- The distributions: TLC and TLAPS have no probability.
- Timing (`core/timer.h`), the means and plots of `parse_result.py`, build files,
  and the workload files other than through the mixes of `MCYcsbc`.
- `tbb_rand_hashtable.h`.  The class cannot be instantiated: its `Get` is `const` and
  passes an accessor to a `find` that is not.  Its `Remove` also relies on the
  element locks inside TBB.  Nor `Size()` of the tables, and NULL as a stored value.
  `Entries` of `tbb_scan` is one step, although inserts may run beside it.
- Properties other than the thread count that are missing or do not parse: `Init`
  throws, and the program ends (`"no_workload"` in `CommandLine`, nothing in
  `Ycsbc`, which starts with a workload that is set up).
- A program that outlives its script: killing only the shell leaves `ycsbc` behind,
  which writes to the log while a resumed script runs.  `Stop` ends both.
- Text in the log other than the reports: what `terminate` writes to `cerr` when an
  exception is not caught, or the shell when it cannot start the program.
- Names that contain other names: `grep -F` is not anchored, so a database whose name
  is the end of another's is found by mistake.  A name is one token in `ResultLog`;
  `splitlsm` and `unifiedlsm` are no such pair.
- The exception of `parse_result.py:57` when a log has no results: no rows are an
  empty sequence in `ParseYcsbLog`.
- The names and the number of fields of a record: a binding keeps the first value
  and nothing else, so a record is the length of that value.
- A record count of 0: nothing is loaded then and every transaction misses.

## 8. Plan

In order of importance.

1. *Done.*  `Generators`, `CoreWorkload`, `LsmBinding`, `Ycsbc` over the
   abstract `LoadThenRun`, with the inductive invariant, its proof, and the
   refinement proof.
2. *Done.*  `Harness` with its proof, `CommandLine`, `Hashtable` over the abstract
   `ConcurrentMap`.
3. *Done.*  Proofs about `Hashtable`: its five invariants, and that it implements
   `ConcurrentMap`.
4. *Done.*  `ResultLog` over `Harness`, with the proof that it implements it;
   `Draws`, with the proof that draws are serial; `insertstart` other than 0 and
   a counter that wraps around (`faults`).
5. *Done.*  More proofs about `Ycsbc`: the sums of both phases, that of the load with
   an engine that throws, and `RunOnlyShrinks`.
6. *Done.*  Proofs about `CommandLine` and about the operations of `Draws`.
7. *Done.*  Proofs about the text of the log: an invariant that says which tokens
   the open line can hold, from it `GrepFindsLog`, and what the parser makes of the
   text.
8. *Done.*  The result line with the number of threads as it is printed, what a
   transaction draws (scan lengths, all fields), the exact values of the scrambled
   zipfian chooser, and `RunOnlyShrinks` about values as well as keys.
