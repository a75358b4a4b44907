# ForgeBuild in TLA+

ForgeBuild (`forge`) is a small build system in C++20: it parses a manifest
into a graph of build edges, decides which edges are out of date, runs their
commands on several threads, and remembers in `.forge_log`, `.forge_deps` and
`.forge_cache` what it did. This directory holds TLA+ models of it, the TLC
configurations that check them, and TLAPS proofs.

## The system

| part | state it keeps | operations | what makes it correct |
| --- | --- | --- | --- |
| `Parser`, `Manifest` | rules, the rule it is in, the graph | `parse_file`, line by line | a manifest is accepted exactly when each line is legal where it stands, and the graph is what the lines say |
| `BuildGraph`, `Node`, `Edge` | edges, nodes, both directions of the relation | `create_edge`, `add_input`, `add_output`, `Edge::command`, `Edge::depfile` | `in_edge` and `out_edges` agree; an edge runs the text of its rule with its own files |
| `Builder` | reasons per edge | `build`: target closure, direct reasons, propagation | every output that a clean build would change is planned |
| `BuildPlanner`, `BuildGraphValidator` | indegrees, queue | `plan` (Kahn) | the plan is a topological order; a cycle is reported exactly when there is one |
| `Scheduler` | indegrees, ready queue, counters, flags, two condition variables | `run`, `worker`, `finish_edge` | each edge once, after its producers; no lost wake-up; nothing starts after a failure; `run` returns the truth |
| `Executor`, `CompilerIdentityCache`, `Depfile` | the identities of compilers (and the logs and the cache it is given) | `execute_edge`: identify, look up, command, checks, record, store | what it records is what happened |
| `ProcessRunner` | - | `run`: `posix_spawn`, `waitpid` | - |
| `BuildLog`, `DepsLog`, `FileSystem` | a map per output, its file | `record`, `load`, `save`, `clear`, `atomic_write_file` | replaced as a whole; loaded as saved, or refused |
| `LocalCache` | `.forge_cache/objects` | `contains`, `store`, `restore` | what is restored is what was stored |
| `BuildDirectoryLock` | a `flock` | `try_acquire` | one forge per directory |
| `main` | the marker `.forge_in_progress` | lock, load, plan, mark, run, save, save, unmark | a process believes the logs only if they are true of the outputs |

`main` owns everything. It calls the others in sequence; concurrency enters in
three places: the worker threads of `Scheduler::run` (which all call
`Executor::execute_edge`), other forge processes in the same directory, and the
commands, which are processes of their own. Failure enters everywhere between
two system calls: forge or a command is killed, a file cannot be written, a log
is damaged.

The hazards this code is exposed to are listed, each at its line, in
`PROJECT.json`.

## The modules

| module | models | state and actions |
| --- | --- | --- |
| `BuildGraph` | the finished relation of edges and nodes | constants `Edge`, `Node`, `Inputs`, `Outputs`; `Producers`, `Dependents`, `Indegree` |
| `DagExecution` | what a scheduler of a graph promises (abstract) | plan, active, done, broken edges; `Start`, `Succeed`, `Fail`, `Answer` |
| `Scheduler` | `scheduler.cpp` | the members of `Scheduler` under their own names, a program counter per thread. A critical section of `mutex_` is one step; `execute_edge`, each `notify_*` and each wait are steps of their own |
| `BuildRecords`, `TrustedState` | what a log entry means; what the persisted state promises (abstract) | `believed`, `outputs`; `Distrust`, `Forget`, `Write`, `Remove`, `Commit` |
| `BuildState` | `main.cpp` from the lock to the return, `build_directory_lock.cpp`, the use of both logs | lock, marker, two log files, outputs, and the memory of every process; one action per phase of `main()`, `Kill`, failing writes, lost files, logs that lose entries (`CutLog`), commands that outlive their forge. `plan[p]` remembers what a process planned |
| `LogStore` | what a log promises its caller (abstract) | `stored`, `entries`, `answer`; `Change`, `Save`, `SaveFails`, `Load`, `LoadFails`, `Restart` |
| `LogFile` | `build_log.cpp`, `deps_log.cpp`, `atomic_write_file` | the directory and the lines of its files, the locals of `save()` and `load()`; one action per entry printed, per call on the file system, per line read; `Kill`, failing calls, and `LoseEnd` |
| `ManifestParser` | `parser.cpp`, `manifest.cpp`, `rule.cpp`, `build_graph.cpp`, `node.cpp` | the parser's state, the rules, edges and nodes with both directions; one action per statement, per output and per input |
| `EdgeText` | `Edge::command`, `Edge::depfile`, `replace_all`, `Depfile::parse` | functions on texts, over the edges of `ManifestParser` |
| `Planning` | `builder.cpp`, `build_planner.cpp`, `build_graph_validator.cpp` | the locals of the three work-list loops; a round of a loop is a step |
| `Incremental` | the dirty reasons of `builder.cpp`, `execute_edge()` of `executor.cpp`, `cache_key.cpp`, `compiler_identity.cpp`, and a user | files with contents and an order of time stamps, manifest, compiler, logs, cache, the run and the identity it knows; `StartRun`, `RestoreFromCache`, `RunCommand`, `FinishCommand`, `FailCommand`, `EndRun`, `Interrupt`, and what the user does |
| `LocalCache` | `local_cache.cpp` | object and metadata file per key, an output and a program counter per worker; one action per file-system call, failing calls, damage, kill |
| `SequenceLemmas` | - | facts about sequences that two proofs share |
| `*Proofs` | - | the theorems |
| `MC*` | - | the instances TLC checks |

The modules meet at these seams.

* `ManifestParser` shows that `in_edge` and `out_edges` agree and that no output
  has two producers: `BuildGraph`, on which `Scheduler`, `Planning` and
  `Incremental` rest, takes one relation with both readings for granted.
* `Scheduler` takes any plan and any outcome of `execute_edge`; that plans are
  duplicate-free topological orders is `Planning`'s result. That `run` returns
  after its producers are done is what `Incremental` (`Ready`) and `BuildState`
  (edges of one build run and end) take for granted.
* `Planning` lets any set of edges be stale; `Incremental` says which ones are,
  and uses closure and dirt as the least sets that `Planning` shows them to be.
* `Incremental` clears the logs after a failed or interrupted run, which is what
  `BuildState` shows `main()` to achieve with its marker, and takes a cache
  entry for an atomic thing, which `LocalCache` justifies.
* `BuildState` replaces a log in one step and loads it as it was saved or not at
  all. `LogFile` implements `LogStore`, which says this, from the calls and the
  lines that are really there, but for the loads of a file that has lost its end:
  `load()` may accept a part of such a log (`LoadsNothingNew` says which parts),
  and `BuildState` goes on with any of them: `CutLog` takes entries away from
  the logs that its constant `Cut` names. `state_crash` cuts `.forge_log` only,
  since what it checks does not survive a cut `.forge_deps` (see the findings).

## The runs

| run | question | instance and bounds | distinct states |
| --- | --- | --- | --- |
| `scheduler` | is the bookkeeping right in every interleaving, are wake-ups never lost, is some thread always able to go on and does every step bring the run nearer to its end, does `run` answer truthfully and always return, and is it an execution of the graph? | 4 edges with a diamond and a double dependency, every sub-plan, 3 workers, 2 calls on one `Scheduler`, so that what a failed run leaves meets the next | 88 412 |
| `state_crash` | is what the next process believes true, whatever is interrupted, and is only a whole build committed? | 2 edges, one with a depfile, 2 processes, 3 builds: one to commit, one to be interrupted, one to believe wrongly; `.forge_log` may lose entries | 71 477 |
| `state_killed` | is a half-written output always under the marker when commands survive their forge? | as above, 2 builds, orphans allowed, both logs may lose entries | 51 344 |
| `state_orphan` | do two builds ever write together? (**violated**) | 1 edge, 2 processes, 2 builds | |
| `log_file` | is a log replaced as a whole and loaded as it was saved, and what does `load()` make of a file that lost its end? | both kinds of log, 2 outputs of which one is called like a number, hashes of one and two digits, lists of no and of two dependencies; one name of a temporary file, so that it recurs; a file may be cut at any place | 1 150 247 |
| `log_cut` | is a `.forge_deps` that was cut refused? (**violated**) | the same | |
| `manifest` | is exactly the legal manifest accepted, and does the graph run what it says? | all files of up to 7 lines from 15 statements, right and wrong, over 2 rules and 3 paths, read one after the other by one parser; texts and paths that hold `$in` and `$out`, and a path that makes a `$out` of a `$` before it | 338 288 |
| `planning` | are closure, dirt and order right for any request, and does every call end? | 5 edges with a cycle that some targets need; all targets, all stale sets, all orders of the lists | 116 291 |
| `incremental_edits` | is an undisturbed successful build as good as a clean one, is nothing done twice, and is a cached object the right one? | an object with an optional header and a program linked from it, 2 texts, 2 commands, 2 compilers, 3 changes or interruptions at any time | 1 575 866 |
| `incremental_compiler` | is what the cache restores what the installed compiler would make? (**violated**) | 2 objects, 2 compilers, replaced between the commands of a run | |
| `incremental_raced` | does the cache stay right when a source changes under its compiler? (**violated**) | the graph of `incremental_edits`, 2 changes | |
| `local_cache` | is what is restored genuine, and do entries survive? | 2 workers, 2 keys of which one is not reproducible, 1 kill, 2 failures or damages | 1 745 757 |

Why the bounds suffice to be of interest: in each model the hazards need few
actors. A lost wake-up needs one sleeper and one finisher, and three workers
add the one who takes the work in between. A wrong belief needs a committed
build, an interrupted one and a reader. A stale object needs the build that
made it, the edit, and another change that hides the edit (removal, changed
header, interruption). A mixed cache entry needs two stores of one key whose
objects differ. A log that is cut in the middle of its second entry has every
kind of line on both sides of the cut. A manifest that is wrong only because of
what stands above needs a rule, its command, a statement that uses it and one
more, and seven lines hold two of these. Every mutant listed in
`PROJECT.json` - a plausible slip in one definition - is caught within these
bounds. In the graph of `incremental_edits` one edge runs at a time; that two
running edges do not spoil each other, whatever they share, is in the theorems
of `IncrementalProofs`, which are about every graph. For most properties the theorems below remove the bounds altogether.

Deadlock is checked in every run. Two models may really end and say so with a
`Terminated` step: `Scheduler` after the last call, `Planning` after its call.
In the others something can always happen.

### Fairness

`RunReturns` assumes weak fairness of each worker thread and of the thread in
`run()`, step by step: the operating system schedules runnable threads, and a
command that runs ends (`execute` is a step of the worker). Nothing else is
assumed; who gets the mutex or a notification is free. A user's next call is
not fair. `CallEnds` assumes that a call that has begun takes its next round
(one thread, nobody to wait for). The safety properties assume no fairness.

Each of the two has a counterpart that assumes none and can be proved. A run
returns because it is never stuck (`SomeoneAwake`: unless it is over, a thread
is at a step that needs nobody else) and because every step brings it on
(`EveryStepCounts`: what is ahead of the run, weighed by how many steps an edge
still needs, shrinks, or stays and one more thread goes to rest; only a spurious
wakeup takes a rest back). A call of the planner ends because every round of
its loops shrinks what is left to them (`EveryRoundCounts`, which
`PlanningProofs` states and no run repeats). What only TLC says
is the last step, that fair threads then take those steps.

## What is proved

TLAPS proves, for every value of the constants - every graph, manifest and log,
any number of workers, processes, builds and keys:

* `SchedulerProofs` (finite `Edge`, finite `Worker`): all properties of
  `scheduler` but `RunReturns`: the safety properties, `EveryStepCounts` and the
  refinement of `DagExecution`; and `ReturnedResult`, what the refinement means
  for the answer of `run()`. The inductive
  invariant is `TypeOK`, `CountsExact`, `NoDoubleExecution`, `ThreadsInStep` and
  `NoLostWakeup` together; none is inductive alone, because a decrement is
  only right if the queue has no duplicates, and the answer only if every
  thread is where the flags say. `SomeoneIsAwake` has one hypothesis, `Acyclic`,
  and needs it: when everybody sleeps, no wakeup being lost means that no edge
  is queued, taken or failed, so that by `CountsExact` the finished edges are
  all those without an unfinished producer; but in an order of the edges the
  first unfinished one has none. That `main()` lets only such graphs through is
  `AcceptsWhatCanBeOrdered` of `PlanningProofs`. `StepsCount` weighs each place
  of a worker (`Onward`); that the measure never leaves the natural numbers is
  that finished and taken edges are different edges of the plan.
* `BuildStateProofs`: the properties of `state_crash` and the refinement of
  `TrustedState`, assuming `~CommandsOutliveForge` and `"deps" \notin Cut`, which
  are what `state_orphan` and `log_cut` are about (`.forge_log` may lose
  whatever it likes: an edge without an entry there is built again); and
  `PartialIsMarked` without either assumption.
  Besides the properties the invariant says that the owner of the lock is alone
  (`LockInv`), that outputs change only under the marker (`MarkerInv`), what a
  process in each place has in memory (`MemoryInv`), and which saved logs go
  with it (`SavedInv`, `BuiltInv`). For `CommitsTheBuild`, `PlanInv` says where
  each planned edge is while none has failed: still to be built, running, or
  recorded in this build. With orphans none of these holds; what is
  left (`PartialInv`) is that whoever builds, and whatever command runs on, has
  the marker in place or the outputs it spoils belong to an earlier build.
* `LogFileProofs`: `TypeOK` and `LoadsNothingNew`, of files that may be cut
  anywhere, and that `LogFile` implements `LogStore` in every step but one kind,
  `LoadsDamaged`: `load()` accepts a cut file, or takes it for another version.
  `SaveInv` says that the buffer holds the header and the lines of
  the entries the loop has passed, in the order in which it took them, and what
  the temporary file holds of it; `DiskInv` that the file under the final name
  prints the stored log, or is a cut of such a file; `LoadInv` that what `load()`
  has gathered so far is what the lines up to its position say. The argument
  about a cut file is that only its last line can differ from what was
  printed: if that line ends an entry, its entry has lost the end of its last
  word and nothing else; if it does not, the file ends inside an entry, which
  `load()` refuses. What the argument cannot give is that nothing is missing:
  that is the finding of `log_cut`.
* `ManifestParserProofs`: `TypeOK`, `GraphAgrees`, `RuleInUseIsFixed`,
  `ParsesFaithfully` and `EdgesRunAsWritten`. For the first three the invariant
  adds that the statement being parsed has been checked, that its edge is the
  last one, and that a parser that is in a rule is in one that no edge has yet:
  an edge can take a rule only in a statement, which leaves it. For the fourth, `MeaningInv` says
  what each piece of the parser's state is in terms of the lines read so far:
  which rules there are and the last text given to each (`RulesInv`), the rule
  the next line is under (`CurrentInv`), the edge of each build statement
  (`EdgesInv`), and that the edge of the statement being parsed is a beginning
  of it (`StatementRead`). What lines mean does not change when one is added
  below (`UnderKept`, `SaidKept`, `LegalKept`, `CountKept`), so that a step has
  only its own line to account for. `GraphAgrees` counts: a
  node that an edge reads twice has the edge twice in its `out_edges`
  (`TimesAppend`).
  `RunAsWritten` is about texts of any length, whose pieces are the characters
  that `find()` compares. A text is replaced from the left: a variable at its
  head becomes what the files say, any other piece stays, and the rest is
  replaced by itself (`ReplacedHead`, from `ReplacedConcat`: a text that no
  variable lies across can be cut there). `OneAfterTheOther` is an induction
  over the length: after `$in` has been replaced, a `$out` stands only where it
  stood, because none begins in what was put in (`NoOut`) and none that begins
  before it goes on there (`Clear`, looked at one piece after the other in
  `PieceByPiece` and `NoOutArises`). These two conditions are `NoneArises`, and
  where they fail the code does rewrite its own insertion: `echo $$in` over the
  input `out.txt` makes a `$out`. A depfile is read segment by
  segment, by induction over the inputs (`SegmentsRead`): `Normalized` of two
  texts is that of each, when no line end is split between them, and then the
  blanks close the word before them and the next path becomes a word of its own
  (`WordsBlanks`, `WordsWord`).
* `PlanningProofs`: closure and dirty set are the least ones, the plan is a
  topological order of the dirty edges, a cycle is reported if and only if there
  is one, the internal error of the planner cannot occur. The invariant relates
  each work list to the set it grows; the last step of the cycle theorem is
  that the edges Kahn's algorithm leaves over each wait for another of them.
  `RoundsCount` adds that every round counts, on a cyclic graph too: an edge
  joins the closure, the dirty list or the plan, none of which lists an edge
  twice, or one leaves the stack. `AcceptsWhatCanBeOrdered` ties the validator
  to the scheduler: it accepts only graphs that are `Acyclic` (the place of an
  edge in the plan is its rank), and a cycle is reported only when they are not.
* `LocalCacheProofs`: the four properties of `local_cache`. The invariant says
  that every file under a final name holds something its key may stand for or
  damage, carries this through the locals of a worker from call to call, and,
  without faults, that a worker about to read a reproducible entry finds it
  complete.
* `IncrementalProofs` (assuming `~EditsWhileRead` and `~InstallsInRun`, which are
  what `incremental_raced` and `incremental_compiler` are about): `TypeOK`,
  `UpToDate`, `NothingLeftToDo` and `CacheHitsAreRight`, for every graph,
  manifest history and number of changes.
  The properties speak of the end of a build; the invariant must say what holds
  in the middle. A running command has read the files as they are, and nobody
  writes them, because their producers are done and the user leaves them alone
  (`ReadInv`). What lies in the cache under a key is what the key describes, for
  a set of files that is exactly what the edge reads when they say what the key
  says (`CacheInv`, `Closed`). While no edge has failed, an output with a record
  is what the record says, made from files that are as they were, or newer than
  it, or gone (`LogInv`); the dirty analysis finds the last two. A reader of
  what is to be built is itself in the plan and waits for it (`PlanInv`), so that
  what was found fresh stays fresh (`FreshInv`).

`SequenceLemmas` proves, from the library's sequence theorems, what `Tail`,
concatenation and appending do to ranges and injectivity, and what `FlattenSeq`
computes. Its recursion, and that of `WordsOf`, is met by induction on sets: the
numbers, or the sequences, of which a fact is true are all of them when they
have the first one and with each the next (`Induction`,
`InductionOnSequences`, both from the least element of a set of numbers).

`SpellingAssumption` says that a text is a sequence of pieces, that the
characters of `$in` and `$out` are pieces, as are blanks, the colon and the
backslash, that no text is the empty sequence of pieces, and that a path is at
least one piece and has no blank in it, as `Parser` splits its lines at blanks.
The assumptions on
constants (`GraphAssumption`, `SchedulerAssumption`, `RecordsAssumption`,
`BuildStateAssumption`, `LogFileAssumption`, `ParserAssumption`,
`IncrementalAssumption`, `LocalCacheAssumption`; `SpellingAssumption` of
`EdgeText`) are in the modules that declare them, and TLC evaluates them in
every run.

Only model-checked: `RunReturns` and `CallEnds`, because liveness under fairness
speaks of `ENABLED`, which is out of the prover's reach.

## Findings

* **Commands outlive the lock** (`state_orphan`, `build_directory_lock.cpp:66`).
  The lock belongs to the forge process; a killed forge leaves commands behind
  that write outputs while the next forge builds them. `state_killed` shows what
  still holds then.
* **A cut `.forge_deps` is believed** (`log_cut`, `deps_log.cpp:273`). A file that ends between two entries, or inside its last
  path, loads with the answer Ok. An output without an entry is held to have no
  discovered dependencies (`builder.cpp:418`), so the next forge plans with
  records that are not true of the disk, and an edge whose header has changed
  looks clean. The
  README of the repository promises a conservative recovery from damaged logs
  (README.md:612). A `.forge_log` that is cut does no such harm (`state_crash`).
* **A cache entry under the wrong key** (`incremental_raced`,
  `executor.cpp:521`). The key of a store is computed after the command has run,
  so an object made from a source's old text can be filed under its new text,
  and a later build restores it.
* **The identity of a replaced compiler** (`incremental_compiler`,
  `compiler_identity.cpp:196`). A run keeps the identity it computed first; when
  the compiler is replaced between two commands, the later ones look up, and
  store, under the old one.

## What is not modelled

* Loss of power between the removal of the marker and the renames of the logs:
  nothing is fsynced, and which of them survive is not the program's choice.
  `LogFile` lets a renamed log lose its end and `BuildState` goes on with what is
  left; but it takes the order of the three for durable.
* The exceptions of the standard library in a worker, and the failure to create
  a thread: the process dies, which is `Kill`.
* `Hash` (FNV-1a on text and files): contents and keys are compared as
  structures. Collisions, and two lists of dependencies that are the same text
  to the hash because a file holds zero bytes, are out of the models.
* Two writes with the same time stamp; two edges with the same command. That
  nobody edits a file while a command reads it is an assumption
  (`~EditsWhileRead`): `incremental_raced` shows what happens otherwise.
* Generated headers; edges that discover headers and have several outputs; an
  edge that gains a depfile without a change of its command; a depfile that
  names another output than the manifest does, or has several rules (`-MP`).
* Several compilers in one manifest, and where in `PATH` one is found. A new
  compiler is no reason to build an output again, by design of `Builder`: the
  cache tells compilers apart, and `UpToDate` leaves it open which one was used.
* Blanks at the ends of lines and the spelling of keywords in manifests, the
  attributes of `posix_spawn`, the command line, messages and statistics.

## Plan

Done: everything above. What would come next:

1. A composition of `Scheduler` with `Incremental`'s edges, so that records and
   cache stores of several workers interleave inside `execute_edge`.
2. `Incremental` with edges of several outputs and generated headers, and with
   several compiler names in one manifest.
3. `BuildState` under loss of power, with an order of what is durable.
