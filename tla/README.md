# A verification project for smt-cache-benchmarks

The repository is the replication package of a caching technique for KLEE. It
compiles a dozen third-party programs to bitcode, runs two versions of KLEE on
them in several configurations, and turns the output directories into the tables
of a paper. Its own code is about 2,300 lines of shell, Make, Python and C around
a vendored SQLite 3.21 (the amalgamation `sqlite3.c`, 205,000 lines) and the archives of the
other programs under test.

Nothing in it is computed twice, so nothing in it notices when a result is wrong:
a run filed under the wrong name, a leaked shell variable, a sandbox left dirty, a
number read before its run has ended all look like results. The modules state
what has to hold for the tables to mean what they say, and check it against the
orders of events that nobody tries out: kills, reboots, reruns, two terminals at
once, reports started early, builds that broke half-way.

SQLite is the largest program of the repository, and the one whose correctness rests on
orders of events: other processes between any two system calls, deaths of processes, power
failures. The modules cover the parts of it that keep a database whole, the locks,
the rollback journal and the write-ahead log, and the hash table that the
benchmark `trigger_hashtable.c` drives.

## Inventory

| component | files | state it keeps | operations |
| --- | --- | --- | --- |
| campaign scripts | `run_*_all.sh`, `run_overhead_*.sh` | none: a position in the list of sub-scripts | launch; go on with the next sub-script whatever the last one did |
| shell library | `common.sh`, `config.sh` | `FLAGS`, `CACHE_FLAGS`, six functions | reset the flags; define the functions that start KLEE |
| benchmark settings | `<b>/run.sh` | `FLAGS`, `BC_FILE`, `ARGS`, `KLEE_TEMPLATE` (exported by make and bash), redefined functions (sqlite) | set, append, leave alone, redefine |
| experiment scripts | `<b>/run_qc*.sh`, `run_validation.sh`, `run_fmm.sh`, `run_dsmm.sh` | `PROGRAM_DIR`, the artifact directory | `mkdir -p`, one KLEE per member of a pair |
| coreutils loops | `coreutils/run*.sh` | `/tmp/env/sandbox`, `status.log` | reset the sandbox, remove the log, run a pair per utility, log the status |
| build | `build.sh`, 11 `Makefile`s | files and their times | unpack, patch, configure, make, link, extract, optimise; clean |
| result parser | `klee_out_parser.py` | a `KLEEOut` object | read `info`, `messages.txt`, `run.stats`, in that order |
| report scripts | `check_*.py` | the directories found, two objects, the lines printed | look for directories, read, compare, print |
| SQLite: hash table | `sqlite3.c` 29736-29990 (hash.c) | a list of elements, buckets that point into it | insert, replace, delete, find, clear, rehash |
| SQLite: file locks | 31400-32400, 35900-36200 (os_unix.c) | levels per connection, counters per process, POSIX locks | open, lock, unlock, check, close |
| SQLite: pager | 48900-54200 (pager.c) | the file, its journal, a cache and a state per connection | read, write, spill, commit, roll back, recover |
| SQLite: write-ahead log | 55100-58500 (wal.c) | the log, the wal-index in shared memory, locks on it | read, write, spill, commit, undo, recover, checkpoint, close |
| SQLite: the rest | SQL, B-trees, shell, ... | pages and programs | not modelled, see below |
| drivers, coverage reports, patches | `*/main.c`, `gen_report.sh`, ... | none of their own | not modelled, see below |

How they interact. The build writes the bitcode that the experiment scripts give
to KLEE. A campaign script starts experiment scripts one after the other, each in
a shell of its own, except that `<b>/run_qc_all.sh` *sources* two into one shell,
where every variable of the first is still there for the second. All scripts
share the artifact directory; the coreutils loops also share one sandbox and one
log; nothing is locked, and nothing stops on an error (`set -e` appears
nowhere). The report scripts read the artifact directory, possibly while KLEE is
still writing it. Within SQLite, the pager calls the lock functions before it reads
or writes the file, and wal.c in place of its own journal when the database is in WAL mode;
processes meet only in the files, the locks and, for a log, the shared memory.

What is hard: variables that outlive the script that set them; kills and reboots
between any two commands, followed by a rerun over what they left; two
scripts at once on shared directories; legs that rely on what another leg made;
directories read file by file while they grow; numbers that are not there yet;
failures that are masked or skipped, and build products that look up to date. In SQLite:
system calls of other processes in between, memory that is read while it is written,
marks and headers that are stale when used, syncs in the wrong order, files
that hold the rest of older ones, recoveries that die. The list of these with
their lines is `hazards` in PROJECT.json.

What makes each component correct:
- campaign: a directory is written once, by one process, with the settings its
  name stands for; pairs differ in nothing but what is measured;
- coreutils loops: baselines start clean, every leg finds what it relies on,
  the log tells the truth;
- build: one make yields the bitcode, a failure stays in its benchmark, building
  again repeats no work;
- reports: a number that is printed is final, or is not a number; finished runs
  are reported once and never make a report fail;
- SQLite: the hash table is a map; the lock levels exclude one another; a transaction is
  stored whole or not at all, and stays; a reader sees one committed image.

## Modules

| module | models | what it is for |
| --- | --- | --- |
| `ResultStore` | what the artifact directory promises | abstract specification: slots filled once |
| `Campaign` | all run scripts | the detailed specification, with its properties |
| `Campaign_proofs` | | theorems about `Campaign` |
| `KleeOutParser` | the readers of `klee_out_parser.py` | operators, no state |
| `KleeOut` | one file while KLEE appends to it | stability of what is read |
| `Report` | the `check_*.py` scripts and `KLEEOut.__init__` | reports that race with the runs they report |
| `Report_proofs` | | theorems about `Report` and `KleeOut` |
| `Build` | `build.sh` and the Makefiles | rebuilding after failures |
| `Build_proofs` | | theorems about `Build` |
| `Dictionary` | what hash.h promises | abstract specification: a map without regard to case |
| `HashTable` | hash.c | list, buckets, growth, failing allocations |
| `HashTable_proofs` | | theorems about `HashTable` |
| `LockLevels` | the five levels | constants |
| `FileLock` | what the levels promise | abstract specification: who may hold what next to whom |
| `UnixLock` | the POSIX locks of os_unix.c | processes with several connections each, by system call |
| `UnixLock_proofs` | | theorems about `UnixLock` |
| `Journal` | the contents of a rollback journal | operators: headers, records, playback |
| `AtomicStore` | what a database file promises | abstract specification: transactions at once, crashes change nothing |
| `Pager` | pager.c with a rollback journal | system calls, crashes, power failures, failed calls |
| `Pager_proofs` | | theorems about `Pager`: types, locks, and what each operation on the files keeps |
| `PagerStore_proofs` | | theorems about `Pager`: what is stored and seen, the refinement |
| `PagerAhead_proofs` | | a theorem about `Pager`: the journal on the disk is ahead of the file |
| `SnapshotStore` | what a database in WAL mode promises | abstract specification: snapshots, one writer, limbo, loss of the latest transactions |
| `Wal` | wal.c and the pager around it | system calls and accesses to shared memory, crashes, power failures |
| `MC*` | | instances for TLC |

`Report` extends `KleeOutParser`. `Campaign` is shown to implement `ResultStore`
under the mapping `slot <- dir`. `Campaign`'s constant `Built` is what `Build`
produces, and the roles that `Report` reads are the slots that `Campaign` fills:
`LabelHonest` says that only the validation slots hold the statistics that
`check_stats.py` looks for. Among SQLite's modules each detailed one implements the abstract one
above it: `HashTable` is a `Dictionary`, `UnixLock` a `FileLock`, `Pager` an
`AtomicStore`, `Wal` a `SnapshotStore`. `Pager` does not repeat the POSIX locks: its connections
hold levels under the rules of `FileLock`, which is the seam at which the two compose.

### Campaign and the scripts

A *shell* is a terminal. Its script is a sequence of *legs* (`run_qc_all`, ...,
one operator per script file); a leg is one sub-script, in a new bash or in the
bash of the leg before it; a leg's *jobs* are its calls of KLEE. The steps of a
leg, in the order of its lines:

| action | lines |
| --- | --- |
| `Launch` | the operator starts a script of the menu |
| `Source` | `source run.sh` (and through it `common.sh`): `source(e, p)` maps the shell's variables |
| `MakeDir` | `PROGRAM_DIR=...; mkdir -p` |
| `RemoveLog` | `rm -rf ${log_file}` of a coreutils loop |
| `RemoveSandbox`, `UnpackSandbox` | the two halves of `reset` |
| `StartKlee`, `RefuseKlee`, `LoseSandbox` | KLEE creates its output directory, or does not start, or cannot enter the sandbox |
| `FinishKlee`, `DieKlee` | KLEE ends (external) |
| `WriteLog` | `echo "... status = $?" >> ${log_file}` |
| `Kill`, `Reboot` | the operator's ctrl-C, the machine's restart |

`env[s]` holds the variables of the bash that runs the leg. `FLAGS` is the
sequence of option blocks appended since its last reset, one per benchmark: what
matters is whose options they are and whether an option comes twice, which LLVM's
parser refuses. A KLEE call (`run_klee`, `run_cache`, ...) is the record of the
options in which the functions differ. An output directory remembers the
command line that created it (`dir[x].by`), so that what its name promises can
be compared with what ran.

Facts about KLEE that the scripts rely on and that are modelled as external:
`-output-dir` is made with `mkdir` (the parent must exist, the directory must
not), `-run-in-dir` must exist, a run with `-max-time` ends.
The initial state has the directory `coreutils/build/src` of the coreutils
validation, because the bitcode is in it.

### Reports and the parser

`KleeOutParser` has one operator per reader. A line is the pattern it matches and
its number; a reader returns the number of the first line it accepts. `Report`
has a KLEE process per directory, which makes it, opens its files, writes rows,
ends with its last row and then its totals, or dies anywhere; and one report,
which reads in the order of `KLEEOut.__init__` (the operator `Order`). A row
of `run.stats` is abstracted to the work it tells: instructions, time and memory
of a line are those of the same row. A report is one of six scripts; they differ
in how they look for directories (`get_dirs` beforehand and forgiving, `dump`
program by program and fatal) and in the columns they print.

What KLEE ends with is assumed, not modelled: some work and the three totals of `info`
(`GoalsAssumption`), and in a validation run the four counts, all and relevant queries before
the address-dependent ones (`CountsAssumption`, which `check_stats.py` relies on without a check).
The programs are distinct (`ProgramsAssumption`).

Lines are read whole: a line of `info` that is half written when it is read is
not modelled.

### Build

A Makefile is the sequence of its rules in the order make comes to them; a file
has a time and is whole or not. `Decide` is make's decision whether a rule is stale;
`RunStep`, `FailStep` and `ToolFails` are a command that works, cannot work, or
breaks. Two conventions of make matter: all lines of a recipe are expanded before
the first is executed, and the status of `cd build; configure; cd -` is that of
`cd -` (apr's inner make is hidden in the same way). `tar` and `unzip` restore the archived time of a directory, so a source directory is
older than its archive and is unpacked again by every make. The time of a build
directory is the time of its configuration; what the inner make does to it is
not modelled, and only makes it younger.

### SQLite's hash table

`first` is the list of all elements as a sequence, `ht` the buckets: a bucket owns the
`count` elements from its `chain` on. `Insert`, `Replace`, `Delete`, `Refuse`, `Clear` and `Find`
are the public functions, with each of the two allocations failing. `Threshold` is 10 in the code
and 1 in the run, so that buckets appear at once; `SoftLimit` stands for
SQLITE_MALLOC_SOFT_LIMIT, at which a table stops growing. `BucketsPartition` says that the runs of
the buckets cut the list into the names of each hash, `IsDictionary` that nobody
can tell the table from a map.

### SQLite's file locks

A POSIX lock belongs to a process: it does not separate two connections of one process, and a
close of any descriptor drops all of them. `inode[p]` is the `unixInodeInfo` that makes up for
both, `os[p]` what the system holds for the process, `call[p]` the call a process is in between
two calls of fcntl. One action is one fcntl or one close. `IsFileLock` is the refinement;
`Backed` says that a level in memory is backed by the locks of the process, `NothingLeaks` that a process
without connections has none, `ReservedIsSeen` that `xCheckReservedLock` does not miss a live
writer, on which the decision about hot journals rests.

`PendingBlocksProcesses` is weaker than the comment on PENDING ("no new SHARED locks can be
obtained", sqlite3.c:31927). A connection next to another one of its process that reads already gets
SHARED from memory (sqlite3.c:31989), so what PENDING stops is processes that do not read yet.
os.h says it that way for other processes (sqlite3.c:14685).

### SQLite's pager

A file is kept twice, as the system shows it (`db`, `jrnl`) and as it is on the disk (`ddb`,
`djrnl`); a sync makes them equal, and a power failure leaves, page by page and slot by slot, one or the
other or something torn. A journal is a sequence of headers and records (`Journal`). A page's
content is the transaction that wrote it; page 1 also has the change counter and the size. A
process that dies loses its cache and its locks. The initial database is one that a
transaction made, or none. A header of the journal starts at a sector; `sector` of a
setting is the number of records after which a sector ends again, 64 with sectors of 512 bytes. It
decides where a rollback looks for a header behind the last record (`Own`). Of the
b-tree the model has how it changes pages 1 and behind, and that `lockBtree` gives page 1 back if it is none of a database.

`StoreIsCommitted`: if every process died now, the next would find a whole transaction or none
of it. `Durable`: a commit that was reported stays. It need
not survive a power failure in DELETE mode without EXTRA, because nothing syncs the directory after the
unlink, in TRUNCATE mode without FULL, or with syncs off (`EndIsSynced`).
`WriteAhead`: unless syncs are off, the journal on the disk gives a committed image back before the
file holds anything else. `ReadersSeeStore` is about caches that are older than the file. `CutIsSafe`
restates the comment that it is safe to truncate the file once the journal is final
(sqlite3.c:49605): true with EXTRA, which syncs the directory. With FULL and DELETE the order
of the unlink and the cut on the disk is left to the file system, and a power failure may leave the journal
and the cut file; the journal has the pages that were cut only as far as they
were journalled. The property is stated for EXTRA.

### SQLite's write-ahead log

`hdrs` are the two copies of the header of the wal-index, `nBackfill`, `aReadMark` and `aPgno`
the rest of it; the hash tables are only a faster way to search `aPgno` and are not modelled. A
frame's checksum is the sequence of all it sums up, so that two frames have the same
checksum when their logs are the same so far. `conn[c].x` and `readLock` are the locks of a
connection. Each place of the code where another process can get in between is a
value of `conn[c].at`:

| actions | code |
| --- | --- |
| `BeginRead`, `TryHdr`, `BadHdr`, `Retry` | walIndexReadHdr, walIndexTryHdr, copy by copy |
| `Recover`, `RecoverHdr`, `RecoverInfo` | walIndexRecover |
| `TryRead`, `LockZero`, `CheckZero`, `ChooseMark`, `LockMark`, `CheckMark` | walTryBeginRead |
| `BeginWrite`, `Spill`, `Commit`, `RestartHdr`, `RestartInfo` | sqlite3WalBeginWriteTransaction, pagerStress, sqlite3PagerCommitPhaseOne, walRestartLog |
| `WriteHeader`, `Overwrite`, `WriteFrame`, `RewriteChecksum`, `AppendIndex`, `Publish` | sqlite3WalFrames |
| `Rollback` | sqlite3WalUndo |
| `Checkpoint`, `Test`, `LimitByMark`, `StartBackfill`, `CopyPage`, `CutDatabase`, `Backfilled`, `FinishMode`, `TruncateLog` | sqlite3WalCheckpoint, walCheckpoint |
| `Close`, `EndClose` | sqlite3WalClose |
| `Crash`, `PowerFailure` | external |

`SnapshotIsolation`: for as long as it reads, a connection finds every page, in the log, the file
or its cache, as it was committed when it began. `StoreIsCommitted`: whoever recovers finds the last
transaction, or the one that was being committed; after a power failure without FULL,
some earlier one, whole. `BackfillInLog` is the comment on `WalCkptInfo`.

Assumptions. Taking a read mark (lock, set, unlock) is one step, as is a check of a lock and what
depends on it alone. A cut of the log to nothing and its removal either reach the disk or do
not, with everything written before the next sync of it (`fresh`). Random salts are new.
A page that a transaction changes gets a content that no other has.

The restart window. A PASSIVE checkpoint reads the header (sqlite3.c:58461) and later compares
nBackfill with it (56864) without the lock of the writers. If in between a writer restarts a
log that is wholly copied, nBackfill is 0 again, the checkpoint copies on with the old mxFrame and
stores it as nBackfill: frames that the new log gets only later count as copied. Readers
then ignore them (`minFrame`), and the next checkpoint skips them. `wal_reset` shows this; with the
same settings TLC also finds `SnapshotIsolation` violated. The same count is left
behind by a process that dies in walRestartHdr after the header and before nBackfill (56802,
56803). So that the rest of the algorithm can be checked at all, `RestartWindow` and `CrashWindow` keep
the two closed where `setting.windows` is FALSE, which is all of `wal`. Everything else that a
restart or a death can meet is in that run.

An assertion that does not hold is not a property of a run, because the library is built without
assertions: after a writer died between the two copies of the header, a FULL, RESTART or TRUNCATE checkpoint comes
to the second look at the header with the writer's lock already held (sqlite3.c:57206). It cannot take the
lock again and ends with SQLITE_BUSY; a reader then recovers.

## Runs

| run | checks | bounds |
| --- | --- | --- |
| `campaign` | `TypeOK`, `OwnInputs`, `LegsPrepared`, `BaselineClean`, `LogMatchesLoop` | one shell, 2 kills; `run_qc_all.sh` on make (exports a variable) and json (sets no `ARGS`), or `run_overhead_all.sh` on libosip and one utility |
| `campaign_live` | `LabelHonest`, `PairsComparable`, `OneWriter`, `WriteOnce`, `NeverStuck`, `OverheadEnds` | two shells with four qc scripts on sqlite (redefines two functions), or one with the limited scripts; 1 kill |
| `kleeout` | `CacheSizeIsLoop`, `StableMetrics` | all files of up to 4 lines, numbers 0 and 1 |
| `report` | `OverheadLineFinal`, `OverheadSkips`, `NumbersFinal`, `OverIsReported` | all six scripts, two programs of which pairs need one, 3 x 3 or 2 x 2 outcomes |
| `build` | `BuiltUnlessHurt`, `RebuildIsCheap` | seven benchmarks, 3 builds, 1 failure or kill, 1 clean |
| `build_readme` | `CompiledByBuild` (violated) | all eleven benchmarks, 1 build, no failure |
| `hashtable` | `BucketsPartition`, `LoadBounded`, `IsDictionary` | seven names that share buckets, one with two spellings and 2 data; tables of 2 and 3 buckets |
| `unixlock` | `TypeOK`, `Exclusion`, `Backed`, `NothingLeaks`, `ReservedIsSeen`, `IsFileLock`, `PendingBlocksProcesses` | two processes with two connections each |
| `pager` | `TypeOK`, `Durable`, `StoreIsCommitted`, `WriteAhead`, `ReadersSeeStore`, `CutIsSafe`, `IsAtomicStore` | two connections, 3 pages, 3 transactions; eight settings of journal, syncs and mishaps |
| `pager_stale` | `ReadersSeeStore` (violated) | one connection, 3 pages, 4 transactions, PERSIST, 2 failed calls, 2 records to a sector |
| `wal` | `SnapshotIsolation`, `StoreIsCommitted`, `BackfillInLog`, `IsSnapshotStore` | two or three connections, 2 pages, logs of 4 frames, 3 read marks, 2 or 3 transactions; ten settings |
| `wal_reset` | `BackfillInLog` (violated) | two connections that copy, one that writes; windows open |

A run of several settings has a variable that never changes and says which one a
behaviour has (`plan` in `MCCampaign`, `script` in `Report`, `setting` in `Pager` and `Wal`).

Why these are enough. Scripts of different benchmarks differ in four ways
(exported variable, missing variable, redefined functions, log and sandbox), and
an instance has each of them next to one that it could disturb. A
directory is damaged by one kill and a rerun; the second kill of
`campaign` interrupts the repair. The coreutils loop of one utility has
both members of a pair, so a rerun and the dsmm loop meet all its states. The four
lines of `kleeout` hold each pattern before and after each other one. In `report` runs have up
to two rows, so a row can be stale; `check_stats.py` has a second program so that a
failure has something to take along.

The table of `hashtable` gets two buckets at its first name, grows to its limit of three at the
fifth, so names move between buckets, and is overfull from the seventh on; either growth can be refused and
made up for later. Of the orders of the list the run has those in which "e", "f" and "g" join after
all others and leave before them; any order of any names is left to the theorems. In `unixlock` each process has a connection that can
ride on the locks of the other. In `pager` the second death meets a recovery, pages are
added, given up and taken again, journals are longer and shorter than what they overwrite, and a
power failure meets each order of syncs; more than two connections add readers only.
In `wal` a log is written, copied, begun anew and written again (three transactions) next to a reader at
a mark or at the file itself; three read marks are the two that a reader and a newer one need, next to mark 0. A
third connection (`Three`) lets a writer, a checkpoint and a reader be in their calls at once.
Four frames hold two transactions of two pages. What the model checker cannot reach is
more than one restart next to a power failure.

Deadlock is checked in the campaign runs and those of SQLite, where something can always be
called again. It is not checked where the system
stops: a file at `MaxLines`, a report at its end with all runs over, the last build
and clean.

`build_readme` is a disagreement of the code with README.md: after
`./build.sh`, coreutils has no bitcode, because `$(shell ./extract_bc.sh)`
(coreutils/Makefile:21) is expanded before `make -C` runs. A second `./build.sh`
extracts it, which is why `BuiltUnlessHurt` asks for two makes of coreutils.
`wal_reset` is the restart window described above.

`pager_stale` is a rollback that plays back too much. A first transaction of a PERSIST journal spills a page, so a
second header is begun in the journal and records follow it; it is rolled back, and its journal stays but for the
first slot. A later transaction fills its journal exactly up to that header, syncs it to commit and fails to write the
file. After the sync `journalHdr` is the end of the records, where no header was begun, and there
`readJournalHdr` asks for no magic number (sqlite3.c:49073): the rollback goes on with the old header and its records,
and puts what the older transaction had saved, pages as they were before it, into the cache: with the others they
make an image that was never committed. The file is right, because
records behind `journalHdr` are played to the cache only. It takes PERSIST, syncs, a cache that overflows, a failed call and
records that end with a sector, and is over when the connection next drops its cache. `sqlite3PagerRollback` promises to
restore "all database file and in-memory cache pages" (sqlite3.c:54090).

What `BuiltUnlessHurt` does not promise is worth knowing as well. A benchmark in
which a step broke may stay broken through any number of builds: a masked
configure leaves a directory that counts as up to date, `extract-bc` leaves
bitcode that was not optimised. A clean repairs it where `clean` removes what was
spoilt: everything for make and bash, all but the sources for most, neither the sources
nor the build directory for json.

### Fairness

`FairSpec` is used by `campaign_live` only. A shell executes the next command of
its script (weak fairness of `Step(s)`), and a KLEE that was given `-max-time`
ends (weak fairness of `Limited(s) /\ EndKlee(s)`). The qc and validation runs have
no limit, so nothing is assumed about them: `NeverStuck` says that a script always
comes back to a running KLEE or to its end, and `OverheadEnds` that the limited
scripts end. The operator is not assumed to do anything. No
safety property uses fairness.

## Proofs

`Campaign_proofs` is about every number of shells, any menus, any lists of
benchmarks and utilities, any bound on kills. It uses the assumptions of `Campaign`:
lists of known programs that are not empty, utilities not named like benchmarks,
`None` neither. `LaunchAssumption` says that only the scripts of the module are launched.

- `TypeCorrect`: `Spec => []TypeOK`. `TypeOK` says more than types: a working shell
  is at a leg and a job that its script has.
- `OneWriterEach`, `OwnInputsEach`, `LabelHonestEach`, `PairsComparableEach`: the four
  safety properties that do not depend on how many shells there are.
- `Refinement`: `Spec => WriteOnce`, every step is a step of `ResultStore` or a
  stutter.

None of the properties is inductive. That the directory created by a step has the
right settings follows from what the shell's variables hold at that point, and
that follows from the last `Source` and `MakeDir`, two legs back when two scripts share
a bash. `IInv` says it: at every label, `env[s]` is what the legs so far have made
it. A sourced leg comes after a leg of the same benchmark, so `common.sh`'s reset
and the settings' assignments bring `FLAGS`, `BC_FILE` and `ARGS` to the same values whichever of
the two bash was started with; `PROGRAM_DIR` is right from `MakeDir` on. With that,
the target of a shell at KLEE has the command its name asks for (`OwnInputs`,
`LabelHonest`). `OneWriter` is part of `IInv`: `MayCreate` asks for an absent
directory, so no second shell gets into an open one, and only the shell that waits
closes it. The refinement needs `TypeOK` (the target is a slot) and `OneWriter`
(the slot a KLEE ends in is open). 
The proof separates what a step does to the shells from what it does to the
artifacts. The control lemmas (`LaunchControl`, `SourceControl`, `MakeDirControl`,
`NextJobControl`, `KleeReturnsControl`, `ExitsControl`, `RebootControl`) show that each
group of actions keeps `Working` of every shell. The effect lemmas (`StartKleeEffect`,
`LoseSandboxEffect`, `EndKleeEffect`, `QuietEffect`, `KillEffect`, `RebootEffect`) show that
every action of a shell is one of four changes of the artifact directory: it opens a
slot for its command, leaves a dead one, settles the slot it waits for, or leaves the
directory alone. `OneWriter`, the labels and the refinement are then proved from those
changes alone (`EffectKeepsOneWriter`, `EffectKeepsLabels`, `EffectInStore`). The
labels are proved as one invariant, `Labelled`: every directory that was ever opened holds a
command of its own benchmark whose options are those its name stands for, and whose
counterexample cache and limit (`Matched`) are functions of its suite and its benchmark, not of
its role. Two members of a pair differ in the role only, so `PairsComparable` follows.

The second part of `Campaign_proofs` is about an operator with one shell (`OneShell`), any scripts, kills
and reboots. With two shells the properties are false, because
nothing locks the sandbox and the log: one shell's `rm -rf /tmp/env` falls between the other's
reset and its KLEE, and one loop's `rm` erases the log of the other.

- `BaselineCleanAlone`. `Unpacked` says that the sandbox is clean from the end of
  reset to the start of KLEE; a killed reset leaves it absent or clean, and a rerun of the job
  resets again.
- `LogMatchesLoopAlone`. `LogOf` has three parts: a leg that has not begun is at its first job,
  the lines of a loop that has are those of the jobs before its place, and
  a status 0 that is not yet written is about a run that is done. A line stays true because no step
  takes a directory back from "done" (`EveryStepKeepsDone`).
- `LegsPreparedAlone`, assuming also `Ordered`: the operator launches no script that relies on
  an earlier one (`run_overhead_dsmm` needs the sandbox of `run_overhead_fmm`, and
  `coreutils_run_validation` that of any), and the overhead scripts do not begin with the coreutils loop,
  which makes no directory. `History` is the script's past as seen in the files: each leg before the
  shell's place has left its suite's directory or, if it is the loop that resets, a sandbox.
  `LoopsFollow` is the fact about the scripts: such a leg comes before every loop that needs it.

`UnixLock_proofs` is about any number of processes with any number of connections each,
at every interleaving of their system calls. `UnixLockAssumption` is all it uses:
the connections are finitely many and each belongs to a process. All seven properties of the
run `unixlock` are theorems:

- `Excluded`, `BackedAlways`, `NoneLeaks`, `ReservedSeen`: the four safety properties.
- `Implements`: `Spec => IsFileLock`, every system call is a step of `FileLock` or a stutter.
- `PendingBlocks`: the action property about writers that wait for readers.
- `Typed`: `Spec => []TypeOK`.

What a connection holds depends on three things that the code keeps in step by hand: its own
`eFileLock`, the counters of the inode that it shares with the other connections of its process, and
the POSIX locks of that process. `IInv` relates them. `Counted`: `nShared` and `nLock` are the
number of connections with a lock, `nRef` of the open ones. `Ranked`: the inode's level bounds
those of its connections, of which at most one is above SHARED. `BackedIn`: the system holds the
bytes each level stands for. `InCall`: what a call knows between two system calls, for
example that the pending byte is still its own when it asks for the shared range.
`Accounted`: whatever is locked belongs to a connection or to a call that is about to
give it back; without it `UnlockLast`, which gives up everything, could not be shown to leave
nothing. `Apart`: a byte that one process may write is free at all others, which is the only
fact about fcntl. Every action is proved to preserve what it touches of its own
process, one lemma per action (`...Step`); `Elsewhere` and `Moves` bring that to the other processes.
`Exclusion` then has two cases: connections of one process are kept apart by `Ranked`, those of
two by `BackedIn` and `Apart`. For the refinement, one lemma per abstract change (`Mapped...`) and
one per action (`Maps...`) suffice. The delicate ones are those in which `FileLock` asks for a
fact about all other connections: EXCLUSIVE asks that nobody reads, which is
`Apart` for other processes and the test `nShared > 1` with `Counted` for the own one.

`Report_proofs` also proves `MetricsAreStable` for files of any length and any
numbers: appending a line does not change which line is the first of a set. `CacheSizeCorrect` is about
the loop of `get_cache_size`, which the module has as a recursive function over the lines: the
line it stops at is the one the operator of `KleeOutParser` names.

`Build_proofs` is about any list of distinct benchmarks and any number of builds, failures, kills
and cleans: `BuiltWhereUnhurt` and `RebuildRepeatsLittle` are the two properties of the run `build`.
The properties speak of a benchmark that nothing spoilt, but such a benchmark may have been damaged and
cleaned, so the invariant must say what is still right in a damaged one. A file is
*affected* when it, or a file it is made from (`Behind`), was spoilt and not cleaned away. `Kept`: a target
that is there and not affected is whole and newer than what it is made from, except while its own recipe runs.
This survives the spoiling of other files, because what a step spoils is behind its target
(`WritesBehind`), and a clean, because what a clean leaves is made from nothing it removes
(`CleanLeaves`). `Passed` says that the rules before the one at hand have been made,
`Complete` that all have when a make has ended and nothing is spoilt, and `SoFar` what the steps of
a recipe so far have left. `Firm` are the rules that are not repeated; they are all but the
unpacking of an archive without a prerequisite and what depends on a phony target. `Sound` puts these
together for one benchmark, as a predicate of its files, the time, the place of its make and the
number of makes that ended; one lemma per kind of step (`WhenStale`, `WhenFresh`, `RunStepKeeps`,
`FailKeeps`, `HurtKeeps`, `CleanKeeps`) says where it leaves it. Nothing of this depends on the other
benchmarks, so `BenchGoes` and `OtherSound` bring it to `IInv`, which has it of each. What
is known of the eleven Makefiles is stated once (`StepKnown`: every command of every recipe, with
its rule and its place) and used for all of them.

`HashTable_proofs` is about any names, any hash function into the natural numbers, any threshold and any limit:
`BucketsArePartition`, `LoadIsBounded` and `TableIsDictionary` are the properties of the run `hashtable`.
A table is proper when the runs of its buckets (`chain` and the `count - 1` elements
behind it) are disjoint, cover the list, and hold the names of their hash. Inserting before the
chain of a bucket and removing an element move the runs behind it by one, and the lemmas say by how much.
A rehash empties all buckets and puts the elements in again, one after the other, while it
walks the list that it changes; it is a recursive function of the number of elements left, and every
intermediate table is proper for the elements put so far. Such facts about all
values of a recursive function are proved without an induction theorem, from the least number at which
they would fail (each natural number above 0 has a predecessor, and the function there is known).

`Report_proofs` is about any of the six scripts, any list of distinct programs, and any contents
of the directories that satisfy the assumptions above. All four properties of the run `report` are
theorems: `OverheadLinesAreFinal`, `NumbersAreFinal`, `OverheadSkipsRunning`, `OverAreReported`.

A report reads one file after the other while KLEE writes them, so what it knows is about different
moments. `Invariant` keeps, for each `KLEEOut` and each file it has read, how that relates to the
end of the run. `InfoOf`: a total is final or was not there, and if there is a number of paths, the
last row of `run.stats` has been written. `MessagesOf`: a count is final or was not there.
`WorkOf`, once `run.stats` is read: if there is a number of paths, the work is final. It holds
because `run.stats` is read after `info`: from the total on, KLEE adds no row
(`RunOf`, `Grown`). `NumberInPrefix` is the fact about the readers: the first line in a set of the
beginning of a file is the first one of the file. `Output` is a second
invariant on top: each program is to be looked for, to be read, or has its one line (`Account`),
lines are right (`LineOf`), and a report has crashed only on a run that was not over when
it was started (`Endings`); a missing directory, missing files and a missing row all say so (`NotOver`).

`Pager_proofs` is about any number of connections, any settings, pages and transactions, and any deaths,
failed calls and power failures. `PagerFitsItsLock` is `TypeOK` of the run `pager`: what
`assert_pager_state` of the code asserts of a pager and its lock, and that caches and files hold only pages
of transactions that have begun. `TypeOK` is far from inductive. `Control` says for each state of a pager at
which places of the code it can be, with which goal and which lock: `Hasnt` for a pager without a
transaction, which may be playing back a hot journal, `Reads` and `Acts` for one with. `Spills`
keeps the page that is to leave the cache in it, across the wait for the lock. `Counts` bounds
the change counter: a commit adds 1 to the one the pager knows, which stays below the transaction's number, because
an earlier transaction wrote it. What `TypeOK` says of pages needs the journal's slots typed, also
after a power failure has mixed old and new ones (`MixesAre`, `JournalLeftIs`), and that playback reads records
only: `PlayedAreRecords`, a fact about every value of a recursive function, obtained from the least
offset at which it would fail. One lemma per action keeps `IInv`; `Moves` and `MovesAnywhere` bring each to the
other connections. `LocksExclude` shows that `FileLock`'s promise, which `UnixLock_proofs` proves of
the system calls, holds of the pager's use of it, and `FileChangesAlone` that the file changes
only while the connection that writes it is the only one with a lock.

`PagerStore_proofs` is about what is stored, while the power has not failed and the setting is `Trusted`
(together `Unharmed`). Its theorems are `CommitsLast` (`Durable` and `StoreIsCommitted`), `ReadersSeeCommits`
(`ReadersSeeStore`) and `PagerIsAtomicStore` (the refinement of `AtomicStore`); that of `PagerAhead_proofs`, which rests on
them, is `JournalIsAhead` (`WriteAhead`). `Trusted` excludes PERSIST journals together with spills, syncs and failing calls: there a
rollback may take the header of an older transaction for its own, and run `pager_stale`
shows the cache it leaves. The first power failure ends the claim, because it mixes old and new
contents of two files sector by sector; what holds after one is model-checked.

The invariant is `SInv`. `Safe` says that file and journal together give the last committed image (`Gives`): the file holds it,
or the journal can be read and has, for every page that differs, the old content (`Restores`). That alone is not
inductive: whether a journal restores depends on where it ends, on who is writing it and on
what that writer knows. So `Fares` says of each connection what it relies on:

- `Opens`: its cache is of some committed image, the one whose version it knows, or of none; and, if it
  plays a hot journal back, each page of the file is right already or is among the slots still to be played (`Recovers`);
- `Reading`: its cache shows the last image and it knows its version;
- `Changes`, `Sizes`, `Version`, `Journals`: every page that it may change is in the journal with its committed content; what
  is in the file is in the part of the journal that has been synced; the sections of the
  journal have their counts, but the last one, and nothing behind it can be taken for a header (`Sections`,
  `Ends`); the change counter grows with the commit;
- `Undoes`: in a rollback, each page of the cache and of the file is right or still to be played;
- `Commits`: a commit that has written its pages holds in the file exactly what its cache shows.

Two facts carry the proof. `PlayedAreRecords` and its relatives say which slots a playback reads
(`EndedPlayed`: all records up to where the writer ended its sections). And only who is EXCLUSIVE changes the
file, so what others rely on stays (`Relies`). There is a lemma for each action, that it keeps `SInv` given the
next state's `IInv`. Every step alters what is stored or does not, and it does only when the
journal ends: `history` gets its last image in that step (`Alters`, `Advances`). From this the refinement follows, with
`Owns` for who may change its view.

One detail is not the pager's. A first commit that fails after page 1 was written
leaves page 1 in the cache as zeros (sqlite3.c:45349), but page 1 has no record that would put
`dbFileVers` back, so this is still the version of the failed transaction (sqlite3.c:51912). If another connection
then commits a first transaction of the same size, the versions agree and the zeros stay (sqlite3.c:52792): the "vanishingly
small chance that a change will not be detected" of the comment there. `lockBtree` does not take them for a database;
`Keeps` has a case for it (`Zeroed`), and `Emptied` is the setting of the run that meets it.

`WriteAhead` needs a third invariant, `DInv`, about the disk: unless syncs are off, what is on the
disk of the journal restores the last image from the file (`Saved`), and of a writer that has been let to the
file the disk has all sections that it may have overwritten (`Ahead`). A playback that dies and begins
anew keeps this, because each slot is written over with a page that is right (`Mends`).

Only model-checked: `CutIsSafe`, and all of `Pager` after a power failure; `Wal` and its refinement; and the two
liveness properties, because temporal reasoning under fairness and ENABLED are out of the prover's reach.

## Not modelled

- The C drivers: straight-line programs that make symbolic input for a library.
- The programs in the archives, KLEE and klee-stats.
- `gen_report.sh` and the coverage targets of the Makefiles, which no script uses.
- `run_klee_all` and `run_symaddr_all` of coreutils/run.sh, which nothing calls.
- `validate` and `compare` of the reports other than `check_overhead.py`: dead code.
- A changed patch or driver between two builds.
- Of the modelled parts of SQLite: sectors larger than a page, locking_mode=EXCLUSIVE,
  savepoints, master journals, mmap, batch-atomic writes; in the log also failed calls, a
  read-only or private wal-index, padding to sectors, a limit on its size.
- What the build compiles out: threads and mutexes (SQLITE_THREADSAFE=0), the shared cache, snapshots,
  loadable extensions, progress callbacks.
- The rest of SQLite: tokenizer, parser, code generator, virtual machine, B-trees, full-text and
  R-tree indexes, JSON, printf, allocators, the Windows port, `shell.c`. It is sequential code whose
  correctness lies in bytes of pages and in programs of the virtual machine. The lines
  of `sqlite3.c` that decide orders of events are a few thousand of 205,000, so the share of
  lines that these modules stand for stays small however complete they are.

## Plan

Done in this order: `ResultStore`, `Campaign`, its proofs, the parser, `Report`,
`Build`, `HashTable`, `UnixLock`, `Pager`, `Wal`, the proofs about `UnixLock`, those about `Campaign` with one shell, those about
`Report`, `HashTable` and `Build`, those about `Pager`: types and locks, then what is stored. Next:

1. Savepoints and the sub-journal of the pager, and the two-phase commit of several files
   with a master journal.
2. A module that composes `Campaign` and `Report`: reports over an artifact
   directory that a campaign is filling, with the campaign's own roles.
