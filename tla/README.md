# The CDR parser in TLA+

`wosmex_cdr_parser_zh` loads the call detail records (CDRs) of an SMS gateway
into MySQL. This directory holds TLA+ models of it, the TLC configurations that
check them, and TLAPS proofs. Everything is translated from the code in `src/`;
what lies outside (MySQL/InnoDB, the POSIX semaphores, the host, whoever
delivers the files) is modelled from how the code uses it and marked
`external` in `PROJECT.json`.

## 1. Inventory

### Components

| component | state | operations | files |
|---|---|---|---|
| supervision | the process list | refuse a second instance (`ps`), then run `cdr_parser.sh` for ever | `cdr_parser_zh.sh` |
| script | listing of the spool, current file, exit status | expand `CDR*sgw-2*`, `[ -f ]`, run the parser, on status 0 `rm` | `cdr_parser.sh` |
| parser | one process per file: semaphore, loaded file, local vectors | `main`, signal handler | `src/main.cpp` |
| file reader | raw fields, CDRs | `LoadFile`, header and footer, conversions | `src/FileLoader.cpp` |
| database session | connection, open transaction | connect, check, fill, save names, transaction | `src/MySQLData.cpp` |
| names | vectors of operators and hubs | `Check_Oper`, `Check_Hub`, `AddOperator`, `AddHub` | `src/MySQLOperators.cpp`, `src/MySQLHubs.cpp` |
| statistics | vector of counts, dates of the file | `AddOperStat`, `AddFileOperStat`, `AddDateInFile`, `OperStatDtWhere` | `src/MySQLOperStats.cpp` |
| configuration | sections and values | inih and a C++ wrapper (vendored) | `src/ini.c`, `src/INIReader.cpp` |
| text utilities | - | not called by `main` | `src/BoyerHorspool.cpp`, `src/CDRTokenizer.cpp` |
| backup | its own directory of files and archives, the backup server | tar, rm, rsync | `cdr_backup_last_day_cdrs.sh` |

Shared between processes: the spool directory (scripts, producer), one named
semaphore per file (parsers, signal handlers), and MySQL's tables
`processed_files`, `CDRs`, `OPER_STAT`, `operators`, `hubs` (parsers).

### How they interact

A script starts one parser at a time and sees nothing but its exit status. The
parser creates the semaphore named after the file with `O_EXCL` (busy: exit 0),
connects, asks `processed_files` (already there: exit 0), reads the file,
translates names to ids (inserting and committing new names one by one), reads
the statistics of the file's dates, counts in memory, and writes the file's
name, its CDRs and its counts in one transaction. Every failure releases the
semaphore and exits with 1, so that the script leaves the file for the next
pass. The log files in the repository show two scripts at work at the same time,
which the model allows. The supervisor's guard is there to prevent it, and is
blind to scripts that are not run by a supervisor. The backup script shares
nothing with the others: its directory is filled by somebody else.

### What is hard, and what makes each component correct

* *Life of a file.* Any step can fail, be killed or interrupted, the connection
  can go at any time, and COMMIT's answer can be lost or late. A file must be
  loaded whole or not at all, once, by one parser at a time, and be removed
  only when it is loaded, eventually.
* *Statistics.* Parsers read, count and write at the same time, from stale read
  views, with row locks and deadlocks. The sums must be those of the loaded
  files; a statistic should have one row; nobody waits for ever.
* *Names.* Parsers insert the same new names; commits are not checked. A stored
  CDR must refer to a row with the right name, and the same row within a file.
* *File reader.* The file is read while its producer may still write it, and
  its last line is the only sign that it is whole. Header, footer and ignored
  operators come from a config.ini that may be malformed; fields may be missing,
  not convert, or not survive the way to MySQL and back.
* *Supervision.* Guards look at a process list that changes under them. Two
  instances must not both pass, however many start at once.
* *Backup.* No command's status is looked at, and a run may stop between any two.
  A file must not go before it is in an archive, nor an archive lose files.

`PROJECT.json` lists every hazard with its line and the properties that cover
it, or why none does.

## 2. Modules

| module | role |
|---|---|
| `LoadOnce` | abstract: what the loader promises about the database |
| `CdrParser` | scripts, parsers, semaphores, connections, faults, for a set of files |
| `MCCdrParser` | values of its constants for TLC |
| `CdrParserProofs` | type correctness, atomicity, whole files, mutual exclusion, semaphores, exit status 0, at most once, refinement, what is lost and how |
| `StatLedger` | abstract: per statistic, the number of records of the loaded files |
| `Supervised`, `MCSupervised` | supervisors and their guard, composed with `CdrParser` |
| `SupervisedProofs` | one script at a time, what is lost under supervision |
| `OperStats`, `MCOperStats` | how parsers keep `OPER_STAT` |
| `OperStatsProofs` | type correctness, rows per statistic |
| `OperStatsLedgerProofs` | `OperStats` implements `StatLedger` |
| `NameTables`, `MCNameTables` | how parsers keep `operators` and `hubs` |
| `NameTablesProofs` | type correctness, ids, references, rows per name |
| `Config` | pure: from the lines of `config.ini` to what `main` uses of it |
| `ConfigProofs` | what a plain list of ignored operators comes to |
| `FileVerdict` | abstract: what reading a file that grows may come to |
| `FileReader`, `MCFileReader` | a producer and a parser at one file, pass after pass |
| `FileReaderProofs` | type correctness, whole files only, records and keys as written, lists honoured, `FileReader` implements `FileVerdict` |
| `Backup`, `MCBackup` | runs of the backup script |
| `BackupProofs` | type correctness, files are kept, the server's archives grow |

`CdrParser` gives `OperStats` and `NameTables` what they take for granted: that
a file is loaded in one step, by one parser at a time, and not again (the guard
of their `Start`, their `CommitTransaction` and `Store`). They refine what is a
single step there (`FillOperStats` and `InsertTransactionOperStats`;
`ResolveNames`). `FileReader` justifies what `CdrParser` says of a file: that
`LoadFile` fails on one that is not complete, and that the outcome for a
complete one depends on its content alone (`FileVerdict`). `Supervised` EXTENDS
`CdrParser` and adds when a worker may take its steps.
A definition whose comment starts with "Mutant:" is a bug that somebody could
introduce; no specification uses it. Each property of a passing run has one
that breaks it.

### CdrParser

A *worker* is an instance of `cdr_parser.sh` together with the parser it may be
running. `pc[w]` follows `main`:

| `pc` | code | leaves by |
|---|---|---|
| `pass` | `cdr_parser.sh:9-11` | `NewPass`, `TakeFile` |
| `open` | `main.cpp:95-99` | `AcquireSemaphore`, `SemaphoreBusy` |
| `setup` | `main.cpp:102-132`, `Connect` | `Setup`, `Fail` |
| `check` | `FileWasProcessed` | `CheckProcessed`, `Fail` |
| `load` | `LoadFile` | `LoadFile`, `Fail` |
| `names` | `main.cpp:144-235` | `ResolveNames`, `Fail` |
| `stats` | `FillOperStats` | `FillOperStats`, `Fail` |
| `begin`, `file`, `cdrs`, `opers` | the transaction | `StartTransaction`, `InsertTransaction...`, `Fail` |
| `commit` | `CommitTransaction` | `CommitTransaction`, `CommitTimesOut`, `Fail` |
| `rollback` | `RollbackTransaction` | `RollbackTransaction` |
| `free` | `free_semaphore` | `FreeSemaphore` |
| `exit` | the script's `if [ $? -eq 0 ]` | `Exit` |
| `rm` | `rm -f` | `RemoveFile` |

`rc` is the outcome: `ok` and `busy` are status 0. `wrote[w]` are the tables
that the session's open transaction has written; `db[f][t]` counts how often
file f's contribution to table t is committed. `lost[w]` says that the
connection is gone and the client has not noticed: outside a transaction the next
query reconnects or fails (both are allowed; it depends on the library's
version), inside one it fails, because the client library does not reconnect
while the server status says that a transaction is open. `late` are the commits
that the client stopped waiting for.

A file is `absent`, `partial` (being written; no footer yet), `complete` or
`removed`. Its content is `good`, `bad` (a field does not convert) or `empty`
(no useful record). File names do not come back.

`LoadOnce` is the promise to whoever reads the database: in one step a file's
contributions to all three tables are stored, for good, and as long as `quiet`,
only for the first time. `CdrParser` gives `rows` the value `db` and `quiet` the
value "no stray signal and no late commit so far".

`MaxFaults` bounds each kind of fault; a kind at 0 does not happen:

| kind | what | action |
|---|---|---|
| `error` | configuration, connection or query fails; COMMIT succeeds and says it did not | `Fail`, `CommitTransaction`, `RollbackTransaction` |
| `disconnect` | the connection is lost, the server rolls back | `Disconnect` |
| `late` | COMMIT takes longer than the 100 s read timeout | `CommitTimesOut`, then `LateCommit` or `LateAbort` |
| `kill` | SIGKILL or a crash; the semaphore stays | `Kill` |
| `term` | SIGTERM or SIGINT while the semaphore is the parser's | `SignalHandler` |
| `stray` | the same while it is not: the handler unlinks it all the same | `SignalHandler` |
| `semfail` | `sem_open` fails for another reason than `EEXIST` | `SemaphoreBusy` |
| `reboot` | the host restarts; semaphores are gone | `Reboot` |

A parser that dies while COMMIT is on its way is `CommitTimesOut` followed by
`Kill` or `SignalHandler`: time is not modelled. A file that MySQL refuses in
every pass (a quote in `MESSAGE_ID`, an INSERT beyond `max_allowed_packet`) is
like a `bad` one that fails a few steps later, and `Fail` covers the step.

`Kill` ends the parser and leaves the script, which sees a status other than 0;
a script dies only with its host. The read of the uninitialised `rs` in
`FileWasProcessed` (`MySQLData.cpp:287`) and the write before the buffer in
`OperStatDtWhere` (`MySQLOperStats.cpp:100`) are undefined; their outcomes are
to go on, or to crash, which is `Kill`.

### OperStats

`Start` is `FileWasProcessed`, whose read opens the session's read view
(`autocommit=0`, repeatable read). `FillOperStats` reads the rows of the file's
dates, in any order, from that view or from the current table (saving a name
commits, and ends the view). `CountRecord` is a turn of the loop that follows in
`main`. `UpdateRow` and `InsertRow` are one turn each of the loop in `InsertTransactionOperStats`; an
updated row is locked until the transaction ends. `CommitTransaction` makes all
of it visible, and with it the row in `processed_files`. The ten columns that
make up a statistic are one key, of which the model knows the date; a file is
the sequence of its records' keys and whether their `CDR_TYPE` is 3.

Of the transactions that wait for each other InnoDB rolls back the one that
changed least (`Victim`); since the CDRs are inserted before the statistics, that
is the smallest file. That a file that two scripts take up at the same time may
be removed unloaded is `CdrParser`'s matter (run `two_scripts_remove`); here the
files are those that get a parser of their own. `Finished` lets the system stand still when every file is
loaded.

### NameTables

`Fields[f]` lists the four names of every record in the order of `main.cpp:182-216`.
`known[p]` is what a search in the local vectors finds; `Check_Oper` and
`Check_Hub` take the names that have an id. `SaveOperator` and `SaveHub` are the INSERT
(the row is not visible to others and its id is taken), `CommitName` the COMMIT,
and `LoseCommit` the COMMIT that never reached the server, with the same
continuation in the code because nobody looks at the result.

### Config and FileReader

`Config` follows inih piece by piece: `ParsePiece` is a turn of
`ini_parse_stream`'s loop with its order of tests (comment, continued line,
section, name and value, error), `Pieces` what `fgets` makes of a line that is
too long, `ParseLine` the turns for one line and `IniParse` those for all,
`ValueHandler` INIReader's joining of values with the same name.
`Configured(ini)` is what `main` passes on. It is evaluated in `Init` and kept in
the variable `config`, which never changes: every pass reads the same file.
`OneList` says of a file that it is plain (no line is longer than the buffer or
continued) and has one line about ignored operators, in section `global`;
`Lists` that this line names operators with one space between each two, and has
nothing or a comment behind them. `config.ini` in the repository is such a file.

`FileReader` has a producer (`Write` makes part of a line visible, `EndLine` the
whole of it) and a parser that reads line by line (`ReadLine`), takes a last
line without its newline for a line as `getline` does (`EndOfFile`), checks
header and footer, and converts one record per step. `pc` ends in a verdict:

| `pc` | code |
|---|---|
| `closed` | the file does not open |
| `refused` | no header in the first row kept, or no footer in the last one |
| `bad` | a number does not convert |
| `crash` | `GetField` reads behind a row and the process dies |
| `empty` | no date, `FillOperStats` fails |
| `good` | the parser goes on to the transaction |

All but `good` and `crash` are followed by another pass; a crash leaves the
semaphore, and what follows is `CdrParser`'s. `OutOfRange` is a choice because
reading behind a `std::vector` is undefined: a crash, something that is not a
number, or something that is empty. The nine numeric fields are converted by the
same function and one stands for all. A `TIME` that does not convert leaves in
`struct tm` what lies on the stack (`slot`).

The last part of the module is pure: `InsertedStat` and `FilledStat` are a
statistic's way into `OPER_STAT` and out of it, for one number column and the
date.

### Supervised

`sup[w]` says what runs in a worker's slot. The guard `ps | grep | wc` is a walk:
`Start` puts all other slots into `unseen`, `LookAt` takes one of them and counts
it if it has the script's name at that moment. `grep -v "$$..."` drops another
instance's line when the digits of this one's PID occur in it; that is the
`slips` branch. `SeeAnother` counts what is no instance: an editor, or one of the
guard's own forks. A supervisor that is killed leaves its script (`orphan`), and
anybody can start one by hand; `strays` counts both.

### Backup

`pc[r]` is the next command of run `r`. `tgz[d]` is what can be unpacked from day
d's archive in the directory, `remote[d]` likewise on the server. `Tar` expands
the pattern and truncates an older archive of the name, `TarEnds` packs all or,
when tar fails, part of it; `Rm` expands the pattern anew. `Send` moves one
archive or copies it and leaves the source. A run may stop anywhere. `odd`
collects what the script has no defence against: tar failing, a second run for a
day, overlapping runs, a file that arrives while its day is packed. A `cd` that
fails, after which the commands work in another directory, is left out.

## 3. Runs

| run | instance | checks | states |
|---|---|---|---|
| `parser_faults` | 3 workers, 1 good file, each of the 8 faults once | `TypeOK`, `AtomicLoad`, `OneHolder`, `SemaphoresHeld`, `AtMostOnce`, `ZeroMeansLoaded`, `OnceSpec`, `OnlyBusyLoses` | 1,578,689 |
| `parser_live` | 1 worker, a good, a bad and an empty file, every fault but signals once | `NothingLost`, `ZeroMeansLoaded`, `OnlyWholeFiles`, `Handled` | 530,800 |
| `supervised` | 3 slots, 1 file, error, signal, kill, reboot, slip and stray once each | `SupTypeOK`, `OneScript`, `SupervisedLosesNothing` | 1,112,796 |
| `file_reader` | files of up to 5 lines out of 8 kinds of record lines, with header and footer or without, 11 `config.ini` | `TypeOK`, `WholeBeforeUse`, `RecordsAsWritten`, `ListHonoured`, `KeyFound`, `VerdictSpec` | 437,661 |
| `stats_ledger` | 2 parsers, 3 files with 3 keys on 2 days, 1 abort | `TypeOK`, `DuplicatesBounded`, `LedgerSpec`, `AllPosted` | 218,492 |
| `names_tables` | 2 parsers, 3 files with 2 operators and a hub, 1 abort, 1 lost commit | `TypeOK`, `RefsAreRows`, `OneIdPerFile`, `RowsBounded` | 869,396 |
| `backup` | 2 runs, 2 files of a day and 1 of the next, any fault any number of times | `TypeOK`, `Kept`, `RemoteGrows` | 683,568 |
| `two_scripts_remove` | 2 workers, 1 file, no fault | `NothingLost` is violated | |
| `late_commit` | 1 worker, 1 file, 1 late commit | `NeverTwice` is violated | |
| `empty_file` | 1 worker, 1 empty file, no fault, fair | `EmptyFinished` is violated | |
| `stats_duplicates` | 2 parsers, 2 files with the same new statistic | `OneRowPerKey` is violated | |
| `names_dangling` | 1 parser, 1 file, 1 lost commit | `NamesSaved` is violated | |

Deadlock is checked in all of them. Symmetric workers, parsers and runs are
declared symmetric in runs without liveness.

What they show:

* A file is loaded whole or not at all under every fault. Two faults cost more than
  a retry, and the properties count what they cost: a stray signal, which unlinks
  another parser's name, lets one parser more on a file (`OneHolder`), and it or a commit
  that outlives its client stores one copy more (`AtMostOnce`), however often the
  file is tried afterwards. `late_commit` shows the second. `CdrParser` implements
  `LoadOnce` in any case; `quiet` says until when a file is stored only once.
* Of all ways out of the parser only a kill leaves a semaphore behind, and one at
  most (`SemaphoresHeld`): every failing step comes to `free_semaphore`, and a stray
  signal takes away a name and never adds one.
* A single script removes only what is loaded, but for one file per kill and per
  failing `sem_open` (`NothingLost`): the semaphore that a killed parser leaves, or a
  `sem_open` that fails for another reason, is taken for a parser at work, and busy
  is exit status 0. With two scripts that happens without any fault
  (`two_scripts_remove`; the repository's log of 2019-01-17, lines 12967-12974,
  shows exactly this behaviour). It is the only way, though: with three scripts and
  every fault, a file that is not loaded is removed behind a parser that
  `sem_open` turned away, and behind no other (`OnlyBusyLoses`).
* Nothing of a file that is still written, has a bad field or has no record gets into
  the database, by whatever path (`OnlyWholeFiles`): the check in `LoadFile` lies
  many steps before the commit, which may come late and when the parser is gone.
* The supervisor's guard does keep two loops apart, however their starts
  interleave (at worst both refuse), unless a PID's digits hide an instance. Beside
  that one script run only those started by hand or left by a dead supervisor
  (`OneScript`); without them the single script's guarantee carries over to
  supervised ones.
* A good file is loaded and removed in the end, and removed without being loaded only
  after a kill or a failing `sem_open`. An empty one never is
  (`empty_file`): the branch that `main.cpp:141` has for it cannot be reached.
* A parser takes nothing from a file that it has not read to the last line; what it
  converts are the file's records minus short lines and ignored operators; pass
  after pass its verdict is decided by the content. This needs a footer word that is not
  empty and in no earlier line (`Marked`); one `config.ini` and the
  file with a line behind its footer show what `Marked` excludes. A record
  without a valid `TIME` is loaded with some other date, and the file counts as
  good: `RecordsAsWritten` excepts that one field.
* The ignore list is the one written on its line if the file is plain and the list
  has single spaces (`ListHonoured`). `RecordsAsWritten` holds for the lists
  that `Config` makes of other lines, too; what those lose is visible there.
* A statistic's key comes back from MySQL as it was stored if its number fits the
  column and its date exists: -1 and NULL, and 0 and 0, stay apart.
* `OPER_STAT` adds up to the loaded files, whatever the interleaving; a key can
  have as many rows as there are parsers (`stats_duplicates`), no more.
* Stored CDRs refer to the rows of their names, except for one name per lost
  commit (`names_dangling`).
* The backup loses no file however often it is stopped and rsync fails, until one
  of the odd events happens.

The bounds: two workers are the smallest number that can race; `parser_faults` and
`supervised` have three, so that a third may come when a stray signal has let the
second in, or while two guards look at each other; the proofs cover more. One file
suffices for what concerns one file's semaphore and rows, but with one file a bound
of one semaphore per kill, or of one lost file per kill, says something of the time
before the kill only: `parser_live` has three files for the second, and theorems
`NoSemaphoreLeft` and `SupervisedSpoolIsSafe` cover the rest. Signals are left to
`parser_faults`, where they matter for the semaphore. The other files in
`parser_live` show that files do not disturb each other and, being bad or
empty, are not retried at the cost of the good one. Each fault strikes
once in `parser_faults`, so that any sequence of distinct faults is covered; the
counts are listed in `MCCdrParser`. In `OperStats` the three files share two
keys in opposite order, which is what a deadlock needs, and the third file meets
duplicates that the first two may have left. In `NameTables` three loads and a
failed one can insert the same operator, with two parsers. In `FileReader` three
lines between header and footer are enough for a record before and one behind any
special one; shorter files lack a header or a footer, have a line behind the footer, or
a footer word in a last line of 2, 9 or 24 fields, which the reader may find half written; the numbers are scaled (`MaxLong` is 500, `MaxColumn` 100, the
string of twenty nines denotes 999), `MaxLine` is as long as a list of two
operators. In `Backup` the age is one day instead of 41, and the second day is
there for archives that a stopped run leaves behind.

### Fairness

`CdrParser`: weak fairness of a worker's steps. The supervising script runs
`cdr_parser.sh` in an endless loop, and a parser's network calls time out, so
whatever it is doing ends. No file has to arrive, no fault has to happen, no
late commit has to be settled. Since each fault strikes a bounded number of times, `Handled` says:
if faults cease.

`OperStats`: weak fairness of the deadlock detection and strong fairness of each
parser. A parser that waits for a row is disabled until the other one commits
or ends, and may find the row taken again; InnoDB's lock queues are first come,
first served, so a statement that is granted its turn again and again
gets it.

The other modules state safety only.

## 4. Proofs

TLAPS checks the following for every value of the constants that satisfies the
modules' named assumptions. They hold for any number of workers, parsers, files,
lines and faults.

| module | theorem | states | extra assumption |
|---|---|---|---|
| `CdrParserProofs` | `TypeCorrect` | `Spec => []TypeOK` | |
| | `LoadIsAtomic` | `Spec => []AtomicLoad` | |
| | `WholeFilesStored` | `Spec => []OnlyWholeFiles` | |
| | `MutualExclusion` | `Spec => []OneHolder` | |
| | `NoSemaphoreLeft` | `Spec => []SemaphoresHeld` | |
| | `ZeroStatus` | `Spec => []ZeroMeansLoaded` | no file's name LIKE-matches another's |
| | `OnlyBusyParsersLose` | `Spec => OnlyBusyLoses` | LIKE as above |
| | `LoadedAtMostOnce` | `Spec => []AtMostOnce` | |
| | `NeverLoadedTwice` | `Spec => []NeverTwice` | no stray signals, no late commits |
| | `Refinement` | `Spec => OnceSpec` | |
| | `LoneScriptLosesNothing` | `Spec => []NothingLost` | one worker, LIKE as above |
| `SupervisedProofs` | `SupervisedRefines` | `SupSpec => Spec` | |
| | `SupTypeCorrect` | `SupSpec => []SupTypeOK` | |
| | `OneScriptAtATime` | `SupSpec => []OneScript` | |
| | `SupervisedSpoolIsSafe` | `SupSpec => []SupervisedLosesNothing` | LIKE as above |
| `OperStatsProofs` | `TypesCorrect` | `Spec => []TypeOK` | |
| | `RowsPerStatistic` | `Spec => []DuplicatesBounded` | finitely many parsers |
| | `OneRowIfAlone` | `Spec => []OneRowPerKey` | one parser |
| `OperStatsLedgerProofs` | `LedgerKept` | `Spec => LedgerSpec` | |
| `NameTablesProofs` | `TypesCorrect` | `Spec => []TypeOK` | |
| | `OneIdForEachName` | `Spec => []OneIdPerFile` | |
| | `ReferencesAreRows` | `Spec => []RefsAreRows` | |
| | `NamesSavedUnlessLost` | `Spec => []NamesSaved` | no commit of a name is lost |
| | `RowsPerName` | `Spec => []RowsBounded` | finitely many parsers |
| `FileReaderProofs` | `TypesCorrect` | `Spec => []TypeOK` | |
| | `WholeFilesOnly` | `Spec => []WholeBeforeUse` | |
| | `RecordsCorrect` | `Spec => []RecordsAsWritten` | |
| | `ListsHonoured` | `Spec => []ListHonoured` | |
| | `KeysSurvive` | the row read back equals the record's key | |
| | `KeysCorrect` | `Spec => []KeyFound` | |
| | `ImplementsVerdict` | `Spec => VerdictSpec` | |
| `BackupProofs` | `TypeCorrect` | `Spec => []TypeOK` | |
| | `FilesAreKept` | `Spec => []Kept` | |
| | `RemoteOnlyGrows` | `Spec => RemoteGrows` | |

### CdrParser

* `TxInv`: at each step of the transaction `wrote[w]` is exactly what the steps
  before have written, unless the connection is lost, and a commit in `late`
  has written all three tables. Hence only all three tables are ever committed,
  which lemma `DbStep` states (a step leaves `db` alone or adds all of a file)
  and `AtomicLoad` follows from.
* `FitInv`: a parser behind `LoadFile` has a file that is whole; behind the
  conversions one without a bad field; behind `FillOperStats` a good one; and so is
  the file of every commit in `late`. `ReadStep` says how a parser comes
  forward, `WholeStays` that a whole file stays so or is removed, and `OnlyWholeFiles`
  is what a commit makes of it.
* `SemaphoreStep` sorts the steps of a worker by what they mean for the semaphores:
  it gets one, keeps it, gives it back, has none and leaves them alone, strays, or
  dies. `HoldersInv`: those who hold a file are at most as many as the stray signals,
  and one more if its name is in `sems`. The name has to be counted: once it
  has been unlinked, its first holder will unlink that of the second, too.
  `StaleStep`: only a death makes a name stale, whence `SemaphoresHeld`.
* `ZeroInv`: `ZeroMeansLoaded`, and a parser that rolls back has failed. `rc`
  becomes `"ok"` in `CheckProcessed` and `CommitTransaction` only (lemmas
  `...Control`), which find or leave the rows, and rows do not go away
  (`LoadedStays`). From there to `OnlyBusyLoses`: the script comes to `rm` with
  status 0 only (`Outcomes`), which is `"ok"` or `"busy"`, and only `RemoveFile`
  takes a file out of the spool (`SpoolStep`).
* `CopiesInv` counts, for a file, the copies that are stored, the parsers between
  `CheckProcessed` and COMMIT and the commits on their way: together at most one more
  than stray signals and timed-out commits. A commit, on time or late, moves one from a
  later summand to the first. A parser comes in only if nothing is stored, and
  then the parsers are bounded by `HoldersInv` and the commits by `LateInv`.
* `Refinement` uses `DbStep` and `AtMostOnce` of the next state: a step that adds a
  file is `Load`, whose proviso is that the file is stored once afterwards; all
  other steps leave `rows` alone, and what is not quiet does not become quiet again.
* `FewDoomed` bounds the files that are lost, or whose name is stale, or whose script
  has just been told "busy", by kills and failing `sem_open`. If the worker that
  moves is the only one at work (`LoneStep`), the only semaphores that its parser
  can meet are stale ones, so such a file only moves on among the three
  (`DoomedStep`); with a second script "busy" would be a new one.

### Supervised

Every step is one of `CdrParser` or leaves its variables alone
(`SupervisedRefines`), so its invariants come for free. The new one is `Mutual`:
of two instances that are there at the same time, one has yet to look at the
other or has counted a process already. It holds at a start because the new
instance has everybody in `unseen`, and a look turns one disjunct into the other
while there are no slips. Two loops would contradict it. The scripts outside a loop are
counted by `strays` (`OrphansInv`), which gives `OneScript`. Without strays, the worker
that moves is the only one with a script, every step is a `LoneStep`, and the argument
for the lone script gives `SupervisedSpoolIsSafe`.

### OperStats and NameTables

Their type invariants need the shape of a parser's local data at each step
(`ParserOK`, `Shapes`): entries read from the table have ids below the counter
and entries of the file have none before they are inserted. The bounds on
duplicates rest on one count: `FewRows` says that for a key that has rows, their
number plus the number of parsers that are *ignorant* of it (at work on a file
that may have the key, and without a row of it in what they have read) is at most the
number of parsers. A parser that starts later is not ignorant, and an insert
takes a parser out of the ignorant ones for the row that it adds.

`OneName`, over rows, vectors, uncommitted names and stored CDRs: no id is
claimed for two names of a table. It needs the counter, and gives `RefsAreRows` its core:
a referenced row has the right name. `FewUnrowed` counts the pairs of name and id that are in use
and have no row, at most one per lost commit.

### The ledger

`LedgerSpec` says that the counts of a key's rows add up to the records of the
loaded files. A sum over a set is recursive, and what a recursive definition yields
for arbitrary data is out of the prover's reach. So the module says the same by
counting: `Units(k)` is the set of pairs of a row of k and a number up to its count,
`CountedIn(f, k)` the set of f's counted records with key k, and a sum is the number of
pairs. The lemmas on pairs say how that number changes when a row is added or
its count raised. The invariant is `Books`:

* `FilesApart`: no two parsers have one file, and none has one that is loaded, so
  a commit is a `Post` of a file that is not posted yet.
* `Balanced`: what p's entries for a key have been raised by is the number of the file's
  counted records with that key that the loop has passed. It holds because
  a record raises one entry, the first with its key.
* `EntriesApart`: an entry that is not from the table counts something and has
  no row before it is inserted, and two entries from the table have different rows. Hence
  `Diff` and `KeyOf`, which look an entry up by its row, find the one meant.
* `RowsApart`: a row that p has inserted and not committed is in nobody else's
  transaction and not in the table, so a commit neither overwrites nor loses one.

A commit then adds to `Units(k)` as many pairs as the file has records with key k, with
the other parsers' rows as they are at that moment: the stale view matters for which rows
are found, not for what is added.

### FileReader

`WholeBeforeUse` is not inductive: it must be known where the rows come from.
`Shapes` says that a row's first field is that of a line read or part of one, and a part of a
word never has the footer word in it; so if the last row has the footer, and the
footer marks the last line alone, the last line was read.

`RecordsAsWritten`, `KeyFound` and `VerdictSpec` need more, `Told`:

* `Loaded`: while the parser reads, its rows are the wanted lines among those it
  took, in their order; `Rank(n)`, the number of wanted lines up to n, is the row
  that line n has become. Once it goes on, all lines up to the last are there,
  the file is framed, and its end is written as far as the footer word.
  The last line is apart: a line of several fields may be taken half
  written, so it may be a row although it is short or ignored, or not be one.
* `Converted`: each record has the operator, number and date of its row.
* `Progress`: no records before the loop, all of them at its end.
* `PartOfOne`: part of a line of one field has one field.

The properties are about the file's lines and `Told` about rows; `Rank` takes the
one to the other (`FirstRows`, `RecordFacts`). Without the half-written last
line a simpler statement would do; with it, the claim that a whole file's
verdict is decided by its lines is true only in the form of `Fates`:
a file whose last line has several fields may also be refused in a pass that
comes too early.

`KeysSurvive` uses lemma `KeyRoundTrip`, about the pure functions, and the invariant
`Dated`, and needs no footer word; `KeysCorrect` adds which line the record is from.
`ImplementsVerdict` has one step per action: `Write` and `EndLine` are `Finish` or a
stutter, the ends of a pass are `Decide` (`FrameSeen`, `RefusedRightly`, `LoopVerdict`
say why the verdict is one of `Fates`), the next pass is `Retry`.

### The list of ignored operators

`ListsHonoured` is about two recursions, over the pieces of a line and over the
lines of `config.ini`, which `Config` writes as recursive functions.
`ConfigProofs` unfolds them without an induction rule, by the least counterexample:
`ParsesExists` shows that the function over the lines is there, `NextLine` what
a line does to the parser's state, and `ListParsed` concludes from the first line
behind which `SoFar` would not hold. `SoFar` says that between its header and the list
the section is `global`, that the list's key has no value before its line, and that
it has the list's text from there on. A plain line is one piece
(`PlainLine`); a line that is not the list's leaves its key alone and, unless it
is a header, the section (`OtherPiece`); the list's line stores what is
between the equals sign and the comment (`ListPiece`, with `ListName` and
`ListValue`). `Split` then says what a text with a space at every other place is split
into. The proof needs that names are words, so `ReaderAssumption` says that
a `config.ini` is a sequence of sequences of strings.

### Backup

`Calm`, while nothing odd has happened, has a part on runs (one at a time; its
day is the latest one touched; what is archived when) and one on days (files
miss only from days that were cleared, and are then in the archive that counts;
an archive in the directory has no less than the one on the server). The order
of days matters: a run's archive cannot overwrite an older one because the
calendar does not go back.

### What the violations rest on

Each finding about a safety property has a theorem that names its cause:
`NeverLoadedTwice`, `OneRowIfAlone`, `NamesSavedUnlessLost` and
`LoneScriptLosesNothing` prove, under the assumptions of the table, what
`late_commit`, `stats_duplicates`, `names_dangling` and `two_scripts_remove` refute
once the late commit, the second parser, the lost commit or the second script is there.

### Checked by TLC only

* Liveness: `Handled`, `AllPosted`. The prover has no support for fairness here.

## 5. Assumptions about what is not in the repository

* The tables are InnoDB. Nothing in the repository creates them, and no unique
  key is assumed on `processed_files.file_name`, on the columns of a statistic
  or on names; with such keys the duplicates would be refused and the load
  would fail and be retried.
* Ids come from AUTO_INCREMENT counters that do not go back.
* A number column holds the nearest number it can and a DATE column zeros for a
  day that does not exist (MySQL without strict mode).
* A file's name is used once, and the gateway's names do not match each other
  under LIKE (they differ in their digits; `_` matches itself too). The model
  keeps LIKE as the constant `LikeMatches`, and `ZeroStatus` shows where the
  assumption is needed.
* A producer writes a file from front to back, and part of a word never contains the
  footer word.
* A named semaphore does not survive a reboot, and survives everything else.
* Nobody but the script takes CDR files or archives out of the backup's directory.

## 6. Not modelled

* *Lengths.* Buffers for queries, escaped names, dates and sections; two hazards
  without a property are about them. What a write behind a heap block does is the
  allocator's matter.
* *Texts.* The queries, `OA`, `DA` and `MESSAGE_ID` (copied only), messages, logs.
* *inih's details.* Case, the byte order mark, `:` for `=`; INIReader's
  `GetInteger`, `GetReal` and `GetBoolean`; the connection's parameters, whose
  failure is a `Fail` at `setup`.
* *Never called.* BoyerHorspool, CDRTokenizer, `MYSQLNULL`, `CheckConnect`,
  `InsertTransaction`, `RemoveFile`, `ConvertToMessageId`.
* *Build files.*

## 7. Plan

Done: all modules above. What is left to prove rather than to model:

1. Liveness of `CdrParser` in invariant form: from every reachable state with no
   faults left the worker has a step that brings a good file closer to `removed`.
2. `OperStats` without gridlock: of the parsers at work one can go on, or some of
   them wait for each other in a circle and `Victim` can take its smallest.
3. The steps that `OperStats` and `NameTables` refine in `CdrParser`, as refinements for
   one file.
