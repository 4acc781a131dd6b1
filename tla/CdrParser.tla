------------------------------ MODULE CdrParser ------------------------------
(***************************************************************************)
(* The life of a CDR file: cdr_parser.sh instances (the workers) walk the  *)
(* spool directory and start one cdr_parser.bin at a time; the parser      *)
(* takes a POSIX semaphore named after the file, asks MySQL whether the    *)
(* file was processed, reads it, and writes everything in one transaction; *)
(* the script removes the file when the parser's exit status is 0.         *)
(*                                                                         *)
(* Control is complete: every early return of main(), every query that can *)
(* fail, signals, kills, lost connections.  Data is abstract: a file's     *)
(* content is one of three kinds, and the database counts, per file and    *)
(* table, how many times the file's contribution is stored.                *)
(***************************************************************************)
EXTENDS Naturals, FiniteSets

CONSTANTS
  Workers,        \* concurrently running instances of cdr_parser.sh
  Files,          \* the names of the CDR files that may ever arrive
  NoFile,         \* "no file yet"
  Content,        \* [Files -> {"good", "bad", "empty"}], see below
  LikeMatches,    \* names that MySQL's LIKE matches, taking the name as a pattern
  MaxFaults       \* [FaultKinds -> Nat]: how often each fault may strike

\* "good": every record converts.  "bad": some field is not a number, so
\* ConvertToLong fails.  "empty": header and footer, but no record that is
\* neither short nor from an ignored source operator.
Contents == {"good", "bad", "empty"}

FaultKinds ==
  { "error",      \* the configuration or a query fails, for whatever reason
    "disconnect", \* the MySQL connection is lost
    "late",       \* COMMIT times out at the client, the server goes on with it
    "kill",       \* SIGKILL, a crash, the OOM killer
    "term",       \* SIGTERM or SIGINT while the parser holds its semaphore
    "stray",      \* SIGTERM or SIGINT before it has it or after it gave it back
    "semfail",    \* sem_open fails for another reason than EEXIST
    "reboot" }    \* the host restarts; named semaphores do not survive

Tables == {"processed_files", "CDRs", "OPER_STAT"}

\* The parser's steps, in the order of main().
InTx == {"file", "cdrs", "opers", "commit"}
Checked == {"load", "names", "stats", "begin"} \union InTx
Connected == {"check"} \union Checked \union {"rollback"}
Holding == {"setup"} \union Connected \union {"free"}
Running == {"open"} \union Holding \union {"exit"}
Steps == {"pass"} \union Running \union {"rm"}

ASSUME ParserAssumption ==
  /\ NoFile \notin Files
  /\ Content \in [Files -> Contents]
  /\ LikeMatches \in [Files -> SUBSET Files]
  /\ \A f \in Files : f \in LikeMatches[f]
  /\ MaxFaults \in [FaultKinds -> Nat]

VARIABLES
  pc, job, rc,    \* per worker: next step, current file, outcome of its parser
  todo,           \* per worker: files of the current pass not visited yet
  sems,           \* the named semaphores that exist
  spool,          \* per file: its state in the spool directory
  db,             \* committed rows: db[f][t] contributions of file f to table t
  wrote,          \* per worker: tables its open transaction has written
  lost,           \* per worker: the connection is gone, the client has not noticed
  late,           \* commits the server still works on for clients that gave up
  faults          \* how often each kind of fault has struck

vars == <<pc, job, rc, todo, sems, spool, db, wrote, lost, late, faults>>

Late == [id : Nat, file : Files, wrote : SUBSET Tables]

\* Types of the variables; rc is "ok" or "busy" when main returns 0.
TypeOK ==
  /\ pc \in [Workers -> Steps]
  /\ job \in [Workers -> Files \union {NoFile}]
  /\ \A w \in Workers : pc[w] = "pass" <=> job[w] = NoFile
  /\ rc \in [Workers -> {"ok", "busy", "error"}]
  /\ todo \in [Workers -> SUBSET Files]
  /\ sems \in SUBSET Files
  /\ spool \in [Files -> {"absent", "partial", "complete", "removed"}]
  /\ db \in [Files -> [Tables -> Nat]]
  /\ wrote \in [Workers -> SUBSET Tables]
  /\ lost \in [Workers -> BOOLEAN]
  /\ late \in SUBSET Late
  /\ faults \in [FaultKinds -> Nat]

Init ==
  /\ pc = [w \in Workers |-> "pass"]
  /\ job = [w \in Workers |-> NoFile]
  /\ rc = [w \in Workers |-> "ok"]
  /\ todo = [w \in Workers |-> {}]
  /\ sems = {}
  /\ spool = [f \in Files |-> "absent"]
  /\ db = [f \in Files |-> [t \in Tables |-> 0]]
  /\ wrote = [w \in Workers |-> {}]
  /\ lost = [w \in Workers |-> FALSE]
  /\ late = {}
  /\ faults = [k \in FaultKinds |-> 0]

Goto(w, step) == pc' = [pc EXCEPT ![w] = step]

\* An outcome and where main goes with it.
Leave(w, outcome, step) == rc' = [rc EXCEPT ![w] = outcome] /\ Goto(w, step)

\* The script is done with the file, for this pass.
Idle(w) ==
  /\ Leave(w, "ok", "pass")
  /\ job' = [job EXCEPT ![w] = NoFile]

\* The process is gone; MySQL drops what its session had not committed.
EndSession(w) ==
  /\ wrote' = [wrote EXCEPT ![w] = {}]
  /\ lost' = [lost EXCEPT ![w] = FALSE]

Strike(k) ==
  /\ faults[k] < MaxFaults[k]
  /\ faults' = [faults EXCEPT ![k] = @ + 1]

-------------------------------------------------------------------------------
(* The script: one pass over the directory listing, one file after another. *)

\* Mutant: [ -f ] dropped; the pattern itself stands for "no match".
GlobOrPattern ==
  LET found == {f \in Files : spool[f] \in {"partial", "complete"}}
  IN  IF found = {} THEN {NoFile} ELSE found

Glob == {f \in Files : spool[f] \in {"partial", "complete"}}

\* The shell expands the pattern once, at the head of the for loop.
NewPass(w) ==
  /\ pc[w] = "pass"
  /\ todo[w] = {}
  /\ todo' = [todo EXCEPT ![w] = Glob]
  /\ UNCHANGED <<pc, job, rc, sems, spool, db, wrote, lost, late, faults>>

\* A file of the listing may be gone by the time its turn comes.
TakeFile(w) ==
  /\ pc[w] = "pass"
  /\ \E f \in todo[w] :
       /\ todo' = [todo EXCEPT ![w] = @ \ {f}]
       /\ IF f \in Glob
            THEN Goto(w, "open") /\ job' = [job EXCEPT ![w] = f]
            ELSE UNCHANGED <<pc, job>>
  /\ UNCHANGED <<rc, sems, spool, db, wrote, lost, late, faults>>

\* Mutant: the script does not look at the exit status.
ExitUnseen(w) ==
  /\ pc[w] = "exit"
  /\ Goto(w, "rm")
  /\ EndSession(w)
  /\ UNCHANGED <<job, rc, todo, sems, spool, db, late, faults>>

\* The parser ends.  The script sees status 0 for "ok" and for "busy".
Exit(w) ==
  /\ pc[w] = "exit"
  /\ IF rc[w] = "error" THEN Idle(w) ELSE Goto(w, "rm") /\ UNCHANGED <<job, rc>>
  /\ EndSession(w)
  /\ UNCHANGED <<todo, sems, spool, db, late, faults>>

RemoveFile(w) ==
  /\ pc[w] = "rm"
  /\ spool' = [spool EXCEPT ![job[w]] = "removed"]
  /\ Idle(w)
  /\ UNCHANGED <<todo, sems, db, wrote, lost, late, faults>>

-------------------------------------------------------------------------------
(* The semaphore *)

\* Mutant: sem_open without O_EXCL.
AcquireShared(w) ==
  /\ pc[w] = "open"
  /\ sems' = sems \union {job[w]}
  /\ Goto(w, "setup")
  /\ UNCHANGED <<job, rc, todo, spool, db, wrote, lost, late, faults>>

AcquireSemaphore(w) ==
  /\ pc[w] = "open"
  /\ job[w] \notin sems
  /\ sems' = sems \union {job[w]}
  /\ Goto(w, "setup")
  /\ UNCHANGED <<job, rc, todo, spool, db, wrote, lost, late, faults>>

\* SEM_FAILED, whatever errno is, ends main with status 0.
SemaphoreBusy(w) ==
  /\ pc[w] = "open"
  /\ IF job[w] \in sems THEN UNCHANGED faults ELSE Strike("semfail")
  /\ Leave(w, "busy", "exit")
  /\ UNCHANGED <<job, todo, sems, spool, db, wrote, lost, late>>

\* sem_unlink removes the name, whoever created the semaphore under it.
FreeSemaphore(w) ==
  /\ pc[w] = "free"
  /\ sems' = sems \ {job[w]}
  /\ Goto(w, "exit")
  /\ UNCHANGED <<job, rc, todo, spool, db, wrote, lost, late, faults>>

-------------------------------------------------------------------------------
(* The steps of main() between the semaphore and the transaction *)

\* Mutant: the client reconnects in the middle of a transaction, too.
BrokenUnlessReconnected(w) ==
  \/ pc[w] = "load" /\ spool[job[w]] # "complete"
  \/ pc[w] = "names" /\ Content[job[w]] = "bad"
  \/ pc[w] = "stats" /\ Content[job[w]] = "empty"

\* The step cannot succeed: the file is not there or not whole; a field does
\* not convert; FillOperStats sends "where (  )" when the file has no date; a
\* client that was in a transaction reports a lost connection, it does not
\* reconnect silently.
Broken(w) ==
  \/ pc[w] = "load" /\ spool[job[w]] # "complete"
  \/ pc[w] = "names" /\ Content[job[w]] = "bad"
  \/ pc[w] = "stats" /\ Content[job[w]] = "empty"
  \/ pc[w] \in InTx /\ lost[w]

\* config.ini and mysql_real_connect.
Setup(w) ==
  /\ pc[w] = "setup"
  /\ Goto(w, "check")
  /\ UNCHANGED <<job, rc, todo, sems, spool, db, wrote, lost, late, faults>>

\* Mutant: the pattern matches every name.
CheckAnyProcessed(w) ==
  /\ pc[w] = "check"
  /\ IF \E g \in Files : db[g]["processed_files"] > 0
       THEN Leave(w, "ok", "free")
       ELSE Goto(w, "load") /\ UNCHANGED rc
  /\ lost' = [lost EXCEPT ![w] = FALSE]
  /\ UNCHANGED <<job, todo, sems, spool, db, wrote, late, faults>>

\* Mutant: the answer of the query is ignored.
CheckNothing(w) ==
  /\ pc[w] = "check"
  /\ Goto(w, "load")
  /\ lost' = [lost EXCEPT ![w] = FALSE]
  /\ UNCHANGED <<job, rc, todo, sems, spool, db, wrote, late, faults>>

\* FileWasProcessed.  Here and below a query outside a transaction reconnects.
CheckProcessed(w) ==
  /\ pc[w] = "check"
  /\ IF \E g \in LikeMatches[job[w]] : db[g]["processed_files"] > 0
       THEN Leave(w, "ok", "free")
       ELSE Goto(w, "load") /\ UNCHANGED rc
  /\ lost' = [lost EXCEPT ![w] = FALSE]
  /\ UNCHANGED <<job, todo, sems, spool, db, wrote, late, faults>>

\* Mutant: the footer check of a file that is there is dropped.
LoadUnchecked(w) ==
  /\ pc[w] = "load"
  /\ spool[job[w]] # "removed"
  /\ Goto(w, "names")
  /\ UNCHANGED <<job, rc, todo, sems, spool, db, wrote, lost, late, faults>>

LoadFile(w) ==
  /\ pc[w] = "load"
  /\ ~Broken(w)
  /\ Goto(w, "names")
  /\ UNCHANGED <<job, rc, todo, sems, spool, db, wrote, lost, late, faults>>

\* A step that only queries, as far as the three tables are concerned.
Query(w, from, to) ==
  /\ pc[w] = from
  /\ ~Broken(w)
  /\ Goto(w, to)
  /\ lost' = [lost EXCEPT ![w] = FALSE]
  /\ UNCHANGED <<job, rc, todo, sems, spool, db, wrote, late, faults>>

\* FillOperators, FillHubs and the loop over the records.
ResolveNames(w) == Query(w, "names", "stats")

FillOperStats(w) == Query(w, "stats", "begin")

-------------------------------------------------------------------------------
(* The transaction *)

StartTransaction(w) == Query(w, "begin", "file")

\* The contributions a transaction for file f stored in tables ts.
Apply(f, ts) ==
  db' = [db EXCEPT ![f] = [t \in Tables |-> IF t \in ts THEN @[t] + 1 ELSE @[t]]]

\* Mutant: autocommit left on.
InsertAutocommit(w, from, table, to) ==
  /\ pc[w] = from
  /\ ~Broken(w)
  /\ Apply(job[w], {table})
  /\ Goto(w, to)
  /\ UNCHANGED <<job, rc, todo, sems, spool, wrote, lost, late, faults>>

Insert(w, from, table, to) ==
  /\ pc[w] = from
  /\ ~Broken(w)
  /\ wrote' = [wrote EXCEPT ![w] = @ \union {table}]
  /\ Goto(w, to)
  /\ UNCHANGED <<job, rc, todo, sems, spool, db, lost, late, faults>>

InsertTransactionFile(w) == Insert(w, "file", "processed_files", "cdrs")

InsertTransactionCDRs(w) == Insert(w, "cdrs", "CDRs", "opers")

InsertTransactionOperStats(w) == Insert(w, "opers", "OPER_STAT", "commit")

\* The server commits and the client learns it, or loses the answer.
CommitTransaction(w) ==
  /\ pc[w] = "commit"
  /\ ~Broken(w)
  /\ Apply(job[w], wrote[w])
  /\ wrote' = [wrote EXCEPT ![w] = {}]
  /\ \/ Leave(w, "ok", "free") /\ UNCHANGED faults
     \/ Leave(w, "error", "rollback") /\ Strike("error")
  /\ UNCHANGED <<job, todo, sems, spool, lost, late>>

\* The answer takes longer than MYSQL_OPT_READ_TIMEOUT: main gives up on a
\* transaction the server still commits, or not, by itself.
CommitTimesOut(w) ==
  /\ pc[w] = "commit"
  /\ ~Broken(w)
  /\ Strike("late")
  /\ late' = late \union {[id |-> faults["late"], file |-> job[w], wrote |-> wrote[w]]}
  /\ wrote' = [wrote EXCEPT ![w] = {}]
  /\ Leave(w, "error", "rollback")
  /\ UNCHANGED <<job, todo, sems, spool, db, lost>>

\* Its result is not looked at, and it may fail.
RollbackTransaction(w) ==
  /\ pc[w] = "rollback"
  /\ \/ wrote' = [wrote EXCEPT ![w] = {}] /\ UNCHANGED faults
     \/ Strike("error") /\ UNCHANGED wrote
  /\ Goto(w, "free")
  /\ UNCHANGED <<job, rc, todo, sems, spool, db, lost, late>>

\* Mutant: an error path that forgets free_semaphore().
FailHolding(w) ==
  /\ pc[w] \in Holding \ {"rollback", "free"}
  /\ IF Broken(w) \/ (lost[w] /\ pc[w] # "load")
       THEN UNCHANGED faults
       ELSE Strike("error")
  /\ Leave(w, "error", IF pc[w] \in InTx THEN "rollback" ELSE "exit")
  /\ UNCHANGED <<job, todo, sems, spool, db, wrote, lost, late>>

\* Every other way out of main with EXIT_FAILURE.
Fail(w) ==
  /\ pc[w] \in Holding \ {"rollback", "free"}
  /\ IF Broken(w) \/ (lost[w] /\ pc[w] # "load")
       THEN UNCHANGED faults
       ELSE Strike("error")
  /\ Leave(w, "error", IF pc[w] \in InTx THEN "rollback" ELSE "free")
  /\ UNCHANGED <<job, todo, sems, spool, db, wrote, lost, late>>

-------------------------------------------------------------------------------
(* What happens to the parser from outside *)

Disconnect(w) ==
  /\ pc[w] \in Connected
  /\ ~lost[w]
  /\ Strike("disconnect")
  /\ wrote' = [wrote EXCEPT ![w] = {}]
  /\ lost' = [lost EXCEPT ![w] = TRUE]
  /\ UNCHANGED <<pc, job, rc, todo, sems, spool, db, late>>

\* No handler runs, so the semaphore stays behind.
Kill(w) ==
  /\ pc[w] \in Running
  /\ Strike("kill")
  /\ Idle(w)
  /\ EndSession(w)
  /\ UNCHANGED <<todo, sems, spool, db, late>>

\* free_semaphore() unlinks the name whether or not this process created it.
SignalHandler(w) ==
  /\ pc[w] \in Running
  /\ Strike(IF pc[w] \in Holding THEN "term" ELSE "stray")
  /\ sems' = sems \ {job[w]}
  /\ Idle(w)
  /\ EndSession(w)
  /\ UNCHANGED <<todo, spool, db, late>>

Reboot ==
  /\ Strike("reboot")
  /\ pc' = [w \in Workers |-> "pass"]
  /\ job' = [w \in Workers |-> NoFile]
  /\ rc' = [w \in Workers |-> "ok"]
  /\ todo' = [w \in Workers |-> {}]
  /\ sems' = {}
  /\ wrote' = [w \in Workers |-> {}]
  /\ lost' = [w \in Workers |-> FALSE]
  /\ UNCHANGED <<spool, db, late>>

\* The server finishes a commit nobody waits for, or gives it up.
LateCommit ==
  /\ \E l \in late :
       /\ late' = late \ {l}
       /\ Apply(l.file, l.wrote)
  /\ UNCHANGED <<pc, job, rc, todo, sems, spool, wrote, lost, faults>>

LateAbort ==
  /\ \E l \in late : late' = late \ {l}
  /\ UNCHANGED <<pc, job, rc, todo, sems, spool, db, wrote, lost, faults>>

\* Whoever delivers the CDRs writes a file in place, then finishes it.
Arrive(f) ==
  /\ spool[f] = "absent"
  /\ spool' = [spool EXCEPT ![f] = "partial"]
  /\ UNCHANGED <<pc, job, rc, todo, sems, db, wrote, lost, late, faults>>

Complete(f) ==
  /\ spool[f] = "partial"
  /\ spool' = [spool EXCEPT ![f] = "complete"]
  /\ UNCHANGED <<pc, job, rc, todo, sems, db, wrote, lost, late, faults>>

-------------------------------------------------------------------------------
ScriptStep(w) ==
  NewPass(w) \/ TakeFile(w) \/ Exit(w) \/ RemoveFile(w)

ParserStep(w) ==
  \/ AcquireSemaphore(w) \/ SemaphoreBusy(w) \/ FreeSemaphore(w)
  \/ Setup(w) \/ CheckProcessed(w) \/ LoadFile(w)
  \/ ResolveNames(w) \/ FillOperStats(w) \/ StartTransaction(w)
  \/ InsertTransactionFile(w) \/ InsertTransactionCDRs(w)
  \/ InsertTransactionOperStats(w) \/ CommitTransaction(w)
  \/ CommitTimesOut(w) \/ RollbackTransaction(w) \/ Fail(w)

Step(w) == ScriptStep(w) \/ ParserStep(w)

Fault(w) == Disconnect(w) \/ Kill(w) \/ SignalHandler(w)

Next ==
  \/ \E w \in Workers : Step(w) \/ Fault(w)
  \/ Reboot \/ LateCommit \/ LateAbort
  \/ \E f \in Files : Arrive(f) \/ Complete(f)

Spec == Init /\ [][Next]_vars

\* The script runs in an endless loop and a parser that can go on does: its
\* network calls time out after 100 seconds.  Nothing obliges a file to
\* arrive, a fault to strike or the server to settle a late commit.
FairSpec == Spec /\ \A w \in Workers : WF_vars(Step(w))

-------------------------------------------------------------------------------
(* Properties *)

\* A file's contribution is in all three tables or in none, whichever step of
\* main fails, whatever becomes of the connection, the process or the server.
AtomicLoad ==
  \A f \in Files : \A t, u \in Tables : db[f][t] = db[f][u]

Loaded(f) == db[f]["processed_files"] > 0

\* The database never takes anything from a file that is still being written, that
\* has a field that does not convert or that has no record: whatever is retried, by
\* whom and after which commit that came late.
OnlyWholeFiles ==
  \A f \in Files :
    Loaded(f) => Content[f] = "good" /\ spool[f] \in {"complete", "removed"}

\* A parser that leaves main with status 0 and had the file to itself leaves a
\* loaded file behind: "already been processed" is not said of another file,
\* and no error path returns 0.
ZeroMeansLoaded ==
  \A w \in Workers :
    pc[w] \in {"free", "exit", "rm"} /\ rc[w] = "ok" => Loaded(job[w])

Holders(f) == {w \in Workers : pc[w] \in Holding /\ job[w] = f}

\* One parser works on a file, and one more for every signal that reached a
\* parser that did not hold the semaphore its handler unlinks; no other fault,
\* retry or restart lets a second one in.
OneHolder ==
  \A f \in Files : Cardinality(Holders(f)) <= 1 + faults["stray"]

\* No way out of main but a kill leaves a semaphore behind, and each kill leaves
\* one at most, stray signals and failing steps included: the other names in use
\* are those of parsers yet to unlink them.
SemaphoresHeld ==
  Cardinality({f \in sems : Holders(f) = {}}) <= faults["kill"]

\* Retries after errors, lost answers, kills and reboots never store a file's
\* CDRs twice: FileWasProcessed and the semaphore together see to it.  A stray
\* signal, which breaks the semaphore, and a commit that outlives its client, which
\* FileWasProcessed does not see, cost one more copy each, however often the file
\* is retried afterwards.
AtMostOnce ==
  \A f \in Files, t \in Tables : db[f][t] <= 1 + faults["stray"] + faults["late"]

\* As a refinement: every step is invisible in the database or stores one whole
\* file, for good, and stores it for the first time unless a stray signal or a
\* late commit has come.
Once == INSTANCE LoadOnce WITH
  rows <- db,
  quiet <- faults["stray"] = 0 /\ faults["late"] = 0

OnceSpec == Once!Spec

Lost == {f \in Files : spool[f] = "removed" /\ ~Loaded(f)}

\* The script removes a file from the spool only when the database holds it, but
\* for one file for each parser that was killed, whose semaphore the next one takes
\* for that of a parser at work, and for each sem_open that failed.
NothingLost ==
  Cardinality(Lost) <= faults["kill"] + faults["semfail"]

Removed(f) == spool[f] # "removed" /\ spool'[f] = "removed"
Busy(f) == \E w \in Workers : pc[w] = "rm" /\ job[w] = f /\ rc[w] = "busy"

\* With several scripts, and whatever fails, is killed or comes late, a file that
\* the database lacks is removed by one path only: its script ran a parser that
\* sem_open turned away.
OnlyBusyLoses ==
  [][\A f \in Files : Removed(f) /\ ~Loaded(f)' => Busy(f)]_vars

\* A whole file whose fields convert ends up out of the spool and in the database,
\* whatever failed on the way; without the latter only after a kill or a failed
\* sem_open.
Handled ==
  \A f \in Files :
    Content[f] = "good" /\ spool[f] = "complete"
      ~> /\ spool[f] = "removed"
         /\ Loaded(f) \/ faults["kill"] + faults["semfail"] > 0

\* A file without a record to store is finished with, too: main has a branch
\* for it, which returns 0 so that the script removes the file.
EmptyFinished ==
  \A f \in Files :
    Content[f] = "empty" /\ spool[f] = "complete" ~> spool[f] = "removed"

\* A file is never stored twice, signals or not: main asks the database first
\* and holds a semaphore meanwhile.
NeverTwice == \A f \in Files, t \in Tables : db[f][t] <= 1
===============================================================================
