------------------------------ MODULE OperStats ------------------------------
(***************************************************************************)
(* How parsers that run at the same time keep the table OPER_STAT.  Each   *)
(* reads the rows of its file's dates, counts the file's records into a    *)
(* local vector, and in its transaction sends, entry after entry, an       *)
(* UPDATE cnt = cnt + diff by primary key for a row it had read and an     *)
(* INSERT for a key it had not.  InnoDB locks an updated row until the     *)
(* transaction ends.                                                       *)
(*                                                                         *)
(* The ten fields that AddFileOperStat compares are one key; the semaphore *)
(* and FileWasProcessed (module CdrParser) are the guard of Start.         *)
(***************************************************************************)
EXTENDS Naturals, FiniteSetsExt, SequencesExt

CONSTANTS
  Parsers,
  Files,
  NoFile,
  Keys,
  DayOf,        \* [Keys -> days]: a key's date
  Records,      \* [Files -> Seq([key : Keys, counted : BOOLEAN])]
  MaxAborts     \* how many loads may fail

\* counted: the record's CDR_TYPE is 3.
ASSUME StatsAssumption ==
  /\ NoFile \notin Files
  /\ Records \in [Files -> Seq([key : Keys, counted : BOOLEAN])]
  /\ DayOf \in [Keys -> Nat]
  /\ MaxAborts \in Nat

VARIABLES
  pc, file,     \* per parser: next step, its file
  seen,         \* per parser: the table as its read view shows it
  stats, at,    \* per parser: CDRsOperStats->operstats; next record, then next entry
  table,        \* committed rows of OPER_STAT: [id -> [key, cnt]]
  nextId,       \* its AUTO_INCREMENT counter
  loaded,       \* committed rows of processed_files
  aborts        \* loads that failed so far

vars == <<pc, file, seen, stats, at, table, nextId, loaded, aborts>>

Entry == [row : Nat, from_db : BOOLEAN, key : Keys, diff : Nat]

\* Types; every committed row has an id below the counter, and the write loop stays
\* within the vector or just behind it.
TypeOK ==
  /\ pc \in [Parsers -> {"idle", "stats", "count", "write"}]
  /\ file \in [Parsers -> Files \union {NoFile}]
  /\ stats \in [Parsers -> Seq(Entry)]
  /\ at \in [Parsers -> Nat \ {0}]
  /\ nextId \in Nat
  /\ DOMAIN table \subseteq 1 .. nextId - 1
  /\ \A r \in DOMAIN table : table[r] \in [key : Keys, cnt : Nat]
  /\ loaded \subseteq Files
  /\ \A p \in Parsers : pc[p] = "write" => at[p] \in 1 .. Len(stats[p]) + 1

NoRows == [r \in {} |-> 0]

Init ==
  /\ pc = [p \in Parsers |-> "idle"]
  /\ file = [p \in Parsers |-> NoFile]
  /\ seen = [p \in Parsers |-> NoRows]
  /\ stats = [p \in Parsers |-> <<>>]
  /\ at = [p \in Parsers |-> 1]
  /\ table = NoRows
  /\ nextId = 1
  /\ loaded = {}
  /\ aborts = 0

-------------------------------------------------------------------------------
(* The vector of statistics *)

\* AddDateInFile for every record, counted or not.
DatesInFile(f) == {DayOf[Records[f][i].key] : i \in DOMAIN Records[f]}

\* Rows that the SELECT returns for the dates of f.
Selected(rows, f) == {r \in DOMAIN rows : DayOf[rows[r].key] \in DatesInFile(f)}

\* Mutant: rows read from the database are not compared.
AddIgnoringRead(entries, key) ==
  LET hits == {i \in DOMAIN entries : entries[i].key = key /\ ~entries[i].from_db}
  IN  IF hits = {}
        THEN Append(entries, [row |-> 0, from_db |-> FALSE, key |-> key, diff |-> 1])
        ELSE LET first == CHOOSE i \in hits : \A j \in hits : i <= j
             IN  [entries EXCEPT ![first].diff = @ + 1]

\* Mutant: no break after the first match.
AddToEveryMatch(entries, key) ==
  LET hits == {i \in DOMAIN entries : entries[i].key = key}
  IN  IF hits = {}
        THEN Append(entries, [row |-> 0, from_db |-> FALSE, key |-> key, diff |-> 1])
        ELSE [i \in DOMAIN entries |->
                IF i \in hits THEN [entries[i] EXCEPT !.diff = @ + 1] ELSE entries[i]]

\* Count one record: the first entry with its key, or a new one.
AddFileOperStat(entries, key) ==
  LET hits == {i \in DOMAIN entries : entries[i].key = key}
  IN  IF hits = {}
        THEN Append(entries, [row |-> 0, from_db |-> FALSE, key |-> key, diff |-> 1])
        ELSE LET first == CHOOSE i \in hits : \A j \in hits : i <= j
             IN  [entries EXCEPT ![first].diff = @ + 1]

-------------------------------------------------------------------------------
(* A parser's steps *)

\* The process ends, with or without having committed.
End(p) ==
  /\ pc' = [pc EXCEPT ![p] = "idle"]
  /\ file' = [file EXCEPT ![p] = NoFile]
  /\ seen' = [seen EXCEPT ![p] = NoRows]
  /\ stats' = [stats EXCEPT ![p] = <<>>]
  /\ at' = [at EXCEPT ![p] = 1]

\* FileWasProcessed: the first read of the session's transaction fixes what
\* its later reads see.
Start(p) ==
  /\ pc[p] = "idle"
  /\ \E f \in Files \ loaded :
       /\ \A q \in Parsers : file[q] # f
       /\ file' = [file EXCEPT ![p] = f]
  /\ seen' = [seen EXCEPT ![p] = table]
  /\ pc' = [pc EXCEPT ![p] = "stats"]
  /\ UNCHANGED <<stats, at, table, nextId, loaded, aborts>>

\* FillOperStats, in whatever order the rows come.  A SaveOperator or SaveHub
\* since FileWasProcessed has ended the read view.
FillOperStats(p) ==
  /\ pc[p] = "stats"
  /\ \E rows \in {seen[p], table} : \E ids \in SetToSeqs(Selected(rows, file[p])) :
       stats' = [stats EXCEPT ![p] = [i \in DOMAIN ids |->
         [row |-> ids[i], from_db |-> TRUE, key |-> rows[ids[i]].key, diff |-> 0]]]
  /\ seen' = [seen EXCEPT ![p] = NoRows]
  /\ pc' = [pc EXCEPT ![p] = "count"]
  /\ UNCHANGED <<file, at, table, nextId, loaded, aborts>>

Advance(p) == at' = [at EXCEPT ![p] = @ + 1]

\* One turn of main's loop over the records.
CountRecord(p) ==
  /\ pc[p] = "count" /\ at[p] <= Len(Records[file[p]])
  /\ LET record == Records[file[p]][at[p]]
     IN  stats' = IF record.counted
                    THEN [stats EXCEPT ![p] = AddFileOperStat(@, record.key)] ELSE stats
  /\ Advance(p)
  /\ UNCHANGED <<pc, file, seen, table, nextId, loaded, aborts>>

StartTransaction(p) ==
  /\ pc[p] = "count" /\ at[p] = Len(Records[file[p]]) + 1
  /\ pc' = [pc EXCEPT ![p] = "write"]
  /\ at' = [at EXCEPT ![p] = 1]
  /\ UNCHANGED <<file, seen, stats, table, nextId, loaded, aborts>>

\* The entries that are still to be written, and the one the loop comes to
\* next: those without a difference are passed over.
Due(p) == {i \in at[p] .. Len(stats[p]) : stats[p][i].diff > 0}

NextDue(p) ==
  IF pc[p] = "write" THEN {i \in Due(p) : \A j \in Due(p) : i <= j} ELSE {}

\* Rows that p's transaction has updated or inserted so far.
Locks(p) ==
  IF pc[p] = "write"
    THEN {stats[p][i].row : i \in {j \in 1 .. at[p] - 1 : stats[p][j].diff > 0}} ELSE {}

\* p's next statement waits for a row lock of q.
WaitsFor(p, q) ==
  p # q /\ \E i \in NextDue(p) : stats[p][i].from_db /\ stats[p][i].row \in Locks(q)

\* Mutant: success is mysql_insert_id() = 1 alone, which an UPDATE never has.
UpdateRefused(p) ==
  /\ \E i \in NextDue(p) : stats[p][i].from_db
  /\ \A q \in Parsers : ~WaitsFor(p, q)
  /\ End(p)
  /\ UNCHANGED <<table, nextId, loaded, aborts>>

\* One row is affected: nobody deletes rows, and a new row has this key's id.
UpdateRow(p) ==
  /\ \E i \in NextDue(p) : stats[p][i].from_db /\ at' = [at EXCEPT ![p] = i + 1]
  /\ \A q \in Parsers : ~WaitsFor(p, q)
  /\ UNCHANGED <<pc, file, seen, stats, table, nextId, loaded, aborts>>

\* Mutant: the id is not taken from the counter for good.
InsertReusingId(p) ==
  /\ \E i \in NextDue(p) :
       /\ ~stats[p][i].from_db
       /\ stats' = [stats EXCEPT ![p][i].row = nextId]
       /\ at' = [at EXCEPT ![p] = i + 1]
  /\ UNCHANGED <<pc, file, seen, table, nextId, loaded, aborts>>

InsertRow(p) ==
  /\ \E i \in NextDue(p) :
       /\ ~stats[p][i].from_db
       /\ stats' = [stats EXCEPT ![p][i].row = nextId]
       /\ at' = [at EXCEPT ![p] = i + 1]
  /\ nextId' = nextId + 1
  /\ UNCHANGED <<pc, file, seen, table, loaded, aborts>>

\* What p's transaction adds to a row, or to nothing.
Diff(p, r) ==
  LET i == CHOOSE j \in DOMAIN stats[p] : stats[p][j].row = r IN stats[p][i].diff

KeyOf(p, r) ==
  LET i == CHOOSE j \in DOMAIN stats[p] : stats[p][j].row = r IN stats[p][i].key

CommitTransaction(p) ==
  /\ pc[p] = "write" /\ Due(p) = {}
  /\ table' = [r \in DOMAIN table \union Locks(p) |->
                 IF r \notin DOMAIN table THEN [key |-> KeyOf(p, r), cnt |-> Diff(p, r)]
                 ELSE IF r \in Locks(p) THEN [table[r] EXCEPT !.cnt = @ + Diff(p, r)]
                 ELSE table[r]]
  /\ loaded' = loaded \union {file[p]}
  /\ End(p)
  /\ UNCHANGED <<nextId, aborts>>

\* InnoDB rolls back, of the transactions that wait for each other, one that
\* has changed least; their records are all inserted by then.  Its parser
\* reports the error and ends.
Deadlocked == {S \in SUBSET Parsers :
                 S # {} /\ \A p \in S : \E q \in S : WaitsFor(p, q)}

Size(p) == Len(Records[file[p]])

Victim ==
  /\ \E S \in Deadlocked :
       \E p \in S : (\A q \in S : Size(p) <= Size(q)) /\ End(p)
  /\ UNCHANGED <<table, nextId, loaded, aborts>>

\* Any other error, a lost connection, a signal, a kill, a lock wait timeout.
Abort(p) ==
  /\ pc[p] # "idle"
  /\ aborts < MaxAborts
  /\ aborts' = aborts + 1
  /\ End(p)
  /\ UNCHANGED <<table, nextId, loaded>>

-------------------------------------------------------------------------------
Work(p) ==
  \/ Start(p) \/ FillOperStats(p) \/ CountRecord(p) \/ StartTransaction(p)
  \/ UpdateRow(p) \/ InsertRow(p) \/ CommitTransaction(p)

\* Nothing left to load: the scripts find no new file.
Finished == loaded = Files /\ UNCHANGED vars

Next == Victim \/ Finished \/ \E p \in Parsers : Work(p) \/ Abort(p)

Spec == Init /\ [][Next]_vars

\* The scripts keep starting parsers, a parser goes on unless it waits for a
\* row, InnoDB detects deadlocks, and its lock queues are first come, first
\* served: a statement that waits again and again gets its turn.
FairSpec == Spec /\ WF_vars(Victim) /\ \A p \in Parsers : SF_vars(Work(p))

-------------------------------------------------------------------------------
(* Properties *)

RowsOf(k) == {r \in DOMAIN table : table[r].key = k}

\* The records that a key's rows count: one pair for each.
Units(k) == UNION {{r} \X (1 .. table[r].cnt) : r \in RowsOf(k)}

\* The counted records of a file that have a key.
CountedIn(f, k) == {i \in DOMAIN Records[f] : Records[f][i].key = k /\ Records[f][i].counted}

\* Whatever the parsers interleave, read late or roll back, a key's counts add
\* up to the records of the files that processed_files lists, and a file's
\* records all count in the step that lists it.
Ledger == INSTANCE StatLedger WITH
  posted <- loaded,
  total <- [k \in Keys |-> Cardinality(Units(k))],
  Holds <- [f \in Files |-> [k \in Keys |-> Cardinality(CountedIn(f, k))]]

LedgerSpec == Ledger!Spec

\* Parsers that race may each insert a row for a new key, but a key never gets
\* more rows than there are parsers: one that starts later finds a row and
\* updates it.
DuplicatesBounded ==
  \A k \in Keys : Cardinality(RowsOf(k)) <= Cardinality(Parsers)

\* Every file that a parser has to itself gets loaded in the end: row locks,
\* deadlocks and failures delay parsers and do not stop them.
AllPosted == <>(loaded = Files)

\* A statistic that exists is updated, only one that does not is inserted.
OneRowPerKey == \A k \in Keys : Cardinality(RowsOf(k)) <= 1
===============================================================================
