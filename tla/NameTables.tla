------------------------------ MODULE NameTables ------------------------------
(***************************************************************************)
(* How parsers that run at the same time keep the tables operators and     *)
(* hubs.  Each reads both tables into local vectors, then goes through the *)
(* four names of every record: an empty name is NULL, a known one has its  *)
(* id, an unknown one is inserted in a transaction of its own, whose       *)
(* COMMIT is not checked, and added to the vector.  The CDRs are stored    *)
(* with these ids; foreign_key_checks is 0.                                *)
(*                                                                         *)
(* Storing a file is one step here (module CdrParser says why), and so is  *)
(* giving up on one.                                                       *)
(***************************************************************************)
EXTENDS Integers, Sequences, FiniteSets

CONSTANTS
  Parsers,
  Files,
  NoFile,
  Names,
  NoName,       \* the empty field
  KindOf,       \* [Names -> Kinds]: the table a name belongs to
  Fields,       \* [Files -> Seq(Names \union {NoName})], see below
  MaxAborts,    \* how many loads may fail
  MaxLost       \* how many commits of a name may be lost

Kinds == {"operators", "hubs"}

\* Fields[f] lists, record after record, DST_OPER, SRC_OPER, DST_HUB, SRC_HUB.
KindAt(i) == IF (i - 1) % 4 < 2 THEN "operators" ELSE "hubs"

ASSUME NamesAssumption ==
  /\ NoFile \notin Files
  /\ NoName \notin Names
  /\ KindOf \in [Names -> Kinds]
  /\ Fields \in [Files -> Seq(Names \union {NoName})]
  /\ \A f \in Files : \A i \in DOMAIN Fields[f] :
       Fields[f][i] # NoName => KindOf[Fields[f][i]] = KindAt(i)
  /\ MaxAborts \in Nat
  /\ MaxLost \in Nat

VARIABLES
  pc, file,     \* per parser: next step, its file
  seen,         \* per parser: the tables as its read view shows them
  known,        \* per parser: the local vectors, name to id
  ids,          \* per parser: ids of the fields visited so far
  table,        \* committed rows: [Kinds -> [id -> name]]
  nextId,       \* the tables' AUTO_INCREMENT counters
  cdrs,         \* stored files with their ids
  aborts, lost  \* loads that failed, commits of a name that were lost

vars == <<pc, file, seen, known, ids, table, nextId, cdrs, aborts, lost>>

NULL == -1

Cdr == [file : Files, ids : Seq(Nat \union {NULL})]

\* Types; every id, in a table or in a vector, comes from its counter.
TypeOK ==
  /\ pc \in [Parsers -> {"idle", "operators", "hubs", "names", "commit"}]
  /\ file \in [Parsers -> Files \union {NoFile}]
  /\ ids \in [Parsers -> Seq(Nat \union {NULL})]
  /\ nextId \in [Kinds -> Nat]
  /\ \A k \in Kinds : \A i \in DOMAIN table[k] :
       i \in 1 .. nextId[k] - 1 /\ KindOf[table[k][i]] = k
  /\ \A p \in Parsers : \A n \in DOMAIN known[p] :
       known[p][n] \in 1 .. nextId[KindOf[n]] - 1
  /\ cdrs \subseteq Cdr
  /\ aborts \in 0 .. MaxAborts /\ lost \in 0 .. MaxLost

NoRows == [i \in {} |-> NoName]
NoTables == [k \in Kinds |-> NoRows]

Init ==
  /\ pc = [p \in Parsers |-> "idle"]
  /\ file = [p \in Parsers |-> NoFile]
  /\ seen = [p \in Parsers |-> NoTables]
  /\ known = [p \in Parsers |-> NoRows]
  /\ ids = [p \in Parsers |-> <<>>]
  /\ table = NoTables
  /\ nextId = [k \in Kinds |-> 1]
  /\ cdrs = {}
  /\ aborts = 0 /\ lost = 0

Goto(p, step) == pc' = [pc EXCEPT ![p] = step]

Extend(f, x, y) == [z \in DOMAIN f \union {x} |-> IF z = x THEN y ELSE f[z]]

\* The process ends, with or without having stored its file.
End(p) ==
  /\ Goto(p, "idle")
  /\ file' = [file EXCEPT ![p] = NoFile]
  /\ seen' = [seen EXCEPT ![p] = NoTables]
  /\ known' = [known EXCEPT ![p] = NoRows]
  /\ ids' = [ids EXCEPT ![p] = <<>>]

Stored == {c.file : c \in cdrs}

-------------------------------------------------------------------------------
\* FileWasProcessed opens the session's read view; its answer and the semaphore
\* are the guard (module CdrParser).
Start(p) ==
  /\ pc[p] = "idle"
  /\ \E f \in Files \ Stored :
       /\ \A q \in Parsers : file[q] # f
       /\ file' = [file EXCEPT ![p] = f]
  /\ seen' = [seen EXCEPT ![p] = table]
  /\ Goto(p, "operators")
  /\ UNCHANGED <<known, ids, table, nextId, cdrs, aborts, lost>>

\* What a search finds in the vector that the rows were read into, in whatever
\* order they came: of a name that has several rows, one.
Vectors(rows) ==
  LET names == {rows[i] : i \in DOMAIN rows}
  IN  {v \in [names -> DOMAIN rows] : \A n \in names : rows[v[n]] = n}

\* A client that lost its connection meanwhile may have a later read view.
Fill(p, kind, next) ==
  /\ pc[p] = kind
  /\ \E rows \in {seen[p][kind], table[kind]} : \E v \in Vectors(rows) :
       known' = [known EXCEPT ![p] =
         [n \in DOMAIN @ \union DOMAIN v |-> IF n \in DOMAIN v THEN v[n] ELSE @[n]]]
  /\ Goto(p, next)
  /\ UNCHANGED <<file, seen, ids, table, nextId, cdrs, aborts, lost>>

\* Mutant: the vector is not filled from the table.
FillNothing(p) ==
  /\ pc[p] = "operators"
  /\ Goto(p, "hubs")
  /\ UNCHANGED <<file, seen, known, ids, table, nextId, cdrs, aborts, lost>>

FillOperators(p) == Fill(p, "operators", "hubs")

FillHubs(p) == Fill(p, "hubs", "names")

\* The field that the loop over the records is at.
Name(p) == Fields[file[p]][Len(ids[p]) + 1]

More(p) == pc[p] = "names" /\ Len(ids[p]) < Len(Fields[file[p]])

\* An empty name is found, as NULL, and so is a name of the vector.
Check(p, kind) ==
  /\ More(p)
  /\ KindAt(Len(ids[p]) + 1) = kind
  /\ \/ /\ Name(p) = NoName
        /\ ids' = [ids EXCEPT ![p] = Append(@, NULL)]
     \/ /\ Name(p) \in DOMAIN known[p]
        /\ ids' = [ids EXCEPT ![p] = Append(@, known[p][Name(p)])]
  /\ UNCHANGED <<pc, file, seen, known, table, nextId, cdrs, aborts, lost>>

Check_Oper(p) == Check(p, "operators")

Check_Hub(p) == Check(p, "hubs")

\* Mutant: the id is not taken from the counter for good.
SaveReusingId(p, kind) ==
  /\ More(p)
  /\ KindAt(Len(ids[p]) + 1) = kind
  /\ Name(p) \notin DOMAIN known[p] \union {NoName}
  /\ ids' = [ids EXCEPT ![p] = Append(@, nextId[kind])]
  /\ Goto(p, "commit")
  /\ UNCHANGED <<file, seen, known, table, nextId, cdrs, aborts, lost>>

\* The INSERT takes an id; the row is not committed yet.
Save(p, kind) ==
  /\ More(p)
  /\ KindAt(Len(ids[p]) + 1) = kind
  /\ Name(p) \notin DOMAIN known[p] \union {NoName}
  /\ nextId' = [nextId EXCEPT ![kind] = @ + 1]
  /\ ids' = [ids EXCEPT ![p] = Append(@, nextId[kind])]
  /\ Goto(p, "commit")
  /\ UNCHANGED <<file, seen, known, table, cdrs, aborts, lost>>

SaveOperator(p) == Save(p, "operators")

SaveHub(p) == Save(p, "hubs")

\* The name and the id of the row that waits for its commit.
NewName(p) == Fields[file[p]][Len(ids[p])]
NewId(p) == ids[p][Len(ids[p])]

\* Mutant: the new name is not added to the local vector.
AddNothing(p) == UNCHANGED known

\* AddOperator, AddHub
Add(p) == known' = [known EXCEPT ![p] = Extend(@, NewName(p), NewId(p))]

\* Mutant: mysql_insert_id is asked after COMMIT, when it is 0.
CommitNameFirst(p) ==
  /\ pc[p] = "commit"
  /\ table' = [table EXCEPT ![KindOf[NewName(p)]] = Extend(@, NewId(p), NewName(p))]
  /\ ids' = [ids EXCEPT ![p][Len(ids[p])] = 0]
  /\ Add(p)
  /\ Goto(p, "names")
  /\ UNCHANGED <<file, seen, nextId, cdrs, aborts, lost>>

\* mysql_commit, answered or not.
CommitName(p) ==
  /\ pc[p] = "commit"
  /\ table' = [table EXCEPT ![KindOf[NewName(p)]] = Extend(@, NewId(p), NewName(p))]
  /\ Add(p)
  /\ Goto(p, "names")
  /\ UNCHANGED <<file, seen, ids, nextId, cdrs, aborts, lost>>

\* The connection is gone and the server rolls back.  Nobody looks at the
\* result; the next query reconnects.
LoseCommit(p) ==
  /\ pc[p] = "commit"
  /\ lost < MaxLost
  /\ lost' = lost + 1
  /\ Add(p)
  /\ Goto(p, "names")
  /\ UNCHANGED <<file, seen, ids, table, nextId, cdrs, aborts>>

\* The transaction that stores the file.
Store(p) ==
  /\ pc[p] = "names" /\ ~More(p)
  /\ cdrs' = cdrs \union {[file |-> file[p], ids |-> ids[p]]}
  /\ End(p)
  /\ UNCHANGED <<table, nextId, aborts, lost>>

\* A query fails, a field does not convert, a signal, a kill: what was not
\* committed is gone, the names that were stay.
Abort(p) ==
  /\ pc[p] # "idle"
  /\ aborts < MaxAborts
  /\ aborts' = aborts + 1
  /\ End(p)
  /\ UNCHANGED <<table, nextId, cdrs, lost>>

-------------------------------------------------------------------------------
Work(p) ==
  \/ Start(p) \/ FillOperators(p) \/ FillHubs(p)
  \/ Check_Oper(p) \/ Check_Hub(p) \/ SaveOperator(p) \/ SaveHub(p)
  \/ CommitName(p) \/ LoseCommit(p) \/ Store(p) \/ Abort(p)

\* Nothing left to load: the scripts find no new file.
Finished == Stored = Files /\ UNCHANGED vars

Next == Finished \/ \E p \in Parsers : Work(p)

Spec == Init /\ [][Next]_vars

-------------------------------------------------------------------------------
(* Properties *)

\* The stored fields, as [name, id] pairs; NULL stands for the empty name only.
StoredFields ==
  UNION {{[name |-> Fields[c.file][i], id |-> c.ids[i]] : i \in DOMAIN c.ids} :
           c \in cdrs}

Row(r) == r.id \in DOMAIN table[KindOf[r.name]]

Dangling == {r \in StoredFields : r.name # NoName /\ ~Row(r)}

\* A stored CDR refers to rows with the names that its record holds, whatever
\* the parsers insert at the same time and whichever loads fail; each commit
\* of a name that is lost costs at most one name its id.
RefsAreRows ==
  /\ \A r \in StoredFields :
       IF r.name = NoName THEN r.id = NULL
       ELSE Row(r) => table[KindOf[r.name]][r.id] = r.name
  /\ Cardinality(Dangling) <= lost

\* One file has one id per name, from the table, inserted or lost.
OneIdPerFile ==
  \A c \in cdrs : \A i, j \in DOMAIN c.ids :
    Fields[c.file][i] = Fields[c.file][j] => c.ids[i] = c.ids[j]

\* Parsers that race may each insert a new name, but a name never gets more
\* rows than there are parsers: one that starts later finds a row.
RowsBounded ==
  \A n \in Names :
    Cardinality({i \in DOMAIN table[KindOf[n]] : table[KindOf[n]][i] = n})
      <= Cardinality(Parsers)

\* The operators and hubs of a stored CDR are in the database: main saves them
\* there before it stores the CDRs.
NamesSaved == Dangling = {}
===============================================================================
