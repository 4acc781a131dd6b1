---------------------------- MODULE OperStatsProofs ----------------------------
(***************************************************************************)
(* What OperStats keeps right for any number of parsers, files, keys and   *)
(* records, and however many loads fail or are rolled back.                *)
(***************************************************************************)
EXTENDS OperStats, FiniteSetTheorems, SequenceTheorems, TLAPS

-------------------------------------------------------------------------------
(* The vector of statistics *)

NewEntry(key) == [row |-> 0, from_db |-> FALSE, key |-> key, diff |-> 1]

SameButDiffs(es, new) ==
  /\ Len(new) = Len(es)
  /\ \A i \in 1 .. Len(es) :
       new[i].row = es[i].row /\ new[i].key = es[i].key /\ new[i].from_db = es[i].from_db

SameButIds(es, new) ==
  /\ Len(new) = Len(es)
  /\ \A i \in 1 .. Len(es) :
       new[i].diff = es[i].diff /\ new[i].key = es[i].key /\ new[i].from_db = es[i].from_db

\* Counting a record either appends an entry for a key that has none, or leaves
\* everything of the vector but differences.
LEMMA Counting ==
  ASSUME NEW es \in Seq(Entry), NEW key \in Keys
  PROVE  /\ AddFileOperStat(es, key) \in Seq(Entry)
         /\ \/ /\ AddFileOperStat(es, key) = Append(es, NewEntry(key))
               /\ \A i \in 1 .. Len(es) : es[i].key # key
            \/ SameButDiffs(es, AddFileOperStat(es, key))
<1> DEFINE hits == {i \in DOMAIN es : es[i].key = key}
           first == CHOOSE i \in hits : \A j \in hits : i <= j
           counted == [es EXCEPT ![first].diff = @ + 1]
<1>1. DOMAIN es = 1 .. Len(es) /\ \A i \in 1 .. Len(es) : es[i] \in Entry
  BY LenProperties, ElementOfSeq
<1>2. CASE hits = {}
  <2>1. AddFileOperStat(es, key) = Append(es, NewEntry(key))
    BY <1>2 DEF AddFileOperStat, NewEntry
  <2>2. NewEntry(key) \in Entry
    BY DEF NewEntry, Entry
  <2> QED  BY <1>1, <1>2, <2>1, <2>2, AppendProperties
<1>3. CASE hits # {}
  <2>1. AddFileOperStat(es, key) = counted
    BY <1>3 DEF AddFileOperStat
  <2>2. CASE first \in 1 .. Len(es)
    <3> DEFINE more == [es[first] EXCEPT !.diff = @ + 1]
    <3> HIDE DEF first
    <3>1. /\ more \in Entry
          /\ more.row = es[first].row /\ more.key = es[first].key
          /\ more.from_db = es[first].from_db
      BY <1>1, <2>2 DEF Entry
    <3>2. counted = [es EXCEPT ![first] = more]
      OBVIOUS
    <3> HIDE DEF more
    <3>3. /\ counted \in Seq(Entry) /\ Len(counted) = Len(es)
          /\ \A j \in 1 .. Len(es) : counted[j] = IF j = first THEN more ELSE es[j]
      BY <2>2, <3>1, <3>2, ExceptSeq
    <3> HIDE DEF counted
    <3> QED  BY <2>1, <3>1, <3>3 DEF SameButDiffs
  <2>3. CASE first \notin 1 .. Len(es)
    <3> HIDE DEF first
    <3>1. counted = es
      BY <1>1, <2>3
    <3> HIDE DEF counted
    <3> QED  BY <2>1, <3>1 DEF SameButDiffs
  <2> QED  BY <2>2, <2>3
<1> QED  BY <1>2, <1>3

\* SetToSeqs lists a finite set, whatever the order.
LEMMA Listing ==
  ASSUME NEW S, IsFiniteSet(S), NEW ids \in SetToSeqs(S)
  PROVE  /\ Cardinality(S) \in Nat
         /\ ids \in [1 .. Cardinality(S) -> S]
         /\ \A x \in S : \E i \in DOMAIN ids : ids[i] = x
         /\ \A i, j \in DOMAIN ids : i # j => ids[i] # ids[j]
<1> DEFINE D == 1 .. Cardinality(S)
           image == {ids[i] : i \in D}
<1>1. ids \in [D -> S] /\ \A i, j \in D : i # j => ids[i] # ids[j]
  BY DEF SetToSeqs
<1>2. Cardinality(S) \in Nat
  BY FS_CardinalityType
<1>3. image \in SUBSET S
  BY <1>1
<1>4. ids \in Bijection(D, image)
  BY <1>1 DEF Bijection, Injection, Surjection, IsInjective
<1>5. Cardinality(image) = Cardinality(S)
  <2>1. ExistsBijection(D, image)
    BY <1>4 DEF ExistsBijection
  <2> HIDE DEF image
  <2> QED  BY <1>2, <2>1, FS_CountingElements
<1>6. image = S
  <2> HIDE DEF image
  <2> QED  BY <1>3, <1>5, FS_Subset
<1> QED  BY <1>1, <1>2, <1>6

-------------------------------------------------------------------------------
(* Types *)

LEMMA RecordsType ==
  ASSUME NEW f \in Files
  PROVE  /\ Len(Records[f]) \in Nat
         /\ \A i \in 1 .. Len(Records[f]) :
              Records[f][i].key \in Keys /\ DayOf[Records[f][i].key] \in DatesInFile(f)
<1>1. Records[f] \in Seq([key : Keys, counted : BOOLEAN])
  BY StatsAssumption
<1>2. DOMAIN Records[f] = 1 .. Len(Records[f]) /\ Len(Records[f]) \in Nat
  BY <1>1, LenProperties
<1>3. \A i \in 1 .. Len(Records[f]) : Records[f][i] \in [key : Keys, counted : BOOLEAN]
  BY <1>1, ElementOfSeq
<1> QED  BY <1>2, <1>3 DEF DatesInFile

\* A read view shows rows that are still there: nobody deletes one or changes
\* its key.
ViewOK(p) ==
  \A r \in DOMAIN seen[p] : r \in DOMAIN table /\ table[r].key = seen[p][r].key

\* An entry is of one of the file's dates.  One from the database has the key of
\* its row; a new one gets an id when it is written, and its key only once.
EntryOK(p, i) ==
  /\ DayOf[stats[p][i].key] \in DatesInFile(file[p])
  /\ stats[p][i].from_db =>
       stats[p][i].row \in DOMAIN table /\ table[stats[p][i].row].key = stats[p][i].key
  /\ ~stats[p][i].from_db =>
       /\ pc[p] = "write" /\ i < at[p] /\ stats[p][i].diff > 0 =>
            stats[p][i].row \in 1 .. nextId - 1
       /\ \A j \in 1 .. Len(stats[p]) : j # i => stats[p][j].key # stats[p][i].key

EntriesOK(p) ==
  pc[p] \in {"count", "write"} => \A i \in 1 .. Len(stats[p]) : EntryOK(p, i)

ParserOK(p) ==
  /\ pc[p] # "idle" => file[p] \in Files
  /\ ViewOK(p)
  /\ EntriesOK(p)

Ind == TypeOK /\ DOMAIN seen = Parsers /\ nextId >= 1 /\ \A p \in Parsers : ParserOK(p)

LEMMA EntryType ==
  ASSUME TypeOK, NEW p \in Parsers
  PROVE  /\ stats[p] \in Seq(Entry) /\ Len(stats[p]) \in Nat
         /\ DOMAIN stats[p] = 1 .. Len(stats[p])
         /\ \A i \in 1 .. Len(stats[p]) : stats[p][i] \in Entry
<1>1. stats[p] \in Seq(Entry)
  BY DEF TypeOK
<1> QED  BY <1>1, LenProperties, ElementOfSeq

LEMMA InitInd == Init => Ind
<1> SUFFICES ASSUME Init PROVE Ind
  OBVIOUS
<1>1. TypeOK
  <2>1. <<>> \in Seq(Entry)
    BY EmptySeq
  <2> QED  BY <2>1 DEF Init, TypeOK, NoRows
<1>2. ASSUME NEW p \in Parsers PROVE ParserOK(p)
  BY <1>2 DEF Init, ParserOK, ViewOK, EntriesOK, NoRows
<1> QED  BY <1>1, <1>2 DEF Ind, Init

\* What a step leaves of the table and of a parser that does not take it.
TableGrows ==
  /\ nextId' >= nextId
  /\ \A r \in DOMAIN table : r \in DOMAIN table' /\ table'[r].key = table[r].key

Unmoved(q) ==
  /\ pc'[q] = pc[q] /\ file'[q] = file[q] /\ seen'[q] = seen[q]
  /\ stats'[q] = stats[q] /\ at'[q] = at[q]

LEMMA UnmovedOK ==
  ASSUME Ind, NEW q \in Parsers, Unmoved(q), TableGrows, nextId' \in Nat
  PROVE  ParserOK(q)'
<1>1. ParserOK(q) /\ nextId \in Nat
  BY DEF Ind, TypeOK
<1>2. (pc[q] # "idle" => file[q] \in Files)' /\ ViewOK(q)'
  BY <1>1 DEF Unmoved, TableGrows, ParserOK, ViewOK
<1>3. ASSUME (pc[q] \in {"count", "write"})', NEW i \in 1 .. Len(stats[q])
      PROVE  EntryOK(q, i)'
  <2>1. EntryOK(q, i) /\ stats[q][i] \in Entry
    BY <1>1, <1>3, EntryType DEF Unmoved, ParserOK, EntriesOK, Ind
  <2>2. stats[q][i].row \in Nat
    BY <2>1 DEF Entry
  <2> QED  BY <1>1, <2>1, <2>2 DEF Unmoved, TableGrows, EntryOK
<1>4. EntriesOK(q)'
  BY <1>3 DEF EntriesOK, Unmoved
<1> QED  BY <1>2, <1>4 DEF ParserOK

\* A parser that has ended.
LEMMA EndStep ==
  ASSUME Ind, NEW p \in Parsers, End(p)
  PROVE  /\ pc' \in [Parsers -> {"idle", "stats", "count", "write"}]
         /\ file' \in [Parsers -> Files \union {NoFile}]
         /\ stats' \in [Parsers -> Seq(Entry)]
         /\ at' \in [Parsers -> Nat \ {0}]
         /\ \A q \in Parsers : pc'[q] = "write" => at'[q] \in 1 .. Len(stats'[q]) + 1
         /\ pc'[p] = "idle" /\ ParserOK(p)' /\ DOMAIN seen' = Parsers
         /\ \A q \in Parsers : q # p => Unmoved(q)
<1>1. <<>> \in Seq(Entry)
  BY EmptySeq
<1>2. /\ pc'[p] = "idle" /\ file'[p] = NoFile /\ seen'[p] = NoRows /\ DOMAIN seen' = Parsers
      /\ \A q \in Parsers : q # p => Unmoved(q)
  BY DEF End, Ind, TypeOK, Unmoved
<1>3. ParserOK(p)'
  BY <1>2 DEF ParserOK, ViewOK, EntriesOK, NoRows
<1>4. \A q \in Parsers : pc'[q] = "write" => at'[q] \in 1 .. Len(stats'[q]) + 1
  BY <1>2 DEF Ind, TypeOK, Unmoved
<1> HIDE DEF Ind
<1>5. /\ pc' \in [Parsers -> {"idle", "stats", "count", "write"}]
      /\ file' \in [Parsers -> Files \union {NoFile}]
      /\ stats' \in [Parsers -> Seq(Entry)]
      /\ at' \in [Parsers -> Nat \ {0}]
  BY <1>1 DEF End, Ind, TypeOK
<1> QED  BY <1>2, <1>3, <1>4, <1>5

GoodStep(p) ==
  /\ TypeOK' /\ DOMAIN seen' = Parsers /\ ParserOK(p)'
  /\ TableGrows /\ \A q \in Parsers : q # p => Unmoved(q)

LEMMA GoodStepInd ==
  ASSUME Ind, NEW p \in Parsers, GoodStep(p)
  PROVE  Ind'
<1>1. nextId' \in Nat /\ nextId' >= 1
  BY DEF GoodStep, TableGrows, TypeOK, Ind
<1>2. ASSUME NEW q \in Parsers PROVE ParserOK(q)'
  BY <1>1, UnmovedOK DEF GoodStep
<1> QED  BY <1>1, <1>2 DEF Ind, GoodStep

LEMMA StartGood ==
  ASSUME Ind, NEW p \in Parsers, Start(p)
  PROVE  GoodStep(p)
<1>1. /\ pc'[p] = "stats" /\ file'[p] \in Files /\ seen'[p] = table
      /\ UNCHANGED <<stats, at, table, nextId, loaded>>
      /\ DOMAIN seen' = Parsers
      /\ \A q \in Parsers : q # p => Unmoved(q)
  BY DEF Start, Ind, TypeOK, Unmoved
<1>2. ParserOK(p)'
  BY <1>1 DEF ParserOK, ViewOK, EntriesOK
<1>3. TypeOK'
  <2>1. /\ pc' \in [Parsers -> {"idle", "stats", "count", "write"}]
        /\ file' \in [Parsers -> Files \union {NoFile}]
    BY DEF Start, Ind, TypeOK
  <2>2. \A q \in Parsers : pc'[q] = "write" => at'[q] \in 1 .. Len(stats'[q]) + 1
    BY <1>1 DEF Ind, TypeOK, Unmoved
  <2> QED  BY <1>1, <2>1, <2>2 DEF Ind, TypeOK
<1>4. TableGrows
  BY <1>1 DEF TableGrows, Ind, TypeOK
<1> QED  BY <1>1, <1>2, <1>3, <1>4 DEF GoodStep

\* What FillOperStats reads: rows that are there, all those of the file's dates,
\* each once and with nothing to add yet.
LEMMA FillStep ==
  ASSUME Ind, NEW p \in Parsers, FillOperStats(p)
  PROVE  /\ pc[p] = "stats" /\ pc'[p] = "count"
         /\ stats'[p] \in Seq(Entry)
         /\ \A i \in 1 .. Len(stats'[p]) :
              /\ stats'[p][i].from_db /\ stats'[p][i].row \in DOMAIN table
              /\ table[stats'[p][i].row].key = stats'[p][i].key
              /\ DayOf[stats'[p][i].key] \in DatesInFile(file[p])
              /\ stats'[p][i].diff = 0
              /\ \A j \in 1 .. Len(stats'[p]) : stats'[p][j].row = stats'[p][i].row => j = i
         /\ \A r \in DOMAIN seen[p] :
              DayOf[seen[p][r].key] \in DatesInFile(file[p]) =>
                \E i \in 1 .. Len(stats'[p]) : stats'[p][i].key = seen[p][r].key
<1>1. ParserOK(p) /\ TypeOK
  BY DEF Ind
<1>2. PICK rows \in {seen[p], table} : \E ids \in SetToSeqs(Selected(rows, file[p])) :
        stats' = [stats EXCEPT ![p] = [i \in DOMAIN ids |->
          [row |-> ids[i], from_db |-> TRUE, key |-> rows[ids[i]].key, diff |-> 0]]]
  BY DEF FillOperStats
<1>3. PICK ids \in SetToSeqs(Selected(rows, file[p])) :
        stats' = [stats EXCEPT ![p] = [i \in DOMAIN ids |->
          [row |-> ids[i], from_db |-> TRUE, key |-> rows[ids[i]].key, diff |-> 0]]]
  BY <1>2
<1> DEFINE S == Selected(rows, file[p])
           n == Cardinality(S)
           read == [i \in DOMAIN ids |->
             [row |-> ids[i], from_db |-> TRUE, key |-> rows[ids[i]].key, diff |-> 0]]
<1>4. \A r \in DOMAIN rows :
        r \in DOMAIN table /\ rows[r].key = table[r].key /\ rows[r].key \in Keys
  BY <1>1 DEF TypeOK, ParserOK, ViewOK
<1>5. S \in SUBSET DOMAIN table
  BY <1>4 DEF Selected
<1>6. IsFiniteSet(S)
  <2>1. nextId - 1 \in Int /\ S \in SUBSET (1 .. nextId - 1)
    BY <1>1, <1>5 DEF TypeOK
  <2>2. IsFiniteSet(1 .. nextId - 1)
    BY <2>1, FS_Interval
  <2> HIDE DEF S
  <2> QED  BY <2>1, <2>2, FS_Subset
<1>7. /\ n \in Nat /\ ids \in [1 .. n -> S]
      /\ \A x \in S : \E i \in DOMAIN ids : ids[i] = x
      /\ \A i, j \in 1 .. n : i # j => ids[i] # ids[j]
  <2>1. ids \in SetToSeqs(S)
    OBVIOUS
  <2> HIDE DEF S
  <2> QED  BY <1>6, <2>1, Listing
<1>8. /\ pc[p] = "stats" /\ pc'[p] = "count" /\ stats'[p] = read
  BY <1>1, <1>3 DEF FillOperStats, TypeOK
<1>9. \A r \in S : r \in DOMAIN rows /\ DayOf[rows[r].key] \in DatesInFile(file[p])
  BY DEF Selected
<1>10. \A i \in 1 .. n :
         /\ read[i].from_db /\ read[i].row = ids[i] /\ ids[i] \in S /\ read[i].diff = 0
         /\ read[i].key = rows[ids[i]].key /\ read[i] \in Entry
  <2>1. \A i \in 1 .. n : ids[i] \in DOMAIN table /\ rows[ids[i]].key \in Keys /\ ids[i] \in S
    BY <1>4, <1>5, <1>7, <1>9
  <2>2. \A r \in DOMAIN table : r \in Nat
    BY <1>1 DEF TypeOK
  <2> HIDE DEF S
  <2> QED  BY <1>7, <2>1, <2>2 DEF Entry
<1>11. read \in Seq(Entry) /\ Len(read) = n
  <2> HIDE DEF S, n
  <2>1. DOMAIN read = 1 .. n /\ \A i \in 1 .. n : read[i] \in Entry
    BY <1>7, <1>10
  <2>2. read \in [1 .. n -> Entry]
    BY <1>7, <2>1
  <2> HIDE DEF read
  <2>3. read \in Seq(Entry)
    BY <1>7, <2>2
  <2> QED  BY <1>7, <2>1, <2>3, LenProperties
<1>12. ASSUME NEW r \in DOMAIN seen[p], DayOf[seen[p][r].key] \in DatesInFile(file[p])
       PROVE  \E i \in 1 .. n : read[i].key = seen[p][r].key
  <2>1. r \in DOMAIN rows /\ rows[r].key = seen[p][r].key
    BY <1>1, <1>12 DEF ParserOK, ViewOK
  <2>2. r \in S
    BY <1>12, <2>1 DEF Selected
  <2> HIDE DEF S
  <2> QED  BY <1>7, <1>10, <2>1, <2>2
<1>13. \A i, j \in 1 .. n : read[j].row = read[i].row => j = i
  <2> HIDE DEF S, n
  <2> QED  BY <1>7, <1>10
<1> HIDE DEF read, S, n
<1> QED  BY <1>4, <1>8, <1>9, <1>10, <1>11, <1>12, <1>13

LEMMA FillGood ==
  ASSUME Ind, NEW p \in Parsers, FillOperStats(p)
  PROVE  GoodStep(p)
<1>1. /\ pc[p] = "stats" /\ pc'[p] = "count" /\ file'[p] = file[p] /\ seen'[p] = NoRows
      /\ UNCHANGED <<file, at, table, nextId, loaded>>
      /\ DOMAIN seen' = Parsers
      /\ \A q \in Parsers : q # p => Unmoved(q)
  BY DEF FillOperStats, Ind, TypeOK, Unmoved
<1>2. ParserOK(p)'
  <2>1. file[p] \in Files
    BY <1>1 DEF Ind, ParserOK
  <2>2. \A i \in 1 .. Len(stats'[p]) : EntryOK(p, i)'
    BY <1>1, FillStep DEF EntryOK
  <2> QED  BY <1>1, <2>1, <2>2 DEF ParserOK, ViewOK, EntriesOK, NoRows
<1>3. TypeOK'
  <2>1. /\ pc' \in [Parsers -> {"idle", "stats", "count", "write"}]
        /\ stats' \in [Parsers -> Seq(Entry)]
    <3>1. stats' = [stats EXCEPT ![p] = stats'[p]]
      BY DEF FillOperStats, Ind, TypeOK
    <3>2. stats'[p] \in Seq(Entry)
      BY FillStep
    <3> QED  BY <3>1, <3>2 DEF FillOperStats, Ind, TypeOK
  <2>2. \A q \in Parsers : pc'[q] = "write" => at'[q] \in 1 .. Len(stats'[q]) + 1
    BY <1>1 DEF Ind, TypeOK, Unmoved
  <2> QED  BY <1>1, <2>1, <2>2 DEF Ind, TypeOK
<1>4. TableGrows
  BY <1>1 DEF TableGrows, Ind, TypeOK
<1> QED  BY <1>1, <1>2, <1>3, <1>4 DEF GoodStep

\* What one turn of the counting loop leaves of the vector.
LEMMA CountStep ==
  ASSUME Ind, NEW p \in Parsers, CountRecord(p)
  PROVE  /\ stats'[p] \in Seq(Entry)
         /\ \/ stats'[p] = stats[p]
            \/ SameButDiffs(stats[p], stats'[p])
            \/ \E key \in Keys :
                 /\ stats'[p] = Append(stats[p], NewEntry(key))
                 /\ \A i \in 1 .. Len(stats[p]) : stats[p][i].key # key
                 /\ DayOf[key] \in DatesInFile(file[p])
<1> DEFINE record == Records[file[p]][at[p]]
<1>1. /\ pc[p] = "count" /\ file[p] \in Files
      /\ at[p] \in Nat \ {0} /\ at[p] <= Len(Records[file[p]])
      /\ stats[p] \in Seq(Entry)
  BY DEF CountRecord, Ind, TypeOK, ParserOK
<1>2. record.key \in Keys /\ DayOf[record.key] \in DatesInFile(file[p])
  <2>1. at[p] \in 1 .. Len(Records[file[p]])
    BY <1>1, RecordsType
  <2> QED  BY <1>1, <2>1, RecordsType
<1>3. \/ stats'[p] = stats[p]
      \/ stats'[p] = AddFileOperStat(stats[p], record.key)
  BY DEF CountRecord, Ind, TypeOK
<1> HIDE DEF record
<1> QED  BY <1>1, <1>2, <1>3, Counting

LEMMA CountGood ==
  ASSUME Ind, NEW p \in Parsers, CountRecord(p)
  PROVE  GoodStep(p)
<1>1. /\ pc[p] = "count" /\ UNCHANGED <<pc, file, seen, table, nextId, loaded>>
      /\ \A q \in Parsers : q # p => Unmoved(q)
  BY DEF CountRecord, Advance, Ind, TypeOK, Unmoved
<1>2. TypeOK'
  <2>1. stats' \in [Parsers -> Seq(Entry)]
    <3>1. stats' = [stats EXCEPT ![p] = stats'[p]]
      BY DEF CountRecord, Ind, TypeOK
    <3>2. stats'[p] \in Seq(Entry)
      BY CountStep
    <3> QED  BY <3>1, <3>2 DEF Ind, TypeOK
  <2>2. at' \in [Parsers -> Nat \ {0}]
    BY DEF CountRecord, Advance, Ind, TypeOK
  <2>3. \A q \in Parsers : pc'[q] = "write" => at'[q] \in 1 .. Len(stats'[q]) + 1
    BY <1>1 DEF Ind, TypeOK, Unmoved
  <2> QED  BY <1>1, <2>1, <2>2, <2>3 DEF Ind, TypeOK
<1>3. EntriesOK(p)'
  <2> SUFFICES ASSUME NEW i \in 1 .. Len(stats'[p]) PROVE EntryOK(p, i)'
    BY DEF EntriesOK
  <2>1. /\ Len(stats[p]) \in Nat /\ stats[p] \in Seq(Entry)
        /\ \A j \in 1 .. Len(stats[p]) : EntryOK(p, j)
    BY <1>1, EntryType DEF Ind, ParserOK, EntriesOK
  <2>2. CASE stats'[p] = stats[p] \/ SameButDiffs(stats[p], stats'[p])
    BY <1>1, <2>1, <2>2 DEF SameButDiffs, EntryOK
  <2>3. ASSUME NEW key \in Keys,
               stats'[p] = Append(stats[p], NewEntry(key)),
               \A j \in 1 .. Len(stats[p]) : stats[p][j].key # key,
               DayOf[key] \in DatesInFile(file[p])
        PROVE  EntryOK(p, i)'
    <3>1. NewEntry(key) \in Entry
      BY DEF NewEntry, Entry
    <3>2. /\ Len(stats'[p]) = Len(stats[p]) + 1
          /\ \A j \in 1 .. Len(stats[p]) : stats'[p][j] = stats[p][j]
          /\ stats'[p][Len(stats[p]) + 1] = NewEntry(key)
      BY <2>1, <2>3, <3>1, AppendProperties
    <3>3. \A j \in 1 .. Len(stats'[p]) : j \in 1 .. Len(stats[p]) \/ j = Len(stats[p]) + 1
      BY <2>1, <3>2
    <3>4. CASE i \in 1 .. Len(stats[p])
      BY <1>1, <2>1, <2>3, <3>2, <3>3, <3>4 DEF EntryOK, NewEntry
    <3>5. CASE i = Len(stats[p]) + 1
      BY <1>1, <2>1, <2>3, <3>2, <3>3, <3>5 DEF EntryOK, NewEntry
    <3> QED  BY <3>3, <3>4, <3>5
  <2> QED  BY <2>2, <2>3, CountStep
<1>4. ParserOK(p)'
  BY <1>1, <1>3 DEF Ind, ParserOK, ViewOK
<1>5. TableGrows
  BY <1>1 DEF TableGrows, Ind, TypeOK
<1> QED  BY <1>1, <1>2, <1>4, <1>5 DEF GoodStep, Ind

LEMMA StartTransactionGood ==
  ASSUME Ind, NEW p \in Parsers, StartTransaction(p)
  PROVE  GoodStep(p)
<1>1. /\ pc[p] = "count" /\ pc'[p] = "write" /\ at'[p] = 1
      /\ UNCHANGED <<file, seen, stats, table, nextId, loaded>>
      /\ \A q \in Parsers : q # p => Unmoved(q)
  BY DEF StartTransaction, Ind, TypeOK, Unmoved
<1>2. TypeOK'
  <2>1. /\ pc' \in [Parsers -> {"idle", "stats", "count", "write"}]
        /\ at' \in [Parsers -> Nat \ {0}]
    BY DEF StartTransaction, Ind, TypeOK
  <2>2. ASSUME NEW q \in Parsers, pc'[q] = "write"
        PROVE  at'[q] \in 1 .. Len(stats'[q]) + 1
    <3>1. CASE q = p
      BY <1>1, <3>1, EntryType DEF Ind
    <3>2. CASE q # p
      BY <1>1, <2>2, <3>2 DEF Ind, TypeOK, Unmoved
    <3> QED  BY <3>1, <3>2
  <2> QED  BY <1>1, <2>1, <2>2 DEF Ind, TypeOK
<1>3. ParserOK(p)'
  <2>1. Len(stats[p]) \in Nat /\ ParserOK(p)
    BY EntryType DEF Ind
  <2>2. EntriesOK(p)'
    BY <1>1, <2>1 DEF ParserOK, EntriesOK, EntryOK
  <2> QED  BY <1>1, <2>1, <2>2 DEF ParserOK, ViewOK
<1>4. TableGrows
  BY <1>1 DEF TableGrows, Ind, TypeOK
<1> QED  BY <1>1, <1>2, <1>3, <1>4 DEF GoodStep, Ind

\* The entry that the write loop comes to: those passed over have no difference.
LEMMA NextEntry ==
  ASSUME Ind, NEW p \in Parsers, NEW i \in NextDue(p)
  PROVE  /\ pc[p] = "write" /\ i \in 1 .. Len(stats[p]) /\ at[p] <= i /\ i \in Nat
         /\ stats[p][i].diff > 0
         /\ \A j \in 1 .. Len(stats[p]) :
              j < i + 1 /\ stats[p][j].diff > 0 => j < at[p] \/ j = i
<1>1. pc[p] = "write" /\ i \in Due(p) /\ \A j \in Due(p) : i <= j
  BY DEF NextDue
<1>2. at[p] \in Nat \ {0} /\ Len(stats[p]) \in Nat
  BY EntryType DEF Ind, TypeOK
<1> QED  BY <1>1, <1>2 DEF Due

LEMMA UpdateGood ==
  ASSUME Ind, NEW p \in Parsers, UpdateRow(p)
  PROVE  GoodStep(p)
<1>1. PICK i \in NextDue(p) : stats[p][i].from_db /\ at' = [at EXCEPT ![p] = i + 1]
  BY DEF UpdateRow
<1>2. /\ UNCHANGED <<pc, file, seen, stats, table, nextId, loaded>>
      /\ at'[p] = i + 1 /\ \A q \in Parsers : q # p => Unmoved(q)
  BY <1>1 DEF UpdateRow, Ind, TypeOK, Unmoved
<1>3. Len(stats[p]) \in Nat /\ ParserOK(p)
  BY EntryType DEF Ind
<1>4. TypeOK'
  <2>1. at' \in [Parsers -> Nat \ {0}]
    BY <1>1, <1>3, NextEntry DEF Ind, TypeOK
  <2>2. at'[p] \in 1 .. Len(stats'[p]) + 1
    BY <1>2, <1>3, NextEntry
  <2>3. \A q \in Parsers : pc'[q] = "write" => at'[q] \in 1 .. Len(stats'[q]) + 1
    BY <1>2, <2>2 DEF Ind, TypeOK, Unmoved
  <2> QED  BY <1>2, <2>1, <2>3 DEF Ind, TypeOK
<1>5. ASSUME NEW j \in 1 .. Len(stats'[p]) PROVE EntryOK(p, j)'
  <2>1. EntryOK(p, j)
    BY <1>1, <1>2, <1>3, <1>5, NextEntry DEF ParserOK, EntriesOK
  <2>2. j < i + 1 /\ stats[p][j].diff > 0 /\ ~stats[p][j].from_db => j < at[p]
    BY <1>1, <1>2, <1>5, NextEntry
  <2> QED  BY <1>1, <1>2, <2>1, <2>2 DEF EntryOK
<1>6. ParserOK(p)'
  BY <1>2, <1>3, <1>5 DEF ParserOK, ViewOK, EntriesOK
<1>7. TableGrows
  BY <1>2 DEF TableGrows, Ind, TypeOK
<1> QED  BY <1>2, <1>4, <1>6, <1>7 DEF GoodStep, Ind

\* An INSERT gives an entry the next id.
LEMMA InsertStep ==
  ASSUME Ind, NEW p \in Parsers, InsertRow(p)
  PROVE  \E i \in NextDue(p) :
           /\ ~stats[p][i].from_db
           /\ stats'[p] \in Seq(Entry) /\ SameButIds(stats[p], stats'[p])
           /\ stats' = [stats EXCEPT ![p] = stats'[p]]
           /\ stats'[p][i].row = nextId
           /\ \A j \in 1 .. Len(stats[p]) : j # i => stats'[p][j] = stats[p][j]
           /\ at' = [at EXCEPT ![p] = i + 1] /\ nextId' = nextId + 1
           /\ UNCHANGED <<pc, file, seen, table, loaded>>
<1>1. PICK i \in NextDue(p) :
        /\ ~stats[p][i].from_db
        /\ stats' = [stats EXCEPT ![p][i].row = nextId]
        /\ at' = [at EXCEPT ![p] = i + 1]
  BY DEF InsertRow
<1> DEFINE e == [stats[p][i] EXCEPT !.row = nextId]
           es == [stats[p] EXCEPT ![i] = e]
<1>2. stats[p] \in Seq(Entry) /\ i \in 1 .. Len(stats[p]) /\ stats[p][i] \in Entry
  BY NextEntry, EntryType DEF Ind
<1>3. /\ e \in Entry /\ e.row = nextId
      /\ e.key = stats[p][i].key /\ e.from_db = stats[p][i].from_db
      /\ e.diff = stats[p][i].diff
  BY <1>2 DEF Entry, Ind, TypeOK
<1>4. stats' = [stats EXCEPT ![p] = es] /\ stats'[p] = es
  BY <1>1 DEF Ind, TypeOK
<1> HIDE DEF e
<1>5. /\ es \in Seq(Entry) /\ Len(es) = Len(stats[p])
      /\ \A j \in 1 .. Len(stats[p]) : es[j] = IF j = i THEN e ELSE stats[p][j]
  BY <1>2, <1>3, ExceptSeq
<1> HIDE DEF es
<1>6. SameButIds(stats[p], es)
  BY <1>3, <1>5 DEF SameButIds
<1> QED  BY <1>1, <1>2, <1>3, <1>4, <1>5, <1>6 DEF InsertRow

LEMMA InsertGood ==
  ASSUME Ind, NEW p \in Parsers, InsertRow(p)
  PROVE  GoodStep(p)
<1>1. PICK i \in NextDue(p) :
        /\ ~stats[p][i].from_db
        /\ stats'[p] \in Seq(Entry) /\ SameButIds(stats[p], stats'[p])
        /\ stats' = [stats EXCEPT ![p] = stats'[p]]
        /\ stats'[p][i].row = nextId
        /\ \A j \in 1 .. Len(stats[p]) : j # i => stats'[p][j] = stats[p][j]
        /\ at' = [at EXCEPT ![p] = i + 1] /\ nextId' = nextId + 1
        /\ UNCHANGED <<pc, file, seen, table, loaded>>
  BY InsertStep
<1>2. /\ at'[p] = i + 1 /\ \A q \in Parsers : q # p => Unmoved(q)
      /\ nextId \in Nat /\ nextId >= 1
  BY <1>1 DEF Ind, TypeOK, Unmoved
<1>3. Len(stats[p]) \in Nat /\ ParserOK(p)
  BY EntryType DEF Ind
<1>4. Len(stats'[p]) = Len(stats[p])
  BY <1>1 DEF SameButIds
<1>5. TypeOK'
  <2>1. at' \in [Parsers -> Nat \ {0}]
    BY <1>1, <1>3, NextEntry DEF Ind, TypeOK
  <2>2. at'[p] \in 1 .. Len(stats'[p]) + 1
    BY <1>2, <1>3, <1>4, NextEntry
  <2>3. \A q \in Parsers : pc'[q] = "write" => at'[q] \in 1 .. Len(stats'[q]) + 1
    BY <1>1, <1>2, <2>2 DEF Ind, TypeOK, Unmoved
  <2>4. stats' \in [Parsers -> Seq(Entry)]
    BY <1>1 DEF Ind, TypeOK
  <2>5. DOMAIN table' \subseteq 1 .. nextId' - 1
    BY <1>1, <1>2 DEF Ind, TypeOK
  <2> QED  BY <1>1, <1>2, <2>1, <2>3, <2>4, <2>5 DEF Ind, TypeOK
<1>6. ASSUME NEW j \in 1 .. Len(stats'[p]) PROVE EntryOK(p, j)'
  <2>1. EntryOK(p, j) /\ pc[p] = "write"
    BY <1>1, <1>3, <1>4, <1>6, NextEntry DEF ParserOK, EntriesOK
  <2>2. CASE j = i
    BY <1>1, <1>2, <1>4, <2>1, <2>2 DEF EntryOK, SameButIds
  <2>3. CASE j # i
    <3>1. stats'[p][j] = stats[p][j]
      BY <1>1, <1>4, <2>3
    <3>2. j < i + 1 /\ stats[p][j].diff > 0 => j < at[p]
      BY <1>4, <2>3, NextEntry
    <3>3. stats[p][j].row \in 1 .. nextId - 1 => stats[p][j].row \in 1 .. nextId' - 1
      BY <1>1, <1>2
    <3>4. \A k \in 1 .. Len(stats[p]) : stats'[p][k].key = stats[p][k].key
      BY <1>1 DEF SameButIds
    <3> QED  BY <1>1, <1>2, <1>4, <2>1, <3>1, <3>2, <3>3, <3>4 DEF EntryOK
  <2> QED  BY <2>2, <2>3
<1>7. ParserOK(p)'
  BY <1>1, <1>3, <1>6 DEF ParserOK, ViewOK, EntriesOK
<1>8. TableGrows
  BY <1>1, <1>2 DEF TableGrows
<1> QED  BY <1>1, <1>2, <1>5, <1>7, <1>8 DEF GoodStep, Ind

\* A row that p has written: it has an id, and COMMIT finds its entry.
LEMMA Locked ==
  ASSUME Ind, NEW p \in Parsers, NEW r \in Locks(p)
  PROVE  /\ r \in 1 .. nextId - 1 /\ Diff(p, r) \in Nat
         /\ \E j \in 1 .. Len(stats[p]) :
              stats[p][j].row = r /\ KeyOf(p, r) = stats[p][j].key
<1>1. /\ Len(stats[p]) \in Nat /\ DOMAIN stats[p] = 1 .. Len(stats[p])
      /\ \A i \in 1 .. Len(stats[p]) : stats[p][i] \in Entry
      /\ DOMAIN table \subseteq 1 .. nextId - 1 /\ at[p] \in Nat
  BY EntryType DEF Ind, TypeOK
<1>2. PICK i \in 1 .. at[p] - 1 : pc[p] = "write" /\ stats[p][i].diff > 0 /\ stats[p][i].row = r
  BY DEF Locks
<1>3. i \in 1 .. Len(stats[p]) /\ i < at[p]
  BY <1>1, <1>2 DEF Ind, TypeOK
<1>4. EntryOK(p, i)
  BY <1>2, <1>3 DEF Ind, ParserOK, EntriesOK
<1>5. r \in 1 .. nextId - 1
  BY <1>1, <1>2, <1>3, <1>4 DEF EntryOK, Entry
<1> DEFINE k == CHOOSE j \in DOMAIN stats[p] : stats[p][j].row = r
<1>6. k \in 1 .. Len(stats[p]) /\ stats[p][k].row = r
  BY <1>1, <1>2, <1>3
<1>7. Diff(p, r) = stats[p][k].diff /\ KeyOf(p, r) = stats[p][k].key
  BY DEF Diff, KeyOf
<1> HIDE DEF k
<1> QED  BY <1>1, <1>5, <1>6, <1>7 DEF Entry

LEMMA CommitGood ==
  ASSUME Ind, NEW p \in Parsers, CommitTransaction(p)
  PROVE  GoodStep(p)
<1>1. End(p) /\ nextId' = nextId /\ nextId \in Nat /\ pc[p] = "write"
  BY DEF CommitTransaction, Ind, TypeOK
<1>2. /\ DOMAIN table' = DOMAIN table \union Locks(p)
      /\ \A r \in DOMAIN table \union Locks(p) :
           table'[r] = IF r \notin DOMAIN table THEN [key |-> KeyOf(p, r), cnt |-> Diff(p, r)]
                       ELSE IF r \in Locks(p) THEN [table[r] EXCEPT !.cnt = @ + Diff(p, r)]
                       ELSE table[r]
  BY DEF CommitTransaction
<1>3. \A r \in DOMAIN table : table[r] \in [key : Keys, cnt : Nat]
  BY DEF Ind, TypeOK
<1>4. ASSUME NEW r \in DOMAIN table'
      PROVE  /\ r \in 1 .. nextId' - 1 /\ table'[r] \in [key : Keys, cnt : Nat]
             /\ r \in DOMAIN table => table'[r].key = table[r].key
  <2>1. CASE r \notin DOMAIN table
    <3>1. r \in Locks(p)
      BY <1>2, <1>4, <2>1
    <3>2. r \in 1 .. nextId - 1 /\ Diff(p, r) \in Nat /\ KeyOf(p, r) \in Keys
      BY <3>1, Locked, EntryType DEF Entry, Ind
    <3>3. table'[r] = [key |-> KeyOf(p, r), cnt |-> Diff(p, r)]
      BY <1>2, <2>1, <3>1
    <3> QED  BY <1>1, <2>1, <3>2, <3>3
  <2>2. CASE r \in DOMAIN table /\ r \in Locks(p)
    <3>1. Diff(p, r) \in Nat /\ r \in 1 .. nextId - 1
      BY <2>2, Locked
    <3>2. table'[r] = [table[r] EXCEPT !.cnt = @ + Diff(p, r)]
      BY <1>2, <2>2
    <3>3. table[r] \in [key : Keys, cnt : Nat]
      BY <1>3, <2>2
    <3> QED  BY <1>1, <3>1, <3>2, <3>3
  <2>3. CASE r \in DOMAIN table /\ r \notin Locks(p)
    BY <1>1, <1>2, <1>3, <2>3 DEF Ind, TypeOK
  <2> QED  BY <2>1, <2>2, <2>3
<1>5. loaded' \subseteq Files
  BY <1>1 DEF CommitTransaction, Ind, TypeOK, ParserOK
<1>6. TypeOK'
  BY <1>1, <1>4, <1>5, EndStep DEF TypeOK
<1>7. TableGrows
  BY <1>1, <1>2, <1>4 DEF TableGrows
<1> QED  BY <1>1, <1>6, <1>7, EndStep DEF GoodStep

LEMMA EndGood ==
  ASSUME Ind, NEW p \in Parsers, End(p), UNCHANGED <<table, nextId, loaded>>
  PROVE  GoodStep(p)
<1>1. TypeOK'
  BY EndStep DEF Ind, TypeOK
<1>2. TableGrows
  BY DEF TableGrows, Ind, TypeOK
<1> QED  BY <1>1, <1>2, EndStep DEF GoodStep

\* A step of the parser, one that ends it without a COMMIT, or none.
LEMMA Steps ==
  ASSUME [Next]_vars
  PROVE  \/ \E p \in Parsers : Work(p)
         \/ \E p \in Parsers : End(p) /\ UNCHANGED <<table, nextId, loaded>>
         \/ UNCHANGED vars
<1>1. CASE Victim
  BY <1>1 DEF Victim, Deadlocked
<1>2. CASE \E p \in Parsers : Abort(p)
  BY <1>2 DEF Abort
<1> QED  BY <1>1, <1>2 DEF Next, Finished

LEMMA WorkGood ==
  ASSUME Ind, NEW p \in Parsers, Work(p)
  PROVE  GoodStep(p)
BY StartGood, FillGood, CountGood, StartTransactionGood, UpdateGood, InsertGood, CommitGood
   DEF Work

LEMMA IndInvariant == Spec => []Ind
<1>1. Ind /\ [Next]_vars => Ind'
  <2> SUFFICES ASSUME Ind, [Next]_vars PROVE Ind'
    OBVIOUS
  <2>1. ASSUME UNCHANGED vars PROVE Ind'
    <3>1. TypeOK'
      BY <2>1 DEF vars, Ind, TypeOK
    <3>2. \A p \in Parsers : ParserOK(p)'
      BY <2>1 DEF vars, Ind, ParserOK, ViewOK, EntriesOK, EntryOK
    <3> QED  BY <2>1, <3>1, <3>2 DEF vars, Ind
  <2> QED  BY <2>1, Steps, WorkGood, EndGood, GoodStepInd
<1> QED  BY <1>1, InitInd, PTL DEF Spec

\* Whatever parsers interleave, every committed statistic has an id that the
\* counter has given out, and a write loop stays within its vector.
THEOREM TypesCorrect == Spec => []TypeOK
<1>1. Ind => TypeOK
  BY DEF Ind
<1> QED  BY <1>1, IndInvariant, PTL

-------------------------------------------------------------------------------
(* Rows per statistic *)

\* A row of the statistic is in what p will read, or has read.
Knows(p, k) ==
  IF pc[p] = "stats"
    THEN \E r \in DOMAIN seen[p] : seen[p][r].key = k
    ELSE \E i \in 1 .. Len(stats[p]) : stats[p][i].from_db /\ stats[p][i].key = k

\* Parsers that may insert the statistic.
Ignorant(k) ==
  {p \in Parsers : pc[p] # "idle" /\ DayOf[k] \in DatesInFile(file[p]) /\ ~Knows(p, k)}

LEMMA UnmovedKnows ==
  ASSUME NEW k, NEW q \in Parsers, Unmoved(q)
  PROVE  Knows(q, k)' = Knows(q, k)
BY DEF Unmoved, Knows

\* Once a statistic has a row, nobody becomes ignorant of it.
LEMMA IgnoranceShrinks ==
  ASSUME Ind, NEW p \in Parsers, Work(p), NEW k \in Keys, RowsOf(k) # {}
  PROVE  Ignorant(k)' \subseteq Ignorant(k)
<1>1. \A q \in Parsers : q # p => Unmoved(q)
  BY WorkGood DEF GoodStep
<1>2. ASSUME p \in Ignorant(k)' PROVE p \in Ignorant(k)
  <2>1. CASE Start(p)
    <3>1. pc'[p] = "stats" /\ seen'[p] = table
      BY <2>1 DEF Start, Ind, TypeOK
    <3>2. Knows(p, k)'
      BY <3>1 DEF Knows, RowsOf
    <3> QED  BY <1>2, <3>2 DEF Ignorant
  <2>2. CASE FillOperStats(p)
    <3>1. pc[p] = "stats" /\ pc'[p] = "count" /\ file' = file
      BY <2>2, FillStep DEF FillOperStats
    <3>2. DayOf[k] \in DatesInFile(file[p]) /\ Knows(p, k) => Knows(p, k)'
      BY <2>2, <3>1, FillStep DEF Knows
    <3> QED  BY <1>2, <3>1, <3>2 DEF Ignorant
  <2>3. CASE CountRecord(p)
    <3>1. pc[p] = "count" /\ pc' = pc /\ file' = file
      BY <2>3 DEF CountRecord
    <3>2. Knows(p, k) => Knows(p, k)'
      <4>1. /\ stats[p] \in Seq(Entry) /\ Len(stats[p]) \in Nat
        BY EntryType DEF Ind
      <4>2. CASE stats'[p] = stats[p] \/ SameButDiffs(stats[p], stats'[p])
        BY <3>1, <4>2 DEF Knows, SameButDiffs
      <4>3. ASSUME NEW key \in Keys, stats'[p] = Append(stats[p], NewEntry(key))
            PROVE  Knows(p, k) => Knows(p, k)'
        <5>1. NewEntry(key) \in Entry
          BY DEF NewEntry, Entry
        <5>2. /\ Len(stats'[p]) = Len(stats[p]) + 1
              /\ \A i \in 1 .. Len(stats[p]) : stats'[p][i] = stats[p][i]
          BY <4>1, <4>3, <5>1, AppendProperties
        <5> QED  BY <3>1, <4>1, <5>2 DEF Knows
      <4> QED  BY <2>3, <4>2, <4>3, CountStep
    <3> QED  BY <1>2, <3>1, <3>2 DEF Ignorant
  <2>4. CASE StartTransaction(p)
    <3>1. pc[p] = "count" /\ pc'[p] = "write" /\ UNCHANGED <<file, stats>>
      BY <2>4 DEF StartTransaction, Ind, TypeOK
    <3> QED  BY <1>2, <3>1 DEF Ignorant, Knows
  <2>5. CASE UpdateRow(p)
    BY <1>2, <2>5 DEF UpdateRow, Ignorant, Knows
  <2>6. CASE InsertRow(p)
    <3>1. UNCHANGED <<pc, file, seen>> /\ SameButIds(stats[p], stats'[p])
      BY <2>6, InsertStep
    <3> QED  BY <1>2, <3>1 DEF Ignorant, Knows, SameButIds
  <2>7. CASE CommitTransaction(p)
    BY <1>2, <2>7, EndStep DEF CommitTransaction, Ignorant
  <2> QED  BY <2>1, <2>2, <2>3, <2>4, <2>5, <2>6, <2>7 DEF Work
<1>3. ASSUME NEW q \in Parsers, q # p, q \in Ignorant(k)' PROVE q \in Ignorant(k)
  BY <1>1, <1>3, UnmovedKnows DEF Ignorant, Unmoved
<1> QED  BY <1>2, <1>3 DEF Ignorant

LEMMA RowsFinite ==
  ASSUME Ind, NEW k \in Keys
  PROVE  IsFiniteSet(RowsOf(k))
<1>1. nextId - 1 \in Int /\ RowsOf(k) \in SUBSET (1 .. nextId - 1)
  BY DEF Ind, TypeOK, RowsOf
<1> QED  BY <1>1, FS_Interval, FS_Subset

\* Which rows a step adds for a statistic: a COMMIT at most one, and only that of
\* a parser that was ignorant of it.
LEMMA NewRow ==
  ASSUME Ind, NEW p \in Parsers, Work(p), NEW k \in Keys
  PROVE  \/ RowsOf(k)' = RowsOf(k)
         \/ /\ p \in Ignorant(k) /\ p \notin Ignorant(k)'
            /\ \E r : RowsOf(k)' = RowsOf(k) \union {r}
<1>1. CASE ~CommitTransaction(p)
  BY <1>1 DEF Work, Start, FillOperStats, CountRecord, StartTransaction, UpdateRow, InsertRow,
     RowsOf
<1>2. CASE CommitTransaction(p)
  <2>1. pc[p] = "write" /\ p \notin Ignorant(k)'
    BY <1>2, EndStep DEF CommitTransaction, Ignorant
  <2>2. RowsOf(k) \subseteq RowsOf(k)'
    BY WorkGood DEF GoodStep, TableGrows, RowsOf
  <2>3. ASSUME NEW r \in RowsOf(k)', r \notin RowsOf(k)
        PROVE  \E j \in 1 .. Len(stats[p]) :
                 stats[p][j].row = r /\ stats[p][j].key = k /\ ~stats[p][j].from_db
    <3>1. r \notin DOMAIN table
      BY <2>3, WorkGood DEF GoodStep, TableGrows, RowsOf
    <3>2. r \in Locks(p) /\ KeyOf(p, r) = k
      BY <1>2, <2>3, <3>1 DEF CommitTransaction, RowsOf
    <3>3. PICK j \in 1 .. Len(stats[p]) : stats[p][j].row = r /\ stats[p][j].key = k
      BY <3>2, Locked
    <3>4. EntryOK(p, j)
      BY <2>1 DEF Ind, ParserOK, EntriesOK
    <3>5. stats[p][j].from_db \in BOOLEAN
      BY EntryType DEF Ind, Entry
    <3> QED  BY <3>1, <3>3, <3>4, <3>5 DEF EntryOK
  <2>4. CASE RowsOf(k)' \subseteq RowsOf(k)
    BY <2>2, <2>4
  <2>5. ASSUME NEW r \in RowsOf(k)', r \notin RowsOf(k)
        PROVE  p \in Ignorant(k) /\ RowsOf(k)' = RowsOf(k) \union {r}
    <3>1. PICK j \in 1 .. Len(stats[p]) :
            stats[p][j].row = r /\ stats[p][j].key = k /\ ~stats[p][j].from_db
      BY <2>3, <2>5
    <3>2. EntryOK(p, j)
      BY <2>1 DEF Ind, ParserOK, EntriesOK
    <3>3. \A i \in 1 .. Len(stats[p]) : stats[p][i].key = k => i = j
      BY <3>1, <3>2 DEF EntryOK
    <3>4. p \in Ignorant(k)
      BY <2>1, <3>1, <3>2, <3>3 DEF Ignorant, Knows, EntryOK
    <3>5. \A s \in RowsOf(k)' : s \notin RowsOf(k) => s = r
      BY <2>3, <3>1, <3>3
    <3> QED  BY <2>2, <2>5, <3>4, <3>5
  <2> QED  BY <2>1, <2>4, <2>5
<1> QED  BY <1>1, <1>2

FewRows ==
  \A k \in Keys :
    RowsOf(k) # {} => Cardinality(RowsOf(k)) + Cardinality(Ignorant(k)) <= Cardinality(Parsers)

LEMMA IgnorantFinite ==
  ASSUME IsFiniteSet(Parsers), NEW S, S \in SUBSET Parsers
  PROVE  IsFiniteSet(S) /\ Cardinality(S) \in Nat /\ Cardinality(S) <= Cardinality(Parsers)
BY FS_Subset, FS_CardinalityType

LEMMA FewRowsStays ==
  ASSUME IsFiniteSet(Parsers), Ind, FewRows, NEW p \in Parsers, Work(p)
  PROVE  FewRows'
<1> SUFFICES ASSUME NEW k \in Keys, RowsOf(k)' # {}
             PROVE  Cardinality(RowsOf(k)') + Cardinality(Ignorant(k)') <= Cardinality(Parsers)
  BY DEF FewRows
<1>1. /\ Cardinality(Parsers) \in Nat
      /\ IsFiniteSet(Ignorant(k)) /\ Cardinality(Ignorant(k)) \in Nat
      /\ Cardinality(Ignorant(k)') \in Nat
  <2>1. Ignorant(k) \in SUBSET Parsers /\ Ignorant(k)' \in SUBSET Parsers
    BY DEF Ignorant
  <2> QED  BY <2>1, IgnorantFinite, FS_CardinalityType
<1>2. IsFiniteSet(RowsOf(k)) /\ Cardinality(RowsOf(k)) \in Nat
  BY RowsFinite, FS_CardinalityType
<1>3. CASE RowsOf(k)' = RowsOf(k)
  <2>1. Ignorant(k)' \in SUBSET Ignorant(k)
    BY <1>3, IgnoranceShrinks
  <2>2. Cardinality(Ignorant(k)') <= Cardinality(Ignorant(k))
    BY <1>1, <2>1, FS_Subset
  <2> QED  BY <1>1, <1>2, <1>3, <2>2 DEF FewRows
<1>4. ASSUME NEW r, p \in Ignorant(k), p \notin Ignorant(k)', RowsOf(k)' = RowsOf(k) \union {r}
      PROVE  Cardinality(RowsOf(k)') + Cardinality(Ignorant(k)') <= Cardinality(Parsers)
  <2>1. Cardinality(RowsOf(k)') \in Nat /\ Cardinality(RowsOf(k)') <= Cardinality(RowsOf(k)) + 1
    <3>1. IsFiniteSet(RowsOf(k)')
      BY <1>2, <1>4, FS_AddElement
    <3>2. \/ Cardinality(RowsOf(k) \union {r}) = Cardinality(RowsOf(k))
          \/ Cardinality(RowsOf(k) \union {r}) = Cardinality(RowsOf(k)) + 1
      BY <1>2, FS_AddElement
    <3> QED  BY <1>2, <1>4, <3>1, <3>2, FS_CardinalityType
  <2>2. CASE RowsOf(k) = {}
    <3>1. Cardinality(RowsOf(k)') <= 1
      BY <1>2, <2>1, <2>2, FS_EmptySet
    <3>2. Ignorant(k)' \in SUBSET (Parsers \ {p})
      BY <1>4 DEF Ignorant
    <3>3. /\ IsFiniteSet(Parsers \ {p})
          /\ Cardinality(Parsers \ {p}) = Cardinality(Parsers) - 1
      BY FS_RemoveElement
    <3>4. Cardinality(Ignorant(k)') <= Cardinality(Parsers) - 1
      BY <3>2, <3>3, FS_Subset
    <3> QED  BY <1>1, <2>1, <3>1, <3>4
  <2>3. CASE RowsOf(k) # {}
    <3>1. Ignorant(k)' \in SUBSET (Ignorant(k) \ {p})
      BY <1>4, <2>3, IgnoranceShrinks
    <3>2. /\ IsFiniteSet(Ignorant(k) \ {p})
          /\ Cardinality(Ignorant(k) \ {p}) = Cardinality(Ignorant(k)) - 1
      BY <1>1, <1>4, FS_RemoveElement
    <3>3. Cardinality(Ignorant(k)') <= Cardinality(Ignorant(k)) - 1
      BY <3>1, <3>2, FS_Subset
    <3>4. Cardinality(RowsOf(k)) + Cardinality(Ignorant(k)) <= Cardinality(Parsers)
      BY <2>3 DEF FewRows
    <3> QED  BY <1>1, <1>2, <2>1, <3>3, <3>4
  <2> QED  BY <2>2, <2>3
<1> QED  BY <1>3, <1>4, NewRow

\* A parser that ends without a COMMIT leaves the rows and is ignorant of nothing.
LEMMA EndFewRows ==
  ASSUME IsFiniteSet(Parsers), Ind, FewRows, NEW p \in Parsers, End(p), UNCHANGED table
  PROVE  FewRows'
<1> SUFFICES ASSUME NEW k \in Keys, RowsOf(k)' # {}
             PROVE  Cardinality(RowsOf(k)') + Cardinality(Ignorant(k)') <= Cardinality(Parsers)
  BY DEF FewRows
<1>1. RowsOf(k)' = RowsOf(k)
  BY DEF RowsOf
<1>2. Ignorant(k)' \in SUBSET Ignorant(k) /\ Ignorant(k) \in SUBSET Parsers
  <2>1. p \notin Ignorant(k)'
    BY EndStep DEF Ignorant
  <2>2. ASSUME NEW q \in Parsers, q # p, q \in Ignorant(k)' PROVE q \in Ignorant(k)
    <3>1. Unmoved(q)
      BY <2>2, EndStep
    <3> QED  BY <2>2, <3>1, UnmovedKnows DEF Ignorant, Unmoved
  <2> QED  BY <2>1, <2>2 DEF Ignorant
<1>3. /\ Cardinality(Ignorant(k)') \in Nat /\ Cardinality(Ignorant(k)) \in Nat
      /\ Cardinality(Ignorant(k)') <= Cardinality(Ignorant(k))
      /\ Cardinality(Parsers) \in Nat /\ Cardinality(RowsOf(k)) \in Nat
  BY <1>2, IgnorantFinite, RowsFinite, FS_Subset, FS_CardinalityType
<1> QED  BY <1>1, <1>3 DEF FewRows

\* However parsers race for a new statistic, it gets at most as many rows as
\* there are parsers: one that starts when it has a row inserts none.
THEOREM RowsPerStatistic ==
  ASSUME IsFiniteSet(Parsers)
  PROVE  Spec => []DuplicatesBounded
<1>1. Init => FewRows
  BY DEF Init, FewRows, RowsOf, NoRows
<1>2. Ind /\ FewRows /\ [Next]_vars => FewRows'
  <2> SUFFICES ASSUME Ind, FewRows, [Next]_vars PROVE FewRows'
    OBVIOUS
  <2>1. CASE UNCHANGED vars
    BY <2>1 DEF vars, FewRows, RowsOf, Ignorant, Knows
  <2> QED  BY <2>1, Steps, FewRowsStays, EndFewRows
<1>3. Ind /\ FewRows => DuplicatesBounded
  <2> SUFFICES ASSUME Ind, FewRows, NEW k \in Keys
               PROVE  Cardinality(RowsOf(k)) <= Cardinality(Parsers)
    BY DEF DuplicatesBounded
  <2>1. Cardinality(RowsOf(k)) \in Nat /\ Cardinality(Parsers) \in Nat
    BY RowsFinite, FS_CardinalityType
  <2>2. Cardinality(Ignorant(k)) \in Nat
    <3> Ignorant(k) \in SUBSET Parsers
      BY DEF Ignorant
    <3> QED  BY IgnorantFinite
  <2>3. CASE RowsOf(k) = {}
    BY <2>1, <2>3, FS_EmptySet
  <2>4. CASE RowsOf(k) # {}
    BY <2>1, <2>2, <2>4 DEF FewRows
  <2> QED  BY <2>3, <2>4
<1> QED  BY <1>1, <1>2, <1>3, IndInvariant, PTL DEF Spec

\* A parser that works alone finds or inserts one row: run stats_duplicates
\* violates OneRowPerKey for no other reason than a second parser.
THEOREM OneRowIfAlone ==
  ASSUME NEW p, Parsers = {p}
  PROVE  Spec => []OneRowPerKey
<1>1. IsFiniteSet(Parsers) /\ Cardinality(Parsers) = 1
  BY FS_Singleton
<1>2. DuplicatesBounded => OneRowPerKey
  BY <1>1 DEF DuplicatesBounded, OneRowPerKey
<1> QED  BY <1>1, <1>2, RowsPerStatistic, PTL
===============================================================================
